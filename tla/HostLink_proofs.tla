--------------------------- MODULE HostLink_proofs ---------------------------
(***************************************************************************)
(* Proofs about the host client, for any requests, connections and hosts,  *)
(* any number of tries, of polls, and of hosts and daemons that die.       *)
(***************************************************************************)
EXTENDS HostLink, SequenceTheorems, FiniteSetTheorems, TLAPS

\* What the point a request stands at says of the variables it uses, and what a host that
\* is busy has before it.
Where ==
  /\ ph \in {"collect", "write", "wait"} => cur \in Req /\ tries < MaxTries
  /\ ph \in {"hand", "handAgain"} => conn \in Conn
  /\ ph = "handAgain" => polls < MaxPolls
  /\ \A c \in Conn : side[c] \in {"busy", "said"} => up[c] # << >>

Typed == TypeOK /\ Where

\* The writer's connection is read, the one whose handshake is under way has carried nothing,
\* and there is a collector from the moment a request is written until it returns or fails.
Positions ==
  /\ writer # None => writer \in reader
  /\ conn # None => conn \notin reader /\ up[conn] = << >> /\ down[conn] = << >>
  /\ coll # "none" <=> ph \in {"write", "wait"}
  /\ coll = "none" => buf = << >>

\* What a reader task will still find: nothing, or the request under way and its answer, which
\* ends once, and last.
Quiet(c) == up[c] = << >> /\ down[c] = << >>
Flow(c) ==
  /\ ph = "wait" /\ coll = "open"
  /\ Len(up[c]) <= 1 /\ \A i \in 1..Len(up[c]) : up[c][i] = cur
  /\ \A i \in 1..Len(down[c]) : down[c][i].req = cur
  /\ \A i \in 1..Len(down[c]) : down[c][i].t = "end" => i = Len(down[c]) /\ up[c] = << >>
Single == \A c \in reader : Quiet(c) \/ (Flow(c) /\ \A d \in reader : d # c => Quiet(d))

\* As long as no request was given up whose answer may come, the only answer on its way is
\* that of the request under way.
Matched ==
  ~late => /\ ph = "write" => coll = "open"
           /\ \A i \in 1..Len(buf) : buf[i] = cur
           /\ Single

Inv == Typed /\ Positions /\ Matched

-----------------------------------------------------------------------------
(* Sequences.                                                              *)

LEMMA AppendFacts ==
  ASSUME NEW S, NEW s \in Seq(S), NEW x \in S
  PROVE  /\ Append(s, x) \in Seq(S) /\ Append(s, x) # << >>
         /\ Len(s) \in Nat /\ Len(Append(s, x)) = Len(s) + 1
         /\ \A i \in 1..Len(s) : Append(s, x)[i] = s[i]
         /\ Append(s, x)[Len(s) + 1] = x
<1>1. Append(s, x) # << >>
  BY AppendProperties, LenProperties, EmptySeq
<1> QED BY <1>1, AppendProperties, LenProperties

LEMMA TailFacts ==
  ASSUME NEW S, NEW s \in Seq(S), s # << >>
  PROVE  /\ Tail(s) \in Seq(S) /\ Head(s) \in S /\ Head(s) = s[1]
         /\ Len(s) \in Nat /\ Len(s) >= 1 /\ Len(Tail(s)) = Len(s) - 1
         /\ \A i \in 1..Len(Tail(s)) : Tail(s)[i] = s[i + 1]
<1>1. Len(s) \in Nat /\ Len(s) # 0
  BY LenProperties, EmptySeq
<1>2. /\ Tail(s) \in Seq(S) /\ Head(s) \in S /\ Len(Tail(s)) = Len(s) - 1
      /\ \A i \in 1..Len(Tail(s)) : Tail(s)[i] = s[i + 1]
  BY HeadTailProperties
<1>3. Head(s) = s[1]
  OBVIOUS
<1> QED BY <1>1, <1>2, <1>3

LEMMA OneFacts ==
  ASSUME NEW S, NEW s \in Seq(S), s # << >>, Len(s) <= 1
  PROVE  Len(s) = 1 /\ Head(s) = s[1]
<1>1. Len(s) \in Nat /\ Len(s) >= 1
  BY TailFacts
<1>2. \A n \in Nat : n >= 1 /\ n <= 1 => n = 1
  OBVIOUS
<1>3. Len(s) = 1
  BY <1>1, <1>2, Zenon
<1>4. Head(s) = s[1]
  BY TailFacts
<1> QED BY <1>3, <1>4

LEMMA NothingThere ==
  /\ Len(<< >>) = 0
  /\ \A S : << >> \in Seq(S)
  /\ \A S : \A s \in Seq(S) : Len(s) = 0 => s = << >>
BY EmptySeq

-----------------------------------------------------------------------------
(* Types.                                                                  *)

LEMMA InitTyped ==
  ASSUME Init
  PROVE  Typed
<1>1. /\ << >> \in Seq(Req) /\ << >> \in Seq(Frame)
      /\ MaxTries \in Nat /\ MaxPolls \in Nat /\ MaxFaults \in Nat
  BY NothingThere, BoundsAssumption
<1>2. TypeOK
  <2>1. /\ up \in [Conn -> Seq(Req)] /\ down \in [Conn -> Seq(Frame)]
        /\ got \in [Req -> Seq(Req)] /\ buf \in Seq(Req)
    BY <1>1 DEF Init
  <2>2. /\ at \in [Conn -> Host \cup {None}]
        /\ side \in [Conn -> {"queued", "served", "busy", "said", "closed"}]
        /\ proc \in [Host -> {"off", "boot", "up"}]
        /\ fate \in [Req -> {"new", "asked", "answered", "unavailable", "lost"}]
    BY DEF Init
  <2>3. gave \in [Req -> Nat] /\ served \in [Req -> Nat]
    BY DEF Init
  <2>4. tries \in 0..MaxTries /\ polls \in 0..MaxPolls /\ faults \in 0..MaxFaults
    BY <1>1 DEF Init
  <2> QED BY <2>1, <2>2, <2>3, <2>4 DEF Init, TypeOK
<1>3. Where
  BY DEF Init, Where
<1> QED BY <1>2, <1>3 DEF Typed

\* The steps of request().
LEMMA RequestTyped ==
  ASSUME Typed, (\E r \in Req : Begin(r)) \/ Collect \/ WriteFails \/ Write \/ Return \/ Timeout
  PROVE  Typed'
<1> USE BoundsAssumption, NothingThere
<1>1. ASSUME NEW r \in Req, Begin(r) PROVE Typed'
  <2>1. /\ ph' = "collect" /\ cur' = r /\ tries' = 0 /\ fate' = [fate EXCEPT ![r] = "asked"]
        /\ UNCHANGED <<polls, pending, link, wire, hosts, got, history, faults>>
    BY <1>1 DEF Begin
  <2>2. fate' \in [Req -> {"new", "asked", "answered", "unavailable", "lost"}]
    BY <2>1 DEF Typed, TypeOK
  <2>3. tries' \in 0..MaxTries /\ tries' < MaxTries
    BY <2>1
  <2>4. TypeOK'
    BY <2>1, <2>2, <2>3 DEF Typed, TypeOK, pending, link, wire, hosts, history
  <2>5. Where'
    BY <2>1, <2>3 DEF Typed, Where, pending, link, wire, hosts, history
  <2> QED BY <2>4, <2>5 DEF Typed
<1>2. CASE Collect
  BY <1>2 DEF Typed, TypeOK, Where, Collect, link, wire, hosts, answers, history
<1>3. CASE WriteFails
  BY <1>3 DEF Typed, TypeOK, Where, WriteFails, Fail, link, wire, hosts, answers, history
<1>4. CASE Write
  <2>1. writer \in Conn /\ cur \in Req
    BY <1>4 DEF Typed, TypeOK, Where, Write
  <2>2. Append(up[writer], cur) \in Seq(Req) /\ Append(up[writer], cur) # << >>
    <3>1. up[writer] \in Seq(Req)
      BY <2>1 DEF Typed, TypeOK
    <3> QED BY <2>1, <3>1, AppendFacts
  <2>3. up' \in [Conn -> Seq(Req)]
    BY <1>4, <2>1, <2>2 DEF Typed, TypeOK, Write
  <2>4. TypeOK'
    BY <1>4, <2>3 DEF Typed, TypeOK, Write, pending, link, hosts, answers, history
  <2>5. Where'
    BY <1>4, <2>1, <2>2 DEF Typed, TypeOK, Where, Write, pending, link, hosts, answers, history
  <2> QED BY <2>4, <2>5 DEF Typed
<1>5. CASE Return
  BY <1>5 DEF Typed, TypeOK, Where, Return, link, wire, hosts, history
<1>6. CASE Timeout
  <2>1. cur \in Req /\ tries < MaxTries
    BY <1>6 DEF Typed, Where, Timeout
  <2>2. gave' \in [Req -> Nat]
    BY <1>6, <2>1 DEF Typed, TypeOK, Timeout
  <2>3. late' \in BOOLEAN
    BY <1>6 DEF Typed, TypeOK, Timeout, Outstanding
  <2> QED BY <1>6, <2>1, <2>2, <2>3 DEF Typed, TypeOK, Where, Timeout, Fail, link, wire, hosts, answers
<1> QED BY <1>1, <1>2, <1>3, <1>4, <1>5, <1>6

\* The end of reconnect() and start().
LEMMA ResumeTyped ==
  ASSUME Typed, NEW ok \in BOOLEAN, Resume(ok)
  PROVE  /\ ph' \in {"idle", "down", "collect"} /\ cur' \in Req \cup {None}
         /\ tries' \in 0..MaxTries /\ polls' \in 0..MaxPolls
         /\ fate' \in [Req -> {"new", "asked", "answered", "unavailable", "lost"}]
         /\ got' \in [Req -> Seq(Req)]
         /\ ph' = "collect" => cur' \in Req /\ tries' < MaxTries
<1>1. CASE cur = None
  BY <1>1, BoundsAssumption DEF Typed, TypeOK, Resume
<1>2. CASE cur # None
  <2>1. cur \in Req /\ polls' = 0 /\ tries' = tries /\ got' = got
    BY <1>2 DEF Typed, TypeOK, Resume
  <2>2. CASE tries < MaxTries
    BY <1>2, <2>1, <2>2, BoundsAssumption DEF Typed, TypeOK, Resume
  <2>3. CASE ~(tries < MaxTries)
    <3>1. ph' = "idle" /\ cur' = None /\ fate' = [fate EXCEPT ![cur] = "unavailable"]
      BY <1>2, <2>3 DEF Resume
    <3>2. fate' \in [Req -> {"new", "asked", "answered", "unavailable", "lost"}]
      BY <3>1 DEF Typed, TypeOK
    <3> QED BY <2>1, <3>1, <3>2, BoundsAssumption DEF Typed, TypeOK
  <2> QED BY <2>2, <2>3
<1> QED BY <1>1, <1>2

\* The steps of reconnect().
LEMMA ReconnectTyped ==
  ASSUME Typed, (\E c \in Conn : Dial(c)) \/ Refused \/ HandshakeOk \/ HandshakeFails
                \/ (\E h \in Host : Spawn(h)) \/ NoHost
  PROVE  Typed'
<1> USE BoundsAssumption, NothingThere
<1>1. ASSUME NEW c \in Conn, Dial(c) PROVE Typed'
  <2>1. TypeOK'
    BY <1>1 DEF Typed, TypeOK, Dial, Listens, pending, hosts, answers, history
  <2>2. ph' \in {"hand", "handAgain"} /\ conn' = c /\ (ph' = "handAgain" => polls' < MaxPolls)
    BY <1>1 DEF Dial, pending, hosts, answers, history
  <2>3. \A d \in Conn : side'[d] \in {"busy", "said"} => up'[d] # << >>
    BY <1>1 DEF Typed, TypeOK, Where, Dial
  <2> QED BY <2>1, <2>2, <2>3 DEF Typed, Where
<1>2. CASE Refused
  BY <1>2 DEF Typed, TypeOK, Where, Refused, pending, link, wire, hosts, answers, history
<1>3. CASE HandshakeOk
  <2>1. conn \in Conn
    BY <1>3 DEF Typed, Where, HandshakeOk
  <2> QED BY <1>3, <2>1, ResumeTyped DEF Typed, TypeOK, Where, HandshakeOk, pending, wire, hosts, history
<1>4. CASE HandshakeFails
  <2>1. conn \in Conn
    BY <1>4 DEF Typed, Where, HandshakeFails
  <2>2. side' \in [Conn -> {"queued", "served", "busy", "said", "closed"}] /\ at' \in [Conn -> Host \cup {None}]
    BY <1>4, <2>1 DEF Typed, TypeOK, HandshakeFails
  <2>3. ph' \in {"spawn", "poll"} /\ polls' \in 0..MaxPolls
    BY <1>4 DEF Typed, TypeOK, Where, HandshakeFails
  <2>4. \A c \in Conn : side'[c] \in {"busy", "said"} => up'[c] # << >>
    BY <1>4, <2>1 DEF Typed, TypeOK, Where, HandshakeFails
  <2> QED BY <1>4, <2>2, <2>3, <2>4 DEF Typed, TypeOK, Where, HandshakeFails, pending, hosts, answers, history
<1>5. ASSUME NEW h \in Host, Spawn(h) PROVE Typed'
  BY <1>5 DEF Typed, TypeOK, Where, Spawn, pending, link, wire, answers, history
<1>6. CASE NoHost
  BY <1>6, ResumeTyped DEF Typed, TypeOK, Where, NoHost, pending, link, wire, hosts, history
<1> QED BY <1>1, <1>2, <1>3, <1>4, <1>5, <1>6

\* The steps of a reader task.
LEMMA TaskTyped ==
  ASSUME Typed, NEW c \in Conn, Task(c)
  PROVE  Typed'
<1>1. CASE ReadFrame(c)
  <2>1. /\ down[c] \in Seq(Frame) /\ down[c] # << >>
        /\ Tail(down[c]) \in Seq(Frame) /\ Head(down[c]) \in Frame
    BY <1>1, TailFacts DEF Typed, TypeOK, ReadFrame
  <2>2. Append(buf, Head(down[c]).req) \in Seq(Req)
    BY <2>1, AppendFacts DEF Typed, TypeOK, Frame
  <2>3. buf' \in Seq(Req) /\ coll' \in {"none", "open", "done"}
    BY <1>1, <2>2 DEF Typed, TypeOK, ReadFrame, pending
  <2>4. down' \in [Conn -> Seq(Frame)]
    BY <1>1, <2>1 DEF Typed, TypeOK, ReadFrame
  <2> QED BY <1>1, <2>3, <2>4 DEF Typed, TypeOK, Where, ReadFrame, call, link, hosts, answers, history
<1>2. CASE ReaderEnds(c)
  BY <1>2 DEF Typed, TypeOK, Where, ReaderEnds, Cleared, pending, wire, hosts, answers, history
<1> QED BY <1>1, <1>2 DEF Task

\* The steps of a host.
LEMMA HeadTyped ==
  ASSUME Typed, NEW c \in Conn, side[c] \in {"busy", "said"}
  PROVE  Head(up[c]) \in Req
BY TailFacts DEF Typed, TypeOK, Where

LEMMA SayTyped ==
  ASSUME Typed, NEW c \in Conn, side[c] \in {"busy", "said"}, NEW t \in {"reply", "end"}, Say(c, t)
  PROVE  down' \in [Conn -> Seq(Frame)]
<1>1. Head(up[c]) \in Req
  BY HeadTyped
<1>2. [t |-> t, req |-> Head(up[c])] \in Frame
  BY <1>1 DEF Frame
<1>3. Append(down[c], [t |-> t, req |-> Head(up[c])]) \in Seq(Frame)
  BY <1>2, AppendFacts DEF Typed, TypeOK
<1> QED BY <1>3 DEF Typed, TypeOK, Say

LEMMA ServeTyped ==
  ASSUME Typed, NEW c \in Conn, Serve(c)
  PROVE  Typed'
<1>1. CASE Accept(c)
  BY SMTT(30), <1>1 DEF Typed, TypeOK, Where, Accept, call, pending, link, hosts, answers, history
<1>2. CASE Take(c)
  <2>1. Head(up[c]) \in Req
    BY <1>2, TailFacts DEF Typed, TypeOK, Take
  <2>2. served' \in [Req -> Nat]
    <3>1. PICK r \in Req : r = Head(up[c])
      BY <2>1
    <3>2. served' = [served EXCEPT ![r] = served[r] + 1]
      BY <1>2, <3>1 DEF Take
    <3> QED BY SMTT(30), <3>2 DEF Typed, TypeOK
  <2>3. side' \in [Conn -> {"queued", "served", "busy", "said", "closed"}]
    BY <1>2 DEF Typed, TypeOK, Take
  <2>4. \A e \in Conn : side'[e] \in {"busy", "said"} => up[e] # << >>
    BY <1>2 DEF Typed, TypeOK, Where, Take
  <2>5. UNCHANGED <<call, pending, link, at, up, down, hosts, answers, gave, late, faults>>
    BY <1>2 DEF Take
  <2>6. TypeOK'
    BY <2>2, <2>3, <2>5 DEF Typed, TypeOK, call, pending, link, hosts, answers
  <2>7. Where'
    BY <2>4, <2>5 DEF Typed, Where, call, pending, link
  <2> QED BY <2>6, <2>7 DEF Typed
<1>3. CASE Reply(c)
  <2>1. down' \in [Conn -> Seq(Frame)]
    BY <1>3, SayTyped DEF Reply
  <2>2. TypeOK'
    BY <1>3, <2>1 DEF Typed, TypeOK, Reply, call, pending, link, hosts, answers, history
  <2>3. Where'
    BY <1>3 DEF Typed, TypeOK, Where, Reply, call, link
  <2> QED BY <2>2, <2>3 DEF Typed
<1>4. CASE End(c)
  <2>1. Tail(up[c]) \in Seq(Req)
    BY <1>4, TailFacts DEF Typed, TypeOK, Where, End
  <2>2. down' \in [Conn -> Seq(Frame)]
    BY <1>4, SayTyped DEF End
  <2> QED BY ZenonT(30), <1>4, <2>1, <2>2 DEF Typed, TypeOK, Where, End, call, pending, link, hosts, answers, history
<1>5. CASE Hangup(c)
  BY SMTT(30), <1>5, NothingThere DEF Typed, TypeOK, Where, Hangup, call, pending, link, hosts, answers, history
<1> QED BY <1>1, <1>2, <1>3, <1>4, <1>5 DEF Serve

\* Processes that come and go.
LEMMA ProcessTyped ==
  ASSUME Typed, (\E h \in Host : HostUp(h) \/ HostCrash(h)) \/ Restart
  PROVE  Typed'
<1> USE BoundsAssumption, NothingThere
<1>1. ASSUME NEW h \in Host, HostUp(h) PROVE Typed'
  BY <1>1 DEF Typed, TypeOK, Where, HostUp, call, pending, link, wire, answers, history
<1>2. ASSUME NEW h \in Host, HostCrash(h) PROVE Typed'
  <2>1. faults' \in 0..MaxFaults
    BY <1>2 DEF Typed, TypeOK, HostCrash, Fault
  <2>2. down' \in [Conn -> Seq(Frame)]
    <3>1. << >> \in Seq(Frame)
      BY NothingThere
    <3>2. CASE UNCHANGED down
      BY <3>2 DEF Typed, TypeOK
    <3>3. CASE down' = [c \in Conn |-> IF at[c] = h THEN << >> ELSE down[c]]
      BY <3>1, <3>3 DEF Typed, TypeOK
    <3> QED BY <1>2, <3>2, <3>3 DEF HostCrash
  <2>3. /\ side' \in [Conn -> {"queued", "served", "busy", "said", "closed"}]
        /\ at' \in [Conn -> Host \cup {None}] /\ up' \in [Conn -> Seq(Req)]
    BY <1>2 DEF Typed, TypeOK, HostCrash
  <2>4. \A c \in Conn : side'[c] \in {"busy", "said"} => up'[c] # << >>
    BY <1>2 DEF Typed, TypeOK, Where, HostCrash
  <2> QED BY <1>2, <2>1, <2>2, <2>3, <2>4 DEF Typed, TypeOK, Where, HostCrash, call, pending, link, answers, history
<1>3. CASE Restart
  <2>1. faults' \in 0..MaxFaults
    BY <1>3 DEF Typed, TypeOK, Restart, Fault
  <2>2. down' \in [Conn -> Seq(Frame)] /\ buf' \in Seq(Req)
    BY <1>3 DEF Restart
  <2>3. fate' \in [Req -> {"new", "asked", "answered", "unavailable", "lost"}]
    BY <1>3 DEF Typed, TypeOK, Restart
  <2>4. TypeOK'
    <3>1. /\ ph' = "connect" /\ cur' = None /\ tries' = 0 /\ polls' = 0 /\ coll' = "none"
          /\ writer' = None /\ reader' = {} /\ conn' = None /\ late' = FALSE
      BY <1>3 DEF Restart
    <3>2. UNCHANGED <<at, side, up, proc, file, got, gave, served>>
      BY <1>3 DEF Restart, hosts
    <3>3. tries' \in 0..MaxTries /\ polls' \in 0..MaxPolls
      BY <3>1
    <3>4. /\ up' \in [Conn -> Seq(Req)] /\ got' \in [Req -> Seq(Req)]
          /\ gave' \in [Req -> Nat] /\ served' \in [Req -> Nat]
          /\ at' \in [Conn -> Host \cup {None}] /\ file' \in Host \cup {None}
          /\ side' \in [Conn -> {"queued", "served", "busy", "said", "closed"}]
          /\ proc' \in [Host -> {"off", "boot", "up"}]
      BY <3>2 DEF Typed, TypeOK
    <3> QED BY <2>1, <2>2, <2>3, <3>1, <3>3, <3>4 DEF TypeOK
  <2>5. Where'
    BY <1>3 DEF Typed, Where, Restart
  <2> QED BY <2>4, <2>5 DEF Typed
<1> QED BY <1>1, <1>2, <1>3

LEMMA StepTyped ==
  ASSUME Typed, [Next]_vars
  PROVE  Typed'
<1>1. CASE UNCHANGED vars
  BY <1>1 DEF Typed, TypeOK, Where, vars, call, pending, link, wire, hosts, answers, history
<1>2. CASE Next
  BY <1>2, RequestTyped, ReconnectTyped, TaskTyped, ServeTyped, ProcessTyped DEF Next, Call
<1> QED BY <1>1, <1>2

\* Whatever hosts and connections do, the state of the client and of the wire keeps its
\* types: a request is tried MaxTries times at most, and a spawned host is asked for
\* MaxPolls times (host_client.rs:196, 250).
THEOREM TypeCorrect == Spec => []TypeOK
<1>1. Init => Typed
  BY InitTyped
<1>2. Typed /\ [Next]_vars => Typed'
  BY StepTyped
<1>3. Typed => TypeOK
  BY DEF Typed
<1> QED BY <1>1, <1>2, <1>3, PTL DEF Spec

-----------------------------------------------------------------------------
(* Positions.                                                              *)

LEMMA StepPositions ==
  ASSUME Typed, Positions, [Next]_vars
  PROVE  Positions'
<1> USE NoneAssumption
<1>1. CASE UNCHANGED vars
  BY <1>1 DEF Positions, vars, call, pending, link, wire
<1>2. ASSUME NEW r \in Req, Begin(r) PROVE Positions'
  BY <1>2 DEF Positions, Begin, pending, link, wire
<1>3. CASE Collect
  BY <1>3 DEF Positions, Collect, link, wire
<1>4. CASE WriteFails
  BY <1>4 DEF Positions, WriteFails, Fail, link, wire
<1>5. CASE Write
  <2>1. writer \in reader /\ writer \in Conn /\ (conn # None => conn \in Conn /\ conn # writer)
    BY <1>5 DEF Typed, TypeOK, Positions, Write
  <2>2. conn # None => up'[conn] = up[conn]
    BY <1>5, <2>1 DEF Typed, TypeOK, Write
  <2> QED BY <1>5, <2>2 DEF Positions, Write, pending, link
<1>6. CASE Return
  BY <1>6 DEF Positions, Return, link, wire
<1>7. CASE Timeout
  BY <1>7 DEF Positions, Timeout, Fail, link, wire
<1>8. ASSUME NEW c \in Conn, Dial(c) PROVE Positions'
  <2>1. conn' = c /\ up'[c] = << >> /\ down'[c] = << >> /\ c \notin reader
    BY <1>8 DEF Typed, TypeOK, Dial, Free, Heard
  <2> QED BY <1>8, <2>1 DEF Positions, Dial, pending
<1>9. CASE Refused
  BY <1>9 DEF Positions, Refused, pending, link, wire
<1>10. CASE HandshakeOk
  <2>1. ph' \in {"idle", "down", "collect"}
    BY <1>10, ResumeTyped DEF HandshakeOk
  <2> QED BY <1>10, <2>1 DEF Positions, HandshakeOk, pending, wire
<1>11. CASE HandshakeFails
  BY <1>11 DEF Positions, HandshakeFails, pending
<1>12. ASSUME NEW h \in Host, Spawn(h) PROVE Positions'
  BY <1>12 DEF Positions, Spawn, pending, link, wire
<1>13. CASE NoHost
  <2>1. ph' \in {"idle", "down", "collect"}
    BY <1>13, ResumeTyped DEF NoHost
  <2> QED BY <1>13, <2>1 DEF Positions, NoHost, pending, link, wire
<1>14. ASSUME NEW c \in Conn, ReadFrame(c) PROVE Positions'
  <2>1. conn # None => conn \in Conn /\ conn # c
    BY <1>14 DEF Typed, TypeOK, Positions, ReadFrame
  <2>2. conn # None => down'[conn] = down[conn]
    BY <1>14, <2>1 DEF Typed, TypeOK, ReadFrame
  <2>3. (coll' = "none" <=> coll = "none") /\ (coll' = "none" => buf' = buf)
    BY <1>14 DEF ReadFrame, pending
  <2> QED BY <1>14, <2>2, <2>3 DEF Positions, ReadFrame, call, link
<1>15. ASSUME NEW c \in Conn, ReaderEnds(c) PROVE Positions'
  BY <1>15 DEF Positions, ReaderEnds, Cleared, pending, wire
<1>16. ASSUME NEW c \in Conn, Accept(c) \/ Take(c) PROVE Positions'
  BY <1>16 DEF Positions, Accept, Take, call, pending, link
<1>17. ASSUME NEW c \in Conn, Reply(c) \/ End(c) PROVE Positions'
  <2>1. up[c] # << >>
    BY <1>17 DEF Typed, Where, Reply, End
  <2>2. conn # None => conn \in Conn /\ conn # c
    BY <2>1 DEF Typed, TypeOK, Positions
  <2>3. conn # None => down'[conn] = down[conn] /\ up'[conn] = up[conn]
    BY <1>17, <2>2 DEF Typed, TypeOK, Reply, End, Say
  <2> QED BY <1>17, <2>3 DEF Positions, Reply, End, call, pending, link
<1>18. ASSUME NEW c \in Conn, Hangup(c) PROVE Positions'
  <2>1. conn # None => conn \in Conn
    BY DEF Typed, TypeOK
  <2>2. conn # None => up'[conn] = << >>
    BY <1>18, <2>1 DEF Typed, TypeOK, Positions, Hangup
  <2> QED BY <1>18, <2>2 DEF Positions, Hangup, call, pending, link
<1>19. ASSUME NEW h \in Host, HostUp(h) PROVE Positions'
  BY <1>19 DEF Positions, HostUp, call, pending, link, wire
<1>20. ASSUME NEW h \in Host, HostCrash(h) PROVE Positions'
  <2>1. conn # None => conn \in Conn
    BY DEF Typed, TypeOK
  <2>2. conn # None => up'[conn] = << >> /\ down'[conn] = << >>
    BY <1>20, <2>1 DEF Positions, HostCrash
  <2> QED BY <1>20, <2>2 DEF Positions, HostCrash, call, pending, link
<1>21. CASE Restart
  BY <1>21 DEF Positions, Restart
<1> QED BY <1>1, <1>2, <1>3, <1>4, <1>5, <1>6, <1>7, <1>8, <1>9, <1>10, <1>11, <1>12, <1>13,
           <1>14, <1>15, <1>16, <1>17, <1>18, <1>19, <1>20, <1>21 DEF Next, Call, Task, Serve

-----------------------------------------------------------------------------
(* Answers.                                                                *)

\* Unless a request waits with an open collector there is nothing to read.
LEMMA AllQuiet ==
  ASSUME Matched, ~late, ~(ph = "wait" /\ coll = "open")
  PROVE  \A c \in reader : up[c] = << >> /\ down[c] = << >>
BY DEF Matched, Single, Quiet, Flow

\* Nothing to read before the step, and nothing after it.
LEMMA StaysQuiet ==
  ASSUME Matched, ~late, ~(ph = "wait" /\ coll = "open"),
         \A c \in reader' : \/ up'[c] = << >> /\ down'[c] = << >>
                            \/ c \in reader /\ up'[c] = up[c] /\ down'[c] = down[c]
  PROVE  Single'
BY AllQuiet DEF Single, Quiet

\* What was to be read stays, or is lost.
LEMMA Shrinks ==
  ASSUME Single, ph' = ph, coll' = coll, cur' = cur, reader' \subseteq reader,
         \A c \in reader' : up'[c] \in {up[c], << >>} /\ down'[c] \in {down[c], << >>}
  PROVE  Single'
<1>1. \A c \in reader' : Quiet(c) => Quiet(c)'
  BY DEF Quiet
<1>2. ASSUME NEW c \in reader', Flow(c) PROVE Flow(c)'
  <2>1. Len(<< >>) = 0 /\ up'[c] \in {up[c], << >>} /\ down'[c] \in {down[c], << >>}
    BY NothingThere
  <2>2. ph' = "wait" /\ coll' = "open"
    BY <1>2 DEF Flow
  <2>3. Len(up'[c]) <= 1 /\ \A i \in 1..Len(up'[c]) : up'[c][i] = cur'
    BY <1>2, <2>1 DEF Flow
  <2>4. CASE down'[c] = << >>
    BY <2>1, <2>2, <2>3, <2>4 DEF Flow
  <2>5. CASE down'[c] = down[c]
    BY <1>2, <2>1, <2>2, <2>3, <2>5 DEF Flow
  <2> QED BY <2>1, <2>4, <2>5
<1>3. ASSUME NEW c \in reader' PROVE Quiet(c)' \/ (Flow(c)' /\ \A d \in reader' : d # c => Quiet(d)')
  <2>1. CASE Quiet(c)
    BY <1>1, <2>1
  <2>2. CASE Flow(c) /\ \A d \in reader : d # c => Quiet(d)
    BY <1>1, <1>2, <2>2
  <2> QED BY <2>1, <2>2 DEF Single
<1> QED BY <1>3 DEF Single

\* One connection carries the request under way, the others nothing.
LEMMA OneFlows ==
  ASSUME NEW c \in Conn,
         \A d \in reader' : d # c => up'[d] = << >> /\ down'[d] = << >>,
         Flow(c)' \/ Quiet(c)'
  PROVE  Single'
<1>1. \A d \in reader' : d # c => Quiet(d)'
  BY DEF Quiet
<1> QED BY <1>1 DEF Single

\* A connection with something to read is the one that carries it.
LEMMA TheOne ==
  ASSUME Matched, ~late, NEW c \in reader, up[c] # << >> \/ down[c] # << >>
  PROVE  Flow(c) /\ \A d \in reader : d # c => up[d] = << >> /\ down[d] = << >>
BY DEF Matched, Single, Quiet

\* The steps of request().
LEMMA RequestMatched ==
  ASSUME Inv, (\E r \in Req : Begin(r)) \/ Collect \/ WriteFails \/ Write \/ Return \/ Timeout
  PROVE  Matched'
<1> USE NothingThere DEF Inv
<1>1. ASSUME NEW r \in Req, Begin(r), ~late' PROVE Matched'
  <2>1. ~late /\ ph' = "collect" /\ ph = "idle" /\ buf' = buf /\ buf = << >>
    BY <1>1 DEF Begin, Positions, pending, history
  <2>2. Single'
    BY <1>1, <2>1, StaysQuiet DEF Begin, link, wire
  <2> QED BY <2>1, <2>2 DEF Matched
<1>2. ASSUME Collect, ~late' PROVE Matched'
  <2>1. ~late /\ ph = "collect" /\ coll' = "open" /\ buf' = << >>
    BY <1>2 DEF Collect, history
  <2>2. Single'
    BY <1>2, <2>1, StaysQuiet DEF Collect, link, wire
  <2> QED BY <2>1, <2>2 DEF Matched
<1>3. ASSUME WriteFails, ~late' PROVE Matched'
  <2>1. ~late /\ ph = "write" /\ ph' = "connect" /\ buf' = << >>
    BY <1>3 DEF WriteFails, Fail, history
  <2>2. Single'
    BY <1>3, <2>1, StaysQuiet DEF WriteFails, link, wire
  <2> QED BY <2>1, <2>2 DEF Matched
<1>4. ASSUME Write, ~late' PROVE Matched'
  <2>1. /\ ~late /\ ph = "write" /\ ph' = "wait" /\ UNCHANGED <<coll, buf, cur, reader, down>>
        /\ coll = "open" /\ writer \in Conn /\ writer \in reader /\ cur \in Req
    BY <1>4 DEF Write, pending, link, history, Matched, Positions, Typed, TypeOK, Where
  <2>2. \A c \in reader : up[c] = << >> /\ down[c] = << >>
    BY <2>1, AllQuiet
  <2>3. \A d \in reader' : d # writer => up'[d] = << >> /\ down'[d] = << >>
    BY <1>4, <2>1, <2>2 DEF Write, Typed, TypeOK
  <2>4. Len(up'[writer]) <= 1 /\ \A i \in 1..Len(up'[writer]) : up'[writer][i] = cur
    <3>1. CASE side[writer] = "closed"
      BY <1>4, <2>1, <2>2, <3>1 DEF Write
    <3>2. CASE side[writer] # "closed"
      <4>1. up'[writer] = Append(<< >>, cur)
        BY <1>4, <2>1, <2>2, <3>2 DEF Write, Typed, TypeOK
      <4>2. << >> \in Seq(Req) /\ cur \in Req
        BY <2>1
      <4>3. Len(up'[writer]) = 1 /\ up'[writer][1] = cur
        BY <4>1, <4>2, AppendFacts
      <4> QED BY <4>3
    <3> QED BY <3>1, <3>2
  <2>5. \A c \in Conn : c = writer => Flow(c)'
    <3> SUFFICES ASSUME NEW c \in Conn, c = writer PROVE Flow(c)'
      OBVIOUS
    <3> QED BY <2>1, <2>2, <2>4 DEF Flow
  <2>6. Single'
    BY <2>1, <2>3, <2>5, OneFlows
  <2> QED BY <2>1, <2>6 DEF Matched
<1>5. ASSUME Return, ~late' PROVE Matched'
  <2>1. ~late /\ coll = "done" /\ ph' = "idle" /\ buf' = << >>
    BY <1>5 DEF Return, history
  <2>2. Single'
    BY <1>5, <2>1, StaysQuiet DEF Return, link, wire
  <2> QED BY <2>1, <2>2 DEF Matched
<1>6. ASSUME Timeout, ~late' PROVE Matched'
  <2>1. ~Outstanding /\ ph' = "connect" /\ buf' = << >> /\ UNCHANGED <<reader, up, down>>
    BY <1>6 DEF Timeout, Fail, link, wire
  <2>2. Single'
    BY <2>1 DEF Outstanding, Single, Quiet
  <2> QED BY <2>1, <2>2 DEF Matched
<1> QED BY <1>1, <1>2, <1>3, <1>4, <1>5, <1>6 DEF Matched

\* The steps of reconnect() and start(): no collector, and nothing to read.
LEMMA ReconnectMatched ==
  ASSUME Inv, (\E c \in Conn : Dial(c)) \/ Refused \/ HandshakeOk \/ HandshakeFails
              \/ (\E h \in Host : Spawn(h)) \/ NoHost, ~late'
  PROVE  Matched'
<1> USE NothingThere DEF Inv
<1>1. /\ ~late /\ ph \notin {"write", "wait"} /\ ph' # "write"
      /\ coll = "none" /\ buf = << >> /\ buf' = << >>
  <2>1. ~late /\ ph \notin {"write", "wait"} /\ buf' = buf
    <3>1. ASSUME NEW c \in Conn, Dial(c) PROVE ph \notin {"write", "wait"} /\ UNCHANGED <<buf, late>>
      BY <3>1 DEF Dial, pending, history
    <3>2. CASE Refused
      BY <3>2 DEF Refused, pending, history
    <3>3. CASE HandshakeOk
      BY <3>3 DEF HandshakeOk, pending, history
    <3>4. CASE HandshakeFails
      BY <3>4 DEF HandshakeFails, pending, history
    <3>5. ASSUME NEW h \in Host, Spawn(h) PROVE ph \notin {"write", "wait"} /\ UNCHANGED <<buf, late>>
      BY <3>5 DEF Spawn, pending, history
    <3>6. CASE NoHost
      BY <3>6 DEF NoHost, pending, history
    <3> QED BY <3>1, <3>2, <3>3, <3>4, <3>5, <3>6
  <2>2. ph' # "write"
    BY ResumeTyped, <2>1 DEF Dial, Refused, HandshakeOk, HandshakeFails, Spawn, NoHost
  <2> QED BY <2>1, <2>2 DEF Positions
<1>2. Single'
  <2>1. CASE Refused \/ NoHost \/ \E h \in Host : Spawn(h)
    BY <1>1, <2>1, StaysQuiet DEF Refused, NoHost, Spawn, link, wire
  <2>2. CASE HandshakeFails
    BY <1>1, <2>2, StaysQuiet DEF HandshakeFails
  <2>3. CASE HandshakeOk
    <3>1. up[conn] = << >> /\ down[conn] = << >>
      BY <2>3, NoneAssumption DEF HandshakeOk, Typed, Where, Positions
    <3> QED BY <1>1, <2>3, <3>1, StaysQuiet DEF HandshakeOk, wire
  <2>4. ASSUME NEW c \in Conn, Dial(c) PROVE Single'
    <3>1. reader' = reader /\ \A d \in reader : d \in Conn /\ d # c
      BY <2>4 DEF Dial, Free, Heard, Typed, TypeOK
    <3>2. \A d \in reader : up'[d] = up[d] /\ down'[d] = down[d]
      BY <2>4, <3>1 DEF Dial, Typed, TypeOK
    <3> QED BY <1>1, <3>1, <3>2, StaysQuiet
  <2> QED BY <2>1, <2>2, <2>3, <2>4
<1> QED BY <1>1, <1>2 DEF Matched

\* The steps of a reader task: a frame is that of the request under way.
LEMMA TaskMatched ==
  ASSUME Inv, NEW c \in Conn, Task(c), ~late'
  PROVE  Matched'
<1> USE DEF Inv
<1>1. CASE ReaderEnds(c)
  <2>1. /\ UNCHANGED <<ph, coll, buf, cur, up, down, late>> /\ reader' \subseteq reader
    BY <1>1 DEF ReaderEnds, Cleared, pending, wire, history
  <2>2. Single'
    BY <2>1, Shrinks DEF Matched
  <2> QED BY <2>1, <2>2 DEF Matched
<1>2. CASE ReadFrame(c)
  <2>1. ~late /\ c \in reader /\ down[c] # << >> /\ UNCHANGED <<ph, cur, reader, up>>
    BY <1>2 DEF ReadFrame, call, link, history
  <2>2. Flow(c) /\ \A d \in reader : d # c => up[d] = << >> /\ down[d] = << >>
    BY <2>1, TheOne
  <2>3. /\ down[c] \in Seq(Frame) /\ up[c] \in Seq(Req) /\ buf \in Seq(Req) /\ cur \in Req
    BY <2>2 DEF Typed, TypeOK, Where, Flow
  <2>4. /\ Tail(down[c]) \in Seq(Frame) /\ Head(down[c]) = down[c][1] /\ Len(down[c]) \in Nat
        /\ Len(down[c]) >= 1 /\ Len(Tail(down[c])) = Len(down[c]) - 1
        /\ \A i \in 1..Len(Tail(down[c])) : Tail(down[c])[i] = down[c][i + 1]
    BY <2>1, <2>3, TailFacts
  <2>5. down'[c] = Tail(down[c]) /\ \A d \in reader' : d # c => up'[d] = << >> /\ down'[d] = << >>
    BY <1>2, <2>1, <2>2 DEF ReadFrame, Typed, TypeOK
  <2>6. Head(down[c]) \in Frame /\ Head(down[c]).req = cur
        /\ (Head(down[c]).t = "end" => Len(down[c]) = 1 /\ up[c] = << >>)
    <3>1. Head(down[c]) \in Frame
      BY <2>1, <2>3, TailFacts
    <3>2. 1 \in 1..Len(down[c])
      BY <2>4
    <3>3. down[c][1].req = cur /\ (down[c][1].t = "end" => 1 = Len(down[c]) /\ up[c] = << >>)
      BY <2>2, <3>2 DEF Flow
    <3> QED BY <2>4, <3>1, <3>3
  <2>7. CASE Head(down[c]).t = "reply"
    <3>1. coll' = coll /\ buf' = Append(buf, cur)
      BY <1>2, <2>2, <2>6, <2>7 DEF ReadFrame, Flow
    <3>2. \A i \in 1..Len(buf') : buf'[i] = cur'
      <4>1. /\ Len(buf) \in Nat /\ Len(buf') = Len(buf) + 1
            /\ \A i \in 1..Len(buf) : buf'[i] = buf[i]
            /\ buf'[Len(buf) + 1] = cur
        BY <2>3, <3>1, AppendFacts
      <4>2. \A i \in 1..Len(buf') : i \in 1..Len(buf) \/ i = Len(buf) + 1
        BY <4>1
      <4> QED BY <2>1, <4>1, <4>2 DEF Matched
    <3>3. Flow(c)'
      <4>1. \A i \in 1..Len(Tail(down[c])) : i + 1 \in 1..Len(down[c]) /\ (i + 1 = Len(down[c]) => i = Len(Tail(down[c])))
        BY <2>4
      <4>2. \A i \in 1..Len(down'[c]) : down'[c][i].req = cur'
        BY <2>1, <2>2, <2>4, <2>5, <4>1 DEF Flow
      <4>3. \A i \in 1..Len(down'[c]) : down'[c][i].t = "end" => i = Len(down'[c]) /\ up'[c] = << >>
        BY <2>1, <2>2, <2>4, <2>5, <4>1 DEF Flow
      <4> QED BY <2>1, <2>2, <3>1, <4>2, <4>3 DEF Flow
    <3>4. Single'
      BY <2>5, <3>3, OneFlows
    <3> QED BY <2>1, <2>2, <3>2, <3>4 DEF Matched, Flow
  <2>8. CASE Head(down[c]).t = "end"
    <3>1. coll' = "done" /\ buf' = buf
      BY <1>2, <2>2, <2>8 DEF ReadFrame, Flow
    <3>2. down'[c] = << >> /\ up'[c] = << >>
      <4>1. Tail(down[c]) \in Seq(Frame) /\ Len(Tail(down[c])) = 0
        BY <2>4, <2>6, <2>8
      <4>2. Tail(down[c]) = << >>
        BY <4>1, NothingThere
      <4> QED BY <2>1, <2>5, <2>6, <2>8, <4>2
    <3>3. Single'
      BY <2>5, <3>2, OneFlows DEF Quiet
    <3> QED BY <2>1, <2>2, <3>1, <3>3 DEF Matched, Flow
  <2> QED BY <2>6, <2>7, <2>8 DEF Frame
<1> QED BY <1>1, <1>2 DEF Task

\* What a host says of the request it serves.
LEMMA SayMatched ==
  ASSUME Inv, ~late, NEW c \in Conn, c \in reader, side[c] \in {"busy", "said"},
         NEW t \in {"reply", "end"}, Say(c, t)
  PROVE  /\ Flow(c) /\ Len(up[c]) = 1 /\ up[c][1] = cur /\ up[c] \in Seq(Req) /\ up[c] # << >>
         /\ \A d \in reader : d # c => up[d] = << >> /\ down[d] = << >> /\ down'[d] = << >>
         /\ Len(down'[c]) = Len(down[c]) + 1 /\ Len(down[c]) \in Nat
         /\ \A i \in 1..Len(down'[c]) : down'[c][i].req = cur
         /\ \A i \in 1..Len(down'[c]) : down'[c][i].t = "end" => i = Len(down'[c]) /\ t = "end"
<1> USE DEF Inv
<1>1. up[c] # << >> /\ up[c] \in Seq(Req) /\ down[c] \in Seq(Frame)
  BY DEF Typed, TypeOK, Where
<1>2. Flow(c) /\ \A d \in reader : d # c => up[d] = << >> /\ down[d] = << >>
  BY <1>1, TheOne
<1>3. Len(up[c]) = 1 /\ Head(up[c]) = up[c][1] /\ Head(up[c]) \in Req
  <2>1. Len(up[c]) <= 1
    BY <1>2 DEF Flow
  <2>2. up[c] \in Seq(Req) /\ up[c] # << >>
    BY <1>1
  <2>3. Len(up[c]) = 1 /\ Head(up[c]) = up[c][1]
    BY <2>1, <2>2, OneFacts
  <2>4. Head(up[c]) \in Req
    BY HeadTyped
  <2> QED BY <2>3, <2>4, Zenon
<1>4. up[c][1] = cur
  BY <1>2, <1>3 DEF Flow
<1> DEFINE f == [t |-> t, req |-> cur]
<1>5. f \in Frame /\ f.t = t /\ f.req = cur
  BY <1>3, <1>4 DEF Frame
<1>6. down'[c] = Append(down[c], f) /\ \A d \in reader : d # c => down'[d] = down[d]
  BY <1>3, <1>4 DEF Say, Heard, Typed, TypeOK
<1> HIDE DEF f
<1>7. /\ Len(down[c]) \in Nat /\ Len(down'[c]) = Len(down[c]) + 1
      /\ \A i \in 1..Len(down[c]) : down'[c][i] = down[c][i]
      /\ down'[c][Len(down[c]) + 1] = f
  BY <1>1, <1>5, <1>6, AppendFacts
<1>8. \A i \in 1..Len(down'[c]) : i \in 1..Len(down[c]) \/ i = Len(down'[c])
  BY <1>7
<1>9. \A i \in 1..Len(down[c]) : down[c][i].req = cur /\ down[c][i].t # "end"
  BY <1>1, <1>2 DEF Flow
<1>10. \A i \in 1..Len(down'[c]) : down'[c][i].req = cur
  BY <1>5, <1>7, <1>8, <1>9
<1>11. \A i \in 1..Len(down'[c]) : down'[c][i].t = "end" => i = Len(down'[c]) /\ t = "end"
  BY <1>5, <1>7, <1>8, <1>9
<1> QED BY <1>1, <1>2, <1>3, <1>4, <1>6, <1>7, <1>10, <1>11

\* The steps of a host: what it says on a connection that is read is of the request under way.
LEMMA ServeMatched ==
  ASSUME Inv, NEW c \in Conn, Serve(c), ~late'
  PROVE  Matched'
<1> USE DEF Inv
<1>1. ~late /\ UNCHANGED <<ph, coll, buf, cur, reader>>
  BY DEF Serve, Accept, Take, Reply, End, Hangup, call, pending, link, history
<1>2. Single'
  <2>1. CASE Accept(c) \/ Take(c)
    BY <1>1, <2>1, Shrinks DEF Accept, Take, Matched
  <2>2. CASE Hangup(c)
    BY <1>1, <2>2, Shrinks DEF Hangup, Matched, Typed, TypeOK
  <2>3. CASE Reply(c) \/ End(c)
    <3>1. PICK t \in {"reply", "end"} :
            Say(c, t) /\ (t = "reply" => up' = up) /\ (t = "end" => up' = [up EXCEPT ![c] = Tail(@)])
      BY <2>3 DEF Reply, End
    <3>2. side[c] \in {"busy", "said"}
      BY <2>3 DEF Reply, End
    <3>3. CASE c \notin reader
      <4>1. up[c] # << >> /\ \A d \in reader : d \in Conn /\ d # c
        BY <3>2, <3>3 DEF Typed, TypeOK, Where
      <4>2. \A d \in reader : up'[d] = up[d] /\ down'[d] = down[d]
        BY <3>1, <4>1 DEF Say, Typed, TypeOK
      <4> QED BY <1>1, <4>2, Shrinks DEF Matched
    <3>4. CASE c \in reader
      <4>1. /\ Flow(c) /\ Len(up[c]) = 1 /\ up[c][1] = cur /\ up[c] \in Seq(Req) /\ up[c] # << >>
            /\ \A d \in reader : d # c => up[d] = << >> /\ down[d] = << >> /\ down'[d] = << >>
            /\ \A i \in 1..Len(down'[c]) : down'[c][i].req = cur
            /\ \A i \in 1..Len(down'[c]) : down'[c][i].t = "end" => i = Len(down'[c]) /\ t = "end"
        BY <1>1, <3>1, <3>2, <3>4, SayMatched
      <4>2. \A d \in reader' : d # c => up'[d] = << >> /\ down'[d] = << >>
        BY <1>1, <3>1, <4>1 DEF Typed, TypeOK
      <4>3. CASE t = "reply"
        <5>1. Flow(c)'
          BY <1>1, <3>1, <4>1, <4>3 DEF Flow
        <5> QED BY <4>2, <5>1, OneFlows
      <4>4. CASE t = "end"
        <5>1. Tail(up[c]) \in Seq(Req) /\ Len(Tail(up[c])) = 0
          BY <4>1, TailFacts
        <5>2. up'[c] = << >> /\ Len(<< >>) = 0
          BY <3>1, <4>4, <5>1, NothingThere DEF Typed, TypeOK
        <5>3. Flow(c)'
          BY <1>1, <4>1, <5>2 DEF Flow
        <5> QED BY <4>2, <5>3, OneFlows
      <4> QED BY <4>3, <4>4
    <3> QED BY <3>3, <3>4
  <2> QED BY <2>1, <2>2, <2>3 DEF Serve
<1> QED BY <1>1, <1>2 DEF Matched

\* Processes that come and go: what was to be read is lost with a host, and the daemon
\* forgets its connections.
LEMMA ProcessMatched ==
  ASSUME Inv, (\E h \in Host : HostUp(h) \/ HostCrash(h)) \/ Restart
  PROVE  Matched'
<1> USE DEF Inv
<1>1. ASSUME NEW h \in Host, HostUp(h) PROVE Matched'
  <2>1. UNCHANGED <<ph, coll, buf, cur, reader, up, down, late>>
    BY <1>1 DEF HostUp, call, pending, link, wire, history
  <2>2. Single => Single'
    BY <2>1, Shrinks
  <2> QED BY <2>1, <2>2 DEF Matched
<1>2. ASSUME NEW h \in Host, HostCrash(h) PROVE Matched'
  <2>1. UNCHANGED <<ph, coll, buf, cur, reader, late>>
    BY <1>2 DEF HostCrash, call, pending, link, history
  <2>2. \A c \in reader' : up'[c] \in {up[c], << >>} /\ down'[c] \in {down[c], << >>}
    BY <1>2, <2>1 DEF HostCrash, Typed, TypeOK
  <2>3. Single => Single'
    BY <2>1, <2>2, Shrinks
  <2> QED BY <2>1, <2>3 DEF Matched
<1>3. CASE Restart
  <2>1. ph' = "connect" /\ reader' = {} /\ buf' = << >>
    BY <1>3 DEF Restart
  <2> QED BY <2>1, NothingThere DEF Matched, Single
<1> QED BY <1>1, <1>2, <1>3

LEMMA StepMatched ==
  ASSUME Inv, [Next]_vars
  PROVE  Matched'
<1>1. CASE UNCHANGED vars
  <2>1. UNCHANGED <<ph, coll, buf, cur, reader, up, down, late>>
    BY <1>1 DEF vars, call, pending, link, wire, history
  <2>2. Single => Single'
    BY <2>1, Shrinks
  <2> QED BY <2>1, <2>2 DEF Matched, Inv
<1>2. CASE late'
  BY <1>2 DEF Matched
<1>3. CASE Next /\ ~late'
  BY <1>3, RequestMatched, ReconnectMatched, TaskMatched, ServeMatched, ProcessMatched DEF Next, Call
<1> QED BY <1>1, <1>2, <1>3

\* Only a return answers a request, with what its collector holds.
LEMMA AnswersOwn ==
  ASSUME Inv, [Next]_vars, ~late, NEW r \in Req, fate'[r] # fate[r], fate'[r] = "answered"
  PROVE  Own(r)'
<1> USE DEF Inv
<1>1. CASE Return
  <2>1. cur \in Req /\ r = cur
    BY <1>1 DEF Return, Typed, TypeOK, Where
  <2>2. got'[r] = buf
    BY <1>1, <2>1 DEF Return, Typed, TypeOK
  <2>3. \A i \in 1..Len(buf) : buf[i] = r
    BY <2>1 DEF Matched
  <2> QED BY <2>2, <2>3 DEF Own
<1>2. CASE ~Return
  <2>1. UNCHANGED fate \/ (\E q \in Req : Begin(q)) \/ HandshakeOk \/ NoHost \/ Restart
    BY <1>2 DEF Next, vars, Call, Task, Serve, Collect, WriteFails, Write, Timeout, Refused, HandshakeFails,
       Dial, Spawn, ReadFrame, ReaderEnds, Accept, Take, Reply, End, Hangup, HostUp, HostCrash, answers
  <2>2. ASSUME NEW q \in Req, Begin(q) PROVE FALSE
    BY <2>2 DEF Begin, Typed, TypeOK
  <2>3. ASSUME NEW ok \in BOOLEAN, Resume(ok) PROVE FALSE
    BY <2>3 DEF Resume, Typed, TypeOK
  <2>4. CASE Restart
    BY <2>4 DEF Restart
  <2> QED BY <2>1, <2>2, <2>3, <2>4 DEF HandshakeOk, NoHost
<1> QED BY <1>1, <1>2

LEMMA InvInit ==
  ASSUME Init
  PROVE  Inv
<1>1. Len(<< >>) = 0
  BY NothingThere
<1>2. Positions /\ Matched
  BY <1>1 DEF Init, Positions, Matched, Single
<1> QED BY <1>2, InitTyped DEF Inv

\* As long as no request was given up whose answer may come, what a request returns with is
\* its own answer: positions are enough, over lost connections, hosts and daemons that die
\* (host_client.rs:3-6, 155-181).
THEOREM AnswersAreOwn == Spec => AnswersMatch
<1>1. Init => Inv
  BY InvInit
<1>2. Inv /\ [Next]_vars => Inv'
  BY StepTyped, StepPositions, StepMatched DEF Inv
<1>3. Inv /\ [Next]_vars => [\A r \in Req : ~late /\ fate'[r] # fate[r] /\ fate'[r] = "answered" => Own(r)']_vars
  BY AnswersOwn
<1> QED BY <1>1, <1>2, <1>3, PTL DEF Spec, AnswersMatch


-----------------------------------------------------------------------------
(* How often a request is carried out.                                     *)

\* The copies of a request that a host may still carry out: on a connection that is not
\* closed, behind the one that its host is busy with.
Taken(c)       == IF side[c] \in {"busy", "said"} THEN 1 ELSE 0
Waits(c, i, r) == /\ side[c] # "closed" /\ i \in 1..Len(up[c]) /\ i > Taken(c) /\ up[c][i] = r
Copies(r)      == {p \in Conn \X Nat : Waits(p[1], p[2], r)}

\* The attempt under way may still be written.
Owed(r) == IF cur = r /\ ph # "wait" THEN 1 ELSE 0

\* A request is written at most once more than it timed out; until it is asked it is nowhere.
CountedAt(r) ==
  /\ IsFiniteSet(Copies(r))
  /\ fate[r] = "new" => served[r] = 0 /\ Copies(r) = {}
  /\ served[r] + Cardinality(Copies(r)) + Owed(r) <= 1 + gave[r]

Counted == /\ cur # None => fate[cur] = "asked"
           /\ \A r \in Req : CountedAt(r)

LEMMA CopiesShrink ==
  ASSUME NEW r,
         \A c \in Conn : \/ Len(up'[c]) = 0 \/ side'[c] = "closed"
                         \/ /\ up'[c] = up[c] /\ side[c] # "closed"
                            /\ side[c] \in {"busy", "said"} => side'[c] \in {"busy", "said"}
  PROVE  Copies(r)' \subseteq Copies(r)
<1>1. ASSUME NEW c \in Conn, NEW i \in Nat, Waits(c, i, r)' PROVE Waits(c, i, r)
  <2>1. side'[c] # "closed" /\ i \in 1..Len(up'[c]) /\ i > Taken(c)' /\ up'[c][i] = r
    BY <1>1 DEF Waits
  <2>2. Len(up'[c]) # 0
    BY <2>1
  <2>3. up'[c] = up[c] /\ side[c] # "closed" /\ Taken(c)' >= Taken(c)
    BY <2>1, <2>2 DEF Taken
  <2> QED BY <2>1, <2>3 DEF Waits, Taken
<1>2. ASSUME NEW p \in Conn \X Nat, Waits(p[1], p[2], r)' PROVE Waits(p[1], p[2], r)
  BY <1>1, <1>2
<1> QED BY <1>2 DEF Copies

LEMMA CountLess ==
  ASSUME TypeOK, TypeOK', NEW r \in Req, CountedAt(r), Copies(r)' \subseteq Copies(r),
         served'[r] = served[r], gave'[r] >= gave[r] + Owed(r)' - Owed(r),
         fate'[r] = "new" => fate[r] = "new"
  PROVE  CountedAt(r)'
<1>1. IsFiniteSet(Copies(r)') /\ Cardinality(Copies(r)') <= Cardinality(Copies(r))
  BY FS_Subset DEF CountedAt
<1>2. Cardinality(Copies(r)') \in Nat /\ Cardinality(Copies(r)) \in Nat
  BY <1>1, FS_CardinalityType DEF CountedAt
<1>3. gave[r] \in Nat /\ gave'[r] \in Nat /\ served[r] \in Nat /\ Owed(r) \in Nat /\ Owed(r)' \in Nat
  BY DEF TypeOK, Owed
<1>4. served'[r] + Cardinality(Copies(r)') + Owed(r)' <= 1 + gave'[r]
  <2>1. served[r] + Cardinality(Copies(r)) + Owed(r) <= 1 + gave[r]
    BY DEF CountedAt
  <2> QED BY <1>1, <1>2, <1>3, <2>1
<1>5. fate'[r] = "new" => served'[r] = 0 /\ Copies(r)' = {}
  BY DEF CountedAt
<1> QED BY <1>1, <1>4, <1>5 DEF CountedAt

\* Steps that carry nothing out, write nothing and give nothing up.
LEMMA CountKept ==
  ASSUME TypeOK, TypeOK', Counted, UNCHANGED <<served, gave>>,
         \A c \in Conn : \/ Len(up'[c]) = 0 \/ side'[c] = "closed"
                         \/ /\ up'[c] = up[c] /\ side[c] # "closed"
                            /\ side[c] \in {"busy", "said"} => side'[c] \in {"busy", "said"},
         \/ cur' = None
         \/ cur' = cur /\ (ph' = "wait" \/ ph # "wait") /\ fate' = fate,
         \A r \in Req : fate'[r] = "new" => fate[r] = "new"
  PROVE  Counted'
<1>1. cur' # None => fate'[cur'] = "asked"
  BY DEF Counted
<1>2. ASSUME NEW r \in Req PROVE CountedAt(r)'
  <2>1. Copies(r)' \subseteq Copies(r)
    BY CopiesShrink
  <2>2. Owed(r)' <= Owed(r) /\ Owed(r) \in Nat /\ Owed(r)' \in Nat
    BY NoneAssumption DEF Owed
  <2>3. gave[r] \in Nat /\ gave'[r] = gave[r]
    BY DEF TypeOK
  <2>4. gave'[r] >= gave[r] + Owed(r)' - Owed(r)
    BY <2>2, <2>3
  <2> QED BY <1>2, <2>1, <2>4, CountLess DEF Counted
<1> QED BY <1>1, <1>2 DEF Counted

LEMMA CountBegin ==
  ASSUME TypeOK, TypeOK', Counted, NEW r \in Req, Begin(r)
  PROVE  Counted'
<1>1. /\ fate[r] = "new" /\ ph = "idle" /\ cur' = r /\ fate' = [fate EXCEPT ![r] = "asked"]
      /\ UNCHANGED <<served, gave, up, side>>
  BY DEF Begin, wire, history
<1>2. fate'[r] = "asked" /\ \A q \in Req : fate'[q] = "new" => fate[q] = "new"
  BY <1>1 DEF TypeOK
<1>3. \A q : Copies(q)' = Copies(q)
  BY <1>1 DEF Copies, Waits, Taken
<1>4. CountedAt(r)'
  <2>1. served[r] = 0 /\ Copies(r) = {} /\ IsFiniteSet(Copies(r)) /\ gave[r] \in Nat
    BY <1>1 DEF Counted, CountedAt, TypeOK
  <2>2. Cardinality({}) = 0
    BY FS_EmptySet
  <2>3. Owed(r)' \in {0, 1}
    BY DEF Owed
  <2>4. served'[r] + Cardinality(Copies(r)') + Owed(r)' <= 1 + gave'[r]
    BY <1>1, <1>3, <2>1, <2>2, <2>3
  <2> QED BY <1>2, <1>3, <2>1, <2>4 DEF CountedAt
<1>5. ASSUME NEW q \in Req, q # r PROVE CountedAt(q)'
  <2>1. Owed(q)' = 0 /\ Owed(q) \in Nat /\ gave[q] \in Nat /\ gave'[q] = gave[q]
    BY <1>1, <1>5 DEF Owed, TypeOK
  <2>2. gave'[q] >= gave[q] + Owed(q)' - Owed(q)
    BY <2>1
  <2> QED BY <1>1, <1>2, <1>3, <1>5, <2>2, CountLess DEF Counted
<1> QED BY <1>1, <1>2, <1>4, <1>5 DEF Counted

LEMMA CountTimeout ==
  ASSUME Typed, TypeOK', Counted, Timeout
  PROVE  Counted'
<1>1. /\ ph = "wait" /\ ph' = "connect" /\ cur' = cur /\ gave' = [gave EXCEPT ![cur] = @ + 1]
      /\ UNCHANGED <<served, fate, up, side>> /\ cur \in Req
  BY DEF Timeout, Fail, wire, answers, Typed, Where
<1>2. \A q : Copies(q)' = Copies(q)
  BY <1>1 DEF Copies, Waits, Taken
<1>3. ASSUME NEW q \in Req PROVE CountedAt(q)'
  <2>1. gave[q] \in Nat /\ gave'[q] = gave[q] + (IF q = cur THEN 1 ELSE 0)
    <3>1. gave[q] \in Nat /\ gave'[q] = IF q = cur THEN gave[q] + 1 ELSE gave[q]
      BY <1>1 DEF Typed, TypeOK
    <3> QED BY <3>1
  <2>2. Owed(q) = 0 /\ Owed(q)' = IF q = cur THEN 1 ELSE 0
    BY <1>1 DEF Owed
  <2>3. gave'[q] >= gave[q] + Owed(q)' - Owed(q)
    BY <2>1, <2>2
  <2> QED BY <1>1, <1>2, <1>3, <2>3, CountLess DEF Counted, Typed
<1> QED BY <1>1, <1>3 DEF Counted

LEMMA CountWrite ==
  ASSUME Typed, TypeOK', Counted, Write
  PROVE  Counted'
<1>1. /\ ph = "write" /\ ph' = "wait" /\ cur' = cur /\ cur \in Req /\ writer \in Conn
      /\ UNCHANGED <<served, gave, fate, side>>
      /\ up' = IF side[writer] = "closed" THEN up ELSE [up EXCEPT ![writer] = Append(@, cur)]
  BY DEF Write, answers, history, Typed, TypeOK, Where
<1>2. up[writer] \in Seq(Req)
  BY <1>1 DEF Typed, TypeOK
<1> DEFINE n == Len(up[writer]) + 1
<1>3. Len(up[writer]) \in Nat /\ n \in Nat
  BY <1>2, LenProperties
<1>4. ASSUME NEW q \in Req PROVE Copies(q)' \subseteq Copies(q) \cup (IF q = cur THEN {<<writer, n>>} ELSE {})
  <2>1. ASSUME NEW c \in Conn, NEW i \in Nat, Waits(c, i, q)'
        PROVE  Waits(c, i, q) \/ (c = writer /\ i = n /\ q = cur)
    <3>1. side[c] # "closed" /\ i \in 1..Len(up'[c]) /\ i > Taken(c) /\ up'[c][i] = q
      BY <1>1, <2>1 DEF Waits, Taken
    <3>2. CASE up'[c] = up[c]
      BY <3>1, <3>2 DEF Waits
    <3>3. CASE c = writer /\ up'[c] = Append(up[c], cur)
      <4>1. /\ Len(Append(up[c], cur)) = n /\ Append(up[c], cur)[n] = cur
            /\ \A k \in 1..Len(up[c]) : Append(up[c], cur)[k] = up[c][k]
        BY <1>1, <1>2, <3>3, AppendFacts
      <4>2. i = n \/ i \in 1..Len(up[c])
        BY <1>3, <3>1, <3>3, <4>1
      <4> HIDE DEF n
      <4> QED BY <3>1, <3>3, <4>1, <4>2 DEF Waits
    <3> QED BY <1>1, <3>2, <3>3 DEF Typed, TypeOK
  <2>2. ASSUME NEW p \in Conn \X Nat, Waits(p[1], p[2], q)'
        PROVE  Waits(p[1], p[2], q) \/ (p = <<writer, n>> /\ q = cur)
    <3>1. p[1] \in Conn /\ p[2] \in Nat /\ p = <<p[1], p[2]>>
      OBVIOUS
    <3> HIDE DEF n
    <3>2. Waits(p[1], p[2], q) \/ (p[1] = writer /\ p[2] = n /\ q = cur)
      BY <2>1, <2>2, <3>1
    <3> QED BY <3>1, <3>2
  <2> HIDE DEF n
  <2> QED BY <2>2 DEF Copies
<1> HIDE DEF n
<1>5. ASSUME NEW q \in Req, q # cur PROVE CountedAt(q)'
  <2>1. Owed(q)' = 0 /\ Owed(q) = 0 /\ gave[q] \in Nat /\ gave'[q] = gave[q]
    BY <1>1, <1>5 DEF Owed, Typed, TypeOK
  <2>2. gave'[q] >= gave[q] + Owed(q)' - Owed(q)
    BY <2>1
  <2>3. Copies(q)' \subseteq Copies(q)
    BY <1>4, <1>5
  <2> QED BY <1>1, <1>5, <2>2, <2>3, CountLess DEF Counted, Typed
<1>6. CountedAt(cur)'
  <2> DEFINE S == Copies(cur) \cup {<<writer, n>>}
  <2>1. IsFiniteSet(Copies(cur))
    BY <1>1 DEF Counted, CountedAt
  <2>2. IsFiniteSet(S) /\ Cardinality(S) \in {Cardinality(Copies(cur)), Cardinality(Copies(cur)) + 1}
    BY <2>1, FS_AddElement
  <2>3. Copies(cur)' \subseteq S
    BY <1>1, <1>4
  <2> HIDE DEF S
  <2>4. IsFiniteSet(Copies(cur)') /\ Cardinality(Copies(cur)') <= Cardinality(S)
    BY <2>2, <2>3, FS_Subset
  <2>5. /\ Cardinality(Copies(cur)') \in Nat /\ Cardinality(S) \in Nat
        /\ Cardinality(Copies(cur)) \in Nat
    BY <2>1, <2>2, <2>4, FS_CardinalityType
  <2>6. Owed(cur) = 1 /\ Owed(cur)' = 0 /\ gave[cur] \in Nat /\ served[cur] \in Nat
    BY <1>1 DEF Owed, Typed, TypeOK
  <2>7. served[cur] + Cardinality(Copies(cur)) + Owed(cur) <= 1 + gave[cur]
    BY <1>1 DEF Counted, CountedAt
  <2>8. served[cur] + Cardinality(Copies(cur)') + Owed(cur)' <= 1 + gave[cur]
    BY <2>2, <2>4, <2>5, <2>6, <2>7
  <2>9. fate[cur] = "asked"
    BY <1>1, NoneAssumption DEF Counted
  <2> QED BY <1>1, <2>4, <2>8, <2>9 DEF CountedAt
<1> QED BY <1>1, <1>5, <1>6 DEF Counted

\* A host takes the first request of a connection.
LEMMA CountTake ==
  ASSUME Typed, TypeOK', Counted, NEW c \in Conn, Take(c)
  PROVE  Counted'
<1> DEFINE h == Head(up[c])
<1>1. /\ side[c] = "served" /\ up[c] # << >> /\ side' = [side EXCEPT ![c] = "busy"]
      /\ served' = [served EXCEPT ![h] = @ + 1] /\ UNCHANGED <<up, cur, ph, fate, gave>>
  BY DEF Take, call, answers
<1>2. h \in Req /\ h = up[c][1] /\ 1 \in 1..Len(up[c])
  <2>1. up[c] \in Seq(Req)
    BY DEF Typed, TypeOK
  <2>2. Len(up[c]) \in Nat /\ Len(up[c]) >= 1 /\ h = up[c][1] /\ h \in Req
    BY <1>1, <2>1, TailFacts
  <2> QED BY <2>2
<1>3. \A d \in Conn : side'[d] = IF d = c THEN "busy" ELSE side[d]
  BY <1>1 DEF Typed, TypeOK
<1>4. Waits(c, 1, h) /\ \A q : ~Waits(c, 1, q)'
  BY <1>1, <1>2, <1>3 DEF Waits, Taken
<1> HIDE DEF h
<1>5. ASSUME NEW q \in Req PROVE Copies(q)' \subseteq Copies(q) /\ <<c, 1>> \notin Copies(q)'
  <2>1. Copies(q)' \subseteq Copies(q)
    <3>1. \A d \in Conn : /\ up'[d] = up[d]
                          /\ side[d] \in {"busy", "said"} => side'[d] \in {"busy", "said"}
                          /\ side'[d] = "closed" \/ side[d] # "closed"
      BY <1>1, <1>3
    <3> QED BY <3>1, CopiesShrink
  <2>2. ASSUME <<c, 1>> \in Copies(q)' PROVE FALSE
    <3>1. Waits(<<c, 1>>[1], <<c, 1>>[2], q)'
      BY <2>2 DEF Copies
    <3> QED BY <1>4, <3>1
  <2> QED BY <2>1, <2>2
<1>6. ASSUME NEW q \in Req, q # h PROVE CountedAt(q)'
  <2>1. Owed(q)' = Owed(q) /\ Owed(q) \in Nat /\ gave[q] \in Nat /\ gave'[q] = gave[q]
    BY <1>1 DEF Owed, Typed, TypeOK
  <2>2. gave'[q] >= gave[q] + Owed(q)' - Owed(q)
    BY <2>1
  <2>3. served'[q] = served[q]
    BY <1>1, <1>6 DEF Typed, TypeOK
  <2> QED BY <1>1, <1>5, <1>6, <2>2, <2>3, CountLess DEF Counted, Typed
<1>7. ASSUME NEW r \in Req, r = h PROVE CountedAt(r)'
  <2>1. CountedAt(r) /\ IsFiniteSet(Copies(r))
    BY <1>7 DEF Counted, CountedAt
  <2>2. <<c, 1>> \in Copies(r)
    BY <1>4, <1>7 DEF Copies
  <2> DEFINE S == Copies(r) \ {<<c, 1>>}
  <2>3. IsFiniteSet(S) /\ Cardinality(S) = Cardinality(Copies(r)) - 1
    BY <2>1, <2>2, FS_RemoveElement
  <2>4. Copies(r)' \subseteq S
    BY <1>5
  <2> HIDE DEF S
  <2>5. IsFiniteSet(Copies(r)') /\ Cardinality(Copies(r)') <= Cardinality(S)
    BY <2>3, <2>4, FS_Subset
  <2>6. Cardinality(Copies(r)') \in Nat /\ Cardinality(S) \in Nat /\ Cardinality(Copies(r)) \in Nat
    BY <2>1, <2>3, <2>5, FS_CardinalityType
  <2>7. served[r] \in Nat /\ served'[r] = served[r] + 1 /\ gave'[r] = gave[r] /\ gave[r] \in Nat
    BY <1>1, <1>7 DEF Typed, TypeOK
  <2>8. Owed(r)' = Owed(r) /\ Owed(r) \in Nat
    BY <1>1 DEF Owed
  <2>9. served'[r] + Cardinality(Copies(r)') + Owed(r)' <= 1 + gave'[r]
    <3>1. served[r] + Cardinality(Copies(r)) + Owed(r) <= 1 + gave[r]
      BY <2>1 DEF CountedAt
    <3> QED BY <2>3, <2>5, <2>6, <2>7, <2>8, <3>1
  <2>10. fate'[r] # "new"
    BY <1>1, <2>1, <2>2 DEF CountedAt
  <2> QED BY <2>5, <2>9, <2>10 DEF CountedAt
<1> QED BY <1>1, <1>6, <1>7 DEF Counted

\* The host is done with the first request of a connection: the others move up.
LEMMA CountEnd ==
  ASSUME Typed, TypeOK', Counted, NEW c \in Conn, End(c)
  PROVE  Counted'
<1>1. /\ side[c] \in {"busy", "said"} /\ side' = [side EXCEPT ![c] = "served"]
      /\ up' = [up EXCEPT ![c] = Tail(@)] /\ UNCHANGED <<cur, ph, fate, gave, served>>
      /\ up[c] # << >> /\ up[c] \in Seq(Req)
  BY DEF End, call, answers, history, Typed, TypeOK, Where
<1>2. /\ Len(up[c]) \in Nat /\ Len(Tail(up[c])) = Len(up[c]) - 1
      /\ \A i \in 1..Len(Tail(up[c])) : Tail(up[c])[i] = up[c][i+1]
  BY <1>1, TailFacts
<1>3. \A d \in Conn : /\ side'[d] = IF d = c THEN "served" ELSE side[d]
                      /\ up'[d] = IF d = c THEN Tail(up[c]) ELSE up[d]
  BY <1>1 DEF Typed, TypeOK
<1>4. ASSUME NEW q \in Req PROVE CountedAt(q)'
  <2> DEFINE S == Copies(q)
             T == Copies(q)'
             U == {p \in S : p[1] # c \/ p[2] - 1 \in Nat}
             f == [p \in S |-> IF p[1] = c THEN <<c, p[2] - 1>> ELSE p]
  <2>0. CountedAt(q) /\ IsFiniteSet(S)
    BY <1>4 DEF Counted, CountedAt
  <2>1. ASSUME NEW d \in Conn, NEW i \in Nat, d # c PROVE Waits(d, i, q)' <=> Waits(d, i, q)
    BY <1>3, <2>1 DEF Waits, Taken
  <2>2. ASSUME NEW i \in Nat, Waits(c, i, q)' PROVE Waits(c, i + 1, q)
    <3>1. i \in 1..Len(Tail(up[c])) /\ Tail(up[c])[i] = q
      BY <1>3, <2>2 DEF Waits
    <3>2. i + 1 \in 1..Len(up[c]) /\ i + 1 > 1 /\ up[c][i+1] = q
      BY <1>2, <3>1
    <3> QED BY <1>1, <3>2 DEF Waits, Taken
  <2>3. ASSUME NEW i \in Nat, Waits(c, i, q) PROVE i - 1 \in Nat /\ Waits(c, i - 1, q)'
    <3>1. i \in 1..Len(up[c]) /\ i > 1 /\ up[c][i] = q
      BY <1>1, <2>3 DEF Waits, Taken
    <3>2. i - 1 \in 1..Len(Tail(up[c])) /\ i - 1 > 0 /\ i - 1 \in Nat /\ (i - 1) + 1 = i
      BY <1>2, <3>1
    <3>3. Tail(up[c])[i-1] = q
      BY <1>2, <3>1, <3>2
    <3>4. Taken(c)' = 0 /\ side'[c] # "closed" /\ up'[c] = Tail(up[c])
      BY <1>3 DEF Taken
    <3> QED BY <3>2, <3>3, <3>4 DEF Waits
  <2>4. \A p \in S : f[p] \in T
    <3>1. SUFFICES ASSUME NEW p \in S PROVE f[p] \in T
      OBVIOUS
    <3>2. p[1] \in Conn /\ p[2] \in Nat /\ p = <<p[1], p[2]>> /\ Waits(p[1], p[2], q)
      BY <3>1 DEF Copies
    <3>3. CASE p[1] = c
      <4>1. f[p] = <<c, p[2] - 1>> /\ p[2] - 1 \in Nat /\ Waits(c, p[2] - 1, q)'
        BY <2>3, <3>1, <3>2, <3>3
      <4> QED BY <4>1 DEF Copies
    <3>4. CASE p[1] # c
      <4>1. f[p] = p /\ Waits(p[1], p[2], q)'
        BY <2>1, <3>1, <3>2, <3>4
      <4> QED BY <3>2, <4>1 DEF Copies
    <3> QED BY <3>3, <3>4
  <2>5. \A t \in T : \E p \in S : f[p] = t
    <3>1. SUFFICES ASSUME NEW t \in T PROVE \E p \in S : f[p] = t
      OBVIOUS
    <3>2. t[1] \in Conn /\ t[2] \in Nat /\ t = <<t[1], t[2]>> /\ Waits(t[1], t[2], q)'
      BY <3>1 DEF Copies
    <3>3. CASE t[1] = c
      <4>1. t[2] + 1 \in Nat /\ Waits(c, t[2] + 1, q) /\ (t[2] + 1) - 1 = t[2]
        BY <2>2, <3>2, <3>3
      <4>2. <<c, t[2] + 1>> \in S
        BY <4>1 DEF Copies
      <4>3. f[<<c, t[2] + 1>>] = <<c, t[2]>>
        BY <4>1, <4>2
      <4> QED BY <3>2, <3>3, <4>2, <4>3
    <3>4. CASE t[1] # c
      <4>1. t \in S
        BY <2>1, <3>2, <3>4 DEF Copies
      <4> QED BY <3>4, <4>1
    <3> QED BY <3>3, <3>4
  <2>6. f \in Surjection(S, T)
    <3>1. f \in [S -> T]
      BY <2>4
    <3> QED BY <2>5, <3>1 DEF Surjection
  <2> HIDE DEF S, T, f
  <2>7. IsFiniteSet(T) /\ Cardinality(T) <= Cardinality(S)
    BY <2>0, <2>6, FS_Surjection
  <2>8. Cardinality(T) \in Nat /\ Cardinality(S) \in Nat
    BY <2>0, <2>7, FS_CardinalityType
  <2>9. Owed(q)' = Owed(q) /\ Owed(q) \in Nat /\ served[q] \in Nat /\ gave[q] \in Nat
    BY <1>1 DEF Owed, Typed, TypeOK
  <2>10. served[q] + Cardinality(S) + Owed(q) <= 1 + gave[q]
    BY <2>0 DEF CountedAt, S
  <2>11. served[q] + Cardinality(T) + Owed(q) <= 1 + gave[q]
    BY <2>7, <2>8, <2>9, <2>10
  <2>12. fate[q] = "new" => served[q] = 0 /\ T = {}
    <3>1. fate[q] = "new" => served[q] = 0 /\ S = {}
      BY <2>0 DEF CountedAt, S
    <3>2. S = {} => T = {}
      BY <2>5
    <3> QED BY <3>1, <3>2
  <2> QED BY <1>1, <2>7, <2>9, <2>11, <2>12 DEF CountedAt, T
<1> QED BY <1>1, <1>4 DEF Counted

LEMMA CountStep ==
  ASSUME Inv, Counted, [Next]_vars
  PROVE  Counted'
<1> USE DEF call, pending, link, wire, hosts, answers, history
<1>0. TypeOK /\ TypeOK' /\ Typed /\ Typed'
  BY StepTyped DEF Inv, Typed
<1>1. CASE \/ Collect \/ WriteFails \/ Refused \/ \E c \in Conn : ReadFrame(c) \/ ReaderEnds(c)
  BY <1>0, <1>1, CountKept DEF Collect, WriteFails, Fail, Refused, ReadFrame, ReaderEnds, Cleared
<1>2. CASE (\E h \in Host : Spawn(h) \/ HostUp(h)) \/ UNCHANGED vars
  BY <1>0, <1>2, CountKept DEF Spawn, HostUp, vars
<1>3. CASE Return
  <2>1. \A r \in Req : fate'[r] = "new" => fate[r] = "new"
    BY <1>0, <1>3 DEF Return, TypeOK
  <2> QED BY <1>0, <1>3, <2>1, CountKept DEF Return
<1>4. ASSUME NEW ok \in BOOLEAN, Resume(ok), ph # "wait", UNCHANGED <<served, gave, up, side>>
      PROVE  Counted'
  <2>1. \A r \in Req : fate'[r] = "new" => fate[r] = "new"
    BY <1>0, <1>4 DEF Resume, TypeOK
  <2>2. cur' = None \/ (cur' = cur /\ fate' = fate)
    BY <1>4 DEF Resume
  <2> QED BY <1>0, <1>4, <2>1, <2>2, CountKept
<1>5. CASE HandshakeOk \/ NoHost
  BY <1>4, <1>5 DEF HandshakeOk, NoHost
<1>6. CASE HandshakeFails
  <2>1. \A c \in Conn : up'[c] = up[c] /\ (side'[c] = "closed" \/ side'[c] = side[c])
    BY <1>0, <1>6 DEF HandshakeFails, TypeOK
  <2>2. UNCHANGED <<served, gave, cur, fate>> /\ ph # "wait"
    BY <1>6 DEF HandshakeFails
  <2> QED BY <1>0, <2>1, <2>2, CountKept
<1>7. ASSUME NEW c \in Conn, Dial(c) \/ Hangup(c) PROVE Counted'
  <2>1. UNCHANGED <<served, gave, cur, fate>> /\ (ph' = ph \/ ph # "wait")
    BY <1>7 DEF Dial, Hangup
  <2>2. up' = [up EXCEPT ![c] = << >>]
    BY <1>7 DEF Dial, Hangup
  <2>3. \A d \in Conn : d # c => up'[d] = up[d] /\ side'[d] = side[d]
    BY <1>0, <1>7 DEF Dial, Hangup, TypeOK
  <2>4. Len(up'[c]) = 0
    BY <1>0, <2>2, NothingThere DEF TypeOK
  <2> QED BY <1>0, <2>1, <2>3, <2>4, CountKept
<1>8. ASSUME NEW c \in Conn, Accept(c) \/ Reply(c) PROVE Counted'
  <2>1. UNCHANGED <<served, gave, cur, fate, ph, up>>
    BY <1>8 DEF Accept, Reply
  <2>2. \A d \in Conn : /\ side[d] \in {"busy", "said"} => side'[d] \in {"busy", "said"}
                        /\ side'[d] = "closed" \/ side[d] # "closed"
    BY <1>0, <1>8 DEF Accept, Reply, TypeOK
  <2> QED BY <1>0, <2>1, <2>2, CountKept
<1>9. ASSUME NEW h \in Host, HostCrash(h) PROVE Counted'
  <2>1. UNCHANGED <<served, gave, cur, fate, ph>>
    BY <1>9 DEF HostCrash
  <2>2. \A d \in Conn : side'[d] = "closed" \/ (up'[d] = up[d] /\ side'[d] = side[d])
    BY <1>9 DEF HostCrash
  <2> QED BY <1>0, <2>1, <2>2, CountKept
<1>10. CASE Restart
  <2>1. UNCHANGED <<served, gave, up, side>> /\ cur' = None
    BY <1>10 DEF Restart
  <2>2. \A r \in Req : fate'[r] = "new" => fate[r] = "new"
    BY <1>10 DEF Restart
  <2> QED BY <1>0, <2>1, <2>2, CountKept
<1> QED BY <1>0, <1>1, <1>2, <1>3, <1>5, <1>6, <1>7, <1>8, <1>9, <1>10,
        CountBegin, CountTimeout, CountWrite, CountTake, CountEnd DEF Next, Call, Task, Serve

LEMMA CountInit ==
  ASSUME Init
  PROVE  Counted
<1>1. ASSUME NEW r \in Req PROVE CountedAt(r)
  <2>1. Copies(r) = {}
    <3>1. \A c \in Conn : side[c] = "closed"
      BY DEF Init
    <3> QED BY <3>1 DEF Copies, Waits
  <2>2. Owed(r) = 0 /\ served[r] = 0 /\ gave[r] = 0
    BY NoneAssumption DEF Init, Owed
  <2> QED BY <2>1, <2>2, FS_EmptySet DEF CountedAt
<1>2. cur = None
  BY DEF Init
<1> QED BY <1>1, <1>2 DEF Counted

\* A request is carried out at most once more than it timed out, over lost connections, hosts
\* that die, restarts of the daemon, and however many tries are made: a try that could not
\* write, or a connection that was made again, never repeats it (host_client.rs:196).
THEOREM IsServedOnce == Spec => []ServedOnce
<1>1. Init => Inv /\ Counted
  BY InvInit, CountInit
<1>2. Inv /\ Counted /\ [Next]_vars => Inv' /\ Counted'
  BY StepTyped, StepPositions, StepMatched, CountStep DEF Inv
<1>3. Inv /\ Counted => ServedOnce
  <2>1. SUFFICES ASSUME Inv, Counted, NEW r \in Req PROVE served[r] <= 1 + gave[r]
    BY DEF ServedOnce
  <2>2. IsFiniteSet(Copies(r)) /\ served[r] + Cardinality(Copies(r)) + Owed(r) <= 1 + gave[r]
    BY <2>1 DEF Counted, CountedAt
  <2>3. Cardinality(Copies(r)) \in Nat /\ Owed(r) \in Nat /\ served[r] \in Nat /\ gave[r] \in Nat
    BY <2>1, <2>2, FS_CardinalityType DEF Owed, Inv, Typed, TypeOK
  <2> QED BY <2>2, <2>3
<1> QED BY <1>1, <1>2, <1>3, PTL DEF Spec
=============================================================================
