------------------------- MODULE TerminalApp_proofs -------------------------
(***************************************************************************)
(* Proofs about the sessions of the terminal page, for any sessions, any   *)
(* number of requests under way and any amount of output.                  *)
(***************************************************************************)
EXTENDS TerminalApp, SequenceTheorems, WellFoundedInduction, TLAPS

\* What a terminal shows: up to a chunk, or nothing that can be relied on.
Shown == 0..MaxOut \cup {Blank}
Frame == Answers \cup Event

-----------------------------------------------------------------------------
(* Data.                                                                   *)

LEMMA BoundFacts ==
  /\ MaxOut \in Nat /\ MaxActs \in Nat /\ Blank \notin 0..MaxOut /\ 0 \in 0..MaxOut /\ Blank = -1
BY BoundsAssumption DEF Blank

LEMMA WrittenType ==
  ASSUME NEW top \in Shown, NEW d \in Data
  PROVE  Written(top, d) \in Shown
BY BoundFacts DEF Shown, Data, Written

-----------------------------------------------------------------------------
(* Induction over the naturals, for a set of them.                         *)

LEMMA Least ==
  ASSUME NEW T, T \in SUBSET Nat, T # {}
  PROVE  \E x \in T : \A y \in T : x <= y
<1> DEFINE Below == {p \in Nat \X Nat : p[1] < p[2]}
<1>1. IsWellFoundedOn(Below, Nat)
  BY NatLessThanWellFounded, Zenon DEF OpToRel
<1>2. PICK x \in T : \A y \in T : ~(<<y, x>> \in Below)
  <2> HIDE DEF Below
  <2> QED BY <1>1, WFMin, Zenon
<1>3. ASSUME NEW y \in T PROVE x <= y
  <2>1. ~(<<y, x>> \in Below)
    BY <1>2
  <2>2. x \in Nat /\ y \in Nat
    OBVIOUS
  <2> QED BY <2>1, <2>2
<1> QED BY <1>3

LEMMA Induction ==
  ASSUME NEW T, 0 \in T, \A n \in Nat : n \in T => n + 1 \in T
  PROVE  Nat \subseteq T
<1> SUFFICES ASSUME NEW k \in Nat, k \notin T PROVE FALSE
  OBVIOUS
<1> DEFINE U == {n \in Nat : n \notin T}
<1>1. U \in SUBSET Nat /\ U # {}
  OBVIOUS
<1>2. PICK x \in U : \A y \in U : x <= y
  BY <1>1, Least
<1>3. x # 0 /\ x - 1 \in Nat /\ x - 1 \in T
  BY <1>2
<1>4. x \in T
  BY <1>3
<1> QED BY <1>4

-----------------------------------------------------------------------------
(* Replaying a buffer: piece by piece, from what is shown.                 *)

\* What is shown after each of the first n pieces.
Shows(g, n, top, s) ==
  g = [i \in 0..n |-> IF i = 0 THEN top ELSE Written(g[i - 1], s[i])]

LEMMA ShowsExist ==
  ASSUME NEW top, NEW s, NEW n \in Nat
  PROVE  \E g : Shows(g, n, top, s)
<1> DEFINE T == {k \in Nat : \E g : Shows(g, k, top, s)}
<1>1. 0 \in T
  <2> DEFINE g == [i \in 0..0 |-> top]
  <2>1. g = [i \in 0..0 |-> IF i = 0 THEN top ELSE Written(g[i - 1], s[i])]
    <3>1. \A i \in 0..0 : i = 0
      OBVIOUS
    <3> QED BY <3>1
  <2>2. Shows(g, 0, top, s)
    BY <2>1 DEF Shows
  <2> QED BY <2>2
<1>2. ASSUME NEW k \in Nat, k \in T PROVE k + 1 \in T
  <2>1. PICK g : Shows(g, k, top, s)
    BY <1>2
  <2> DEFINE h == [i \in 0..k + 1 |-> IF i = k + 1 THEN Written(g[k], s[k + 1]) ELSE g[i]]
  <2>2. ASSUME NEW i \in 0..k + 1
        PROVE  h[i] = IF i = 0 THEN top ELSE Written(h[i - 1], s[i])
    <3>1. CASE i = k + 1
      <4>1. h[i] = Written(g[k], s[k + 1]) /\ h[k] = g[k] /\ i - 1 = k /\ i # 0
        BY <3>1
      <4> QED BY <3>1, <4>1
    <3>2. CASE i # k + 1
      <4>1. i \in 0..k /\ h[i] = g[i]
        BY <3>2
      <4>2. g[i] = IF i = 0 THEN top ELSE Written(g[i - 1], s[i])
        BY <2>1, <4>1 DEF Shows
      <4>3. i # 0 => i - 1 \in 0..k + 1 /\ i - 1 # k + 1
        BY <4>1
      <4>4. i # 0 => h[i - 1] = g[i - 1]
        BY <4>3
      <4> QED BY <4>1, <4>2, <4>4
    <3> QED BY <3>1, <3>2
  <2>3. h = [i \in 0..k + 1 |-> h[i]]
    OBVIOUS
  <2> HIDE DEF h
  <2>4. Shows(h, k + 1, top, s)
    BY <2>2, <2>3 DEF Shows
  <2> QED BY <2>4
<1>3. Nat \subseteq T
  <2> HIDE DEF T
  <2> QED BY <1>1, <1>2, Induction
<1> QED BY <1>3

\* There is one such function, and the first pieces do not depend on the later ones.
LEMMA ShowsAgree ==
  ASSUME NEW top, NEW s, NEW z, NEW n \in Nat, NEW m \in Nat, n <= m,
         \A i \in 1..n : s[i] = z[i],
         NEW g, NEW h, Shows(g, n, top, s), Shows(h, m, top, z)
  PROVE  g[n] = h[n]
<1> DEFINE T == {k \in Nat : k <= n => g[k] = h[k]}
<1>1. 0 \in T
  <2>1. g[0] = top /\ h[0] = top
    <3>1. 0 \in 0..n /\ 0 \in 0..m
      OBVIOUS
    <3> QED BY <3>1 DEF Shows
  <2> QED BY <2>1
<1>2. ASSUME NEW k \in Nat, k \in T PROVE k + 1 \in T
  <2> SUFFICES ASSUME k + 1 <= n PROVE g[k + 1] = h[k + 1]
    OBVIOUS
  <2>1. g[k] = h[k] /\ k + 1 \in 0..n /\ k + 1 \in 0..m /\ k + 1 \in 1..n /\ k + 1 # 0 /\ (k + 1) - 1 = k
    BY <1>2
  <2>2. g[k + 1] = Written(g[k], s[k + 1])
    BY <2>1 DEF Shows
  <2>3. h[k + 1] = Written(h[k], z[k + 1])
    BY <2>1 DEF Shows
  <2> QED BY <2>1, <2>2, <2>3
<1>3. Nat \subseteq T
  <2> HIDE DEF T
  <2> QED BY <1>1, <1>2, Induction
<1> QED BY <1>3

LEMMA ReplayShows ==
  ASSUME NEW top, NEW s, Len(s) \in Nat
  PROVE  \E g : Shows(g, Len(s), top, s) /\ Replay(top, s) = g[Len(s)]
<1> DEFINE c == CHOOSE g : Shows(g, Len(s), top, s)
<1>1. Shows(c, Len(s), top, s)
  BY ShowsExist
<1>2. Replay(top, s) = c[Len(s)]
  BY DEF Replay, Shows
<1> QED BY <1>1, <1>2

LEMMA ReplayEmpty ==
  ASSUME NEW top
  PROVE  Replay(top, << >>) = top
<1>1. Len(<< >>) = 0
  OBVIOUS
<1>2. PICK g : Shows(g, 0, top, << >>) /\ Replay(top, << >>) = g[0]
  BY <1>1, ReplayShows
<1> QED BY <1>2 DEF Shows

\* One more piece is written over what the others leave.
LEMMA ReplayAppend ==
  ASSUME NEW top, NEW S, NEW s \in Seq(S), NEW d \in S
  PROVE  Replay(top, Append(s, d)) = Written(Replay(top, s), d)
<1> DEFINE n == Len(s)
           z == Append(s, d)
<1>1. n \in Nat /\ Len(z) = n + 1 /\ z[n + 1] = d /\ \A i \in 1..n : s[i] = z[i]
  BY AppendProperties, LenProperties
<1> HIDE DEF z
<1>2. PICK g : Shows(g, n, top, s) /\ Replay(top, s) = g[n]
  BY <1>1, ReplayShows
<1>3. PICK h : Shows(h, n + 1, top, z) /\ Replay(top, z) = h[n + 1]
  BY <1>1, ReplayShows
<1>4. g[n] = h[n]
  <2>1. n <= n + 1 /\ n + 1 \in Nat
    BY <1>1
  <2>2. Shows(g, n, top, s) /\ Shows(h, n + 1, top, z) /\ n \in Nat /\ \A i \in 1..n : s[i] = z[i]
    BY <1>1, <1>2, <1>3
  <2> HIDE DEF n
  <2> QED BY <2>1, <2>2, ShowsAgree
<1>5. h[n + 1] = Written(h[n], z[n + 1])
  <2>1. n + 1 \in 0..n + 1 /\ n + 1 # 0 /\ (n + 1) - 1 = n
    BY <1>1
  <2> QED BY <1>3, <2>1 DEF Shows
<1> QED BY <1>1, <1>2, <1>3, <1>4, <1>5 DEF z

LEMMA ReplayOne ==
  ASSUME NEW top, NEW d \in Data
  PROVE  Replay(top, <<d>>) = Written(top, d)
<1>1. << >> \in Seq(Data) /\ <<d>> = Append(<< >>, d)
  BY EmptySeq
<1>2. Replay(top, Append(<< >>, d)) = Written(Replay(top, << >>), d)
  BY ZenonT(30), <1>1, ReplayAppend
<1> QED BY <1>1, <1>2, ReplayEmpty

LEMMA ReplayType ==
  ASSUME NEW top \in Shown, NEW s \in Seq(Data)
  PROVE  Replay(top, s) \in Shown
<1>1. Len(s) \in Nat /\ \A i \in 1..Len(s) : s[i] \in Data
  BY LenProperties, ElementOfSeq
<1>2. PICK g : Shows(g, Len(s), top, s) /\ Replay(top, s) = g[Len(s)]
  BY <1>1, ReplayShows
<1> DEFINE T == {k \in Nat : k <= Len(s) => g[k] \in Shown}
<1>3. 0 \in T
  BY <1>1, <1>2 DEF Shows
<1>4. ASSUME NEW k \in Nat, k \in T PROVE k + 1 \in T
  <2> SUFFICES ASSUME k + 1 <= Len(s) PROVE g[k + 1] \in Shown
    OBVIOUS
  <2>1. g[k] \in Shown /\ k + 1 \in 0..Len(s) /\ k + 1 \in 1..Len(s) /\ k + 1 # 0 /\ (k + 1) - 1 = k
    BY <1>1, <1>4
  <2>2. g[k + 1] = Written(g[k], s[k + 1])
    BY <1>2, <2>1 DEF Shows
  <2> QED BY <1>1, <2>1, <2>2, WrittenType
<1>5. Nat \subseteq T
  <2> HIDE DEF T
  <2> QED BY <1>3, <1>4, Induction
<1> QED BY <1>1, <1>2, <1>5

-----------------------------------------------------------------------------
(* Types: what a handler does to its call, and what a daemon puts into     *)
(* flight, stays typed.                                                    *)

LEMMA IdleFacts ==
  Idle.k = "idle" /\ \A c \in Calls : c.k # "idle"
BY DEF Idle, Calls

LEMMA AskType ==
  ASSUME TypeOK, NEW r \in Id, NEW s \in Session \cup {None},
         NEW op \in {"list", "attach", "create", "kill"},
         NEW c \in Calls, Ask(r, op, s, c)
  PROVE  calls' \in [Id -> Calls \cup {Idle}] /\ req' \in Seq(Requests)
<1>1. [op |-> op, sid |-> s, id |-> r] \in Requests
  BY DEF Requests
<1>2. req' \in Seq(Requests)
  BY <1>1, AppendProperties DEF Ask, TypeOK
<1> QED BY <1>2 DEF Ask, TypeOK

LEMMA BeginType ==
  ASSUME TypeOK, NEW s \in Session \cup {None},
         NEW op \in {"list", "attach", "create", "kill"},
         NEW c \in Calls, Begin(op, s, c)
  PROVE  calls' \in [Id -> Calls \cup {Idle}] /\ req' \in Seq(Requests)
<1> DEFINE r == CHOOSE r \in Id : Unused(r)
<1>1. r \in Id /\ Ask(r, op, s, c)
  BY DEF Begin
<1> HIDE DEF r
<1> QED BY <1>1, AskType

LEMMA ReturnType ==
  ASSUME TypeOK, NEW r \in Id, Return(r)
  PROVE  calls' \in [Id -> Calls \cup {Idle}] /\ req' \in Seq(Requests)
BY DEF Return, TypeOK

LEMMA CallType ==
  /\ \A k \in {"boot", "bootAttach", "create", "createList", "attach", "kill", "refetch"} :
       \A s \in Session \cup {None}, rest \in SUBSET Session, all \in SUBSET Session :
         Call(k, s, rest, all) \in Calls
  /\ \A r \in Id, ok \in BOOLEAN, s \in Session \cup {None}, all \in SUBSET Session :
       Answer(r, ok, s, all) \in Answers
BY DEF Call, Calls, Answer, Answers

LEMMA ReplyType ==
  ASSUME TypeOK, NEW a \in Frame, Reply(a)
  PROVE  ans' \in Seq(Frame)
<1>1. Append(ans, a) \in Seq(Frame)
  BY AppendProperties DEF Frame, TypeOK
<1> QED BY <1>1 DEF Reply, Frame, TypeOK

LEMMA EventType ==
  ASSUME TypeOK, NEW e \in Event
  PROVE  Append(ev, e) \in Seq(Event)
BY AppendProperties DEF TypeOK

LEMMA HeadType ==
  /\ TypeOK /\ ans # << >> => Head(ans) \in Frame /\ Tail(ans) \in Seq(Frame)
  /\ TypeOK /\ ev # << >>  => Head(ev) \in Event /\ Tail(ev) \in Seq(Event)
  /\ TypeOK /\ req # << >> => Head(req) \in Requests /\ Tail(req) \in Seq(Requests)
BY HeadTailProperties DEF TypeOK, Frame

\* What the page has, given the types of its answers.
PageOK ==
  /\ calls \in [Id -> Calls \cup {Idle}] /\ req \in Seq(Requests)
  /\ list \subseteq Session /\ active \in Session \cup {None}
  /\ mounted \subseteq Session /\ ended \subseteq mounted
  /\ pend \in [Session -> Seq(Data)] /\ last \in [Session -> Shown]
  /\ screen \in [Session -> Shown] /\ whole \in [Session -> Shown]
  /\ booted \in BOOLEAN /\ wanted \in BOOLEAN /\ auto \in Nat /\ skipped \subseteq Session

LEMMA PageTyped ==
  ASSUME TypeOK
  PROVE  PageOK
BY DEF TypeOK, PageOK, Shown

LEMMA OnAnswerType ==
  ASSUME TypeOK, NEW m \in Answers, OnAnswer(m)
  PROVE  PageOK'
<1> DEFINE c == calls[m.id]
<1>1. /\ m.id \in Id /\ m.ok \in BOOLEAN /\ m.sid \in Session \cup {None} /\ m.all \in SUBSET Session
      /\ c \in Calls \cup {Idle}
  BY DEF Answers, TypeOK
<1>2. c \in Calls => c.sid \in Session \cup {None} /\ c.rest \in SUBSET Session /\ c.all \in SUBSET Session
  BY DEF Calls
<1>3. UNCHANGED <<mounted, pend, last, screen, whole>>
  BY DEF bootVars, OnAnswer
<1>4. None \in Session \cup {None} /\ {} \in SUBSET Session
  OBVIOUS
<1> SUFFICES /\ calls' \in [Id -> Calls \cup {Idle}] /\ req' \in Seq(Requests)
             /\ list' \subseteq Session /\ active' \in Session \cup {None} /\ ended' \subseteq mounted
             /\ booted' \in BOOLEAN /\ wanted' \in BOOLEAN /\ auto' \in Nat /\ skipped' \subseteq Session
  BY <1>3 DEF TypeOK, PageOK, Shown
<1>5. CASE c.k = "idle"
  BY <1>5 DEF bootVars, OnAnswer, TypeOK
<1>6. CASE c.k = "boot" /\ OnBootList(m)
  <2>1. list' = m.all /\ Keep /\ booted' = TRUE /\ wanted' \in BOOLEAN /\ auto' \in Nat
        /\ skipped' \subseteq Session
    <3>1. list' = m.all /\ Keep /\ booted' = TRUE /\ (auto' = auto + 1 \/ auto' = auto)
      BY <1>6 DEF OnBootList
    <3>2. wanted' \in BOOLEAN
      <4>1. wanted' = FALSE \/ wanted' = (wanted /\ booted)
        BY <1>6, Zenon DEF OnBootList
      <4> QED BY <4>1, Zenon
    <3>3. skipped' = skipped \/ skipped' = skipped \cup (attached \cap m.all)
      BY <1>6 DEF OnBootList
    <3> QED BY <3>1, <3>2, <3>3 DEF TypeOK
  <2>2. calls' \in [Id -> Calls \cup {Idle}] /\ req' \in Seq(Requests)
    <3>1. CASE Ask(m.id, "create", None, Call("create", None, {}, {}))
      BY <1>1, <1>4, <3>1, AskType, CallType
    <3>2. CASE Return(m.id)
      BY <1>1, <3>2, ReturnType
    <3>3. CASE AttachNext(m, m.all, m.all)
      <4>1. PICK s \in m.all : Ask(m.id, "attach", s, Call("bootAttach", s, m.all \ {s}, m.all))
        BY <3>3 DEF AttachNext
      <4> QED BY <1>1, <4>1, AskType, CallType
    <3> QED BY <1>6, <3>1, <3>2, <3>3 DEF OnBootList
  <2> QED BY <1>1, <2>1, <2>2 DEF Keep, TypeOK
<1>7. CASE c.k = "bootAttach" /\ OnBootAttach(c, m)
  <2>1. c \in Calls
    BY <1>1, <1>7, IdleFacts
  <2>2. UNCHANGED <<booted, wanted, auto, skipped>>
    BY <1>7 DEF bootVars, OnBootAttach
  <2>3. CASE c.rest # {}
    <3>1. UNCHANGED list /\ (Show(c.sid) \/ Keep) /\ AttachNext(m, c.rest, c.all)
      BY <1>7, <2>3 DEF bootVars, OnBootAttach
    <3>2. PICK s \in c.rest : Ask(m.id, "attach", s, Call("bootAttach", s, c.rest \ {s}, c.all))
      BY <3>1 DEF AttachNext
    <3>3. calls' \in [Id -> Calls \cup {Idle}] /\ req' \in Seq(Requests)
      BY <1>1, <1>2, <2>1, <3>2, AskType, CallType
    <3> QED BY <1>2, <2>1, <2>2, <3>1, <3>3 DEF Show, Keep, TypeOK
  <2>4. CASE c.rest = {} /\ m.ok
    <3>1. Return(m.id) /\ Show(c.sid) /\ UNCHANGED list
      BY <1>7, <2>4 DEF bootVars, OnBootAttach
    <3> QED BY <1>1, <1>2, <2>1, <2>2, <3>1, ReturnType DEF Show, TypeOK
  <2>5. CASE c.rest = {} /\ ~m.ok
    <3>1. Pick(m, c.all)
      BY <1>7, <2>5 DEF bootVars, OnBootAttach
    <3>2. Return(m.id) /\ UNCHANGED ended
      BY <3>1 DEF Pick
    <3>3. list' \subseteq Session /\ active' \in Session \cup {None}
      BY <1>2, <2>1, <3>1 DEF Pick, TypeOK
    <3> QED BY <1>1, <2>2, <3>2, <3>3, ReturnType DEF TypeOK
  <2> QED BY <2>3, <2>4, <2>5
<1>8. CASE c.k = "create" /\ OnCreated(m)
  <2>1. UNCHANGED <<list, booted, wanted, auto, skipped>> /\ Keep
    BY <1>8 DEF bootVars, OnCreated
  <2>2. calls' \in [Id -> Calls \cup {Idle}] /\ req' \in Seq(Requests)
    <3>1. CASE Ask(m.id, "list", None, Call("createList", m.sid, {}, {}))
      BY <1>1, <1>4, <3>1, AskType, CallType
    <3>2. CASE Return(m.id)
      BY <1>1, <3>2, ReturnType
    <3> QED BY <1>8, <3>1, <3>2 DEF bootVars, OnCreated
  <2> QED BY <2>1, <2>2 DEF Keep, TypeOK
<1>9. CASE c.k = "createList" /\ OnCreateList(c, m)
  <2>1. c \in Calls
    BY <1>1, <1>9, IdleFacts
  <2>2. calls' \in [Id -> Calls \cup {Idle}] /\ req' \in Seq(Requests)
    BY <1>1, <1>2, <1>4, <1>9, <2>1, AskType, CallType DEF bootVars, OnCreateList
  <2> QED BY <1>1, <1>9, <2>2 DEF bootVars, OnCreateList, Keep, TypeOK
<1>10. CASE c.k = "attach" /\ OnAttach(c, m)
  <2>1. c \in Calls
    BY <1>1, <1>10, IdleFacts
  <2>2. Return(m.id) /\ (Show(c.sid) \/ Keep) /\ UNCHANGED <<list, booted, wanted, auto, skipped>>
    BY <1>10 DEF bootVars, OnAttach
  <2> QED BY <1>1, <1>2, <2>1, <2>2, ReturnType DEF Show, Keep, TypeOK
<1>11. CASE c.k = "kill" /\ OnKilled(m)
  <2>1. calls' \in [Id -> Calls \cup {Idle}] /\ req' \in Seq(Requests)
    BY <1>1, <1>4, <1>11, AskType, CallType DEF bootVars, OnKilled
  <2> QED BY <1>11, <2>1 DEF bootVars, OnKilled, Keep, TypeOK
<1>12. CASE c.k = "refetch" /\ OnList(m)
  BY <1>1, <1>12, ReturnType DEF bootVars, OnList, Keep, TypeOK
<1>13. c.k \in {"idle", "boot", "bootAttach", "create", "createList", "attach", "kill", "refetch"}
  BY <1>1 DEF Calls, Idle
<1> HIDE DEF c
<1> QED
  <2>1. CASE calls[m.id].k = "idle"  BY <1>5, <2>1 DEF c
  <2>2. CASE calls[m.id].k = "boot"  BY <1>6, <2>2 DEF c, OnAnswer
  <2>3. CASE calls[m.id].k = "bootAttach"  BY <1>7, <2>3 DEF c, OnAnswer
  <2>4. CASE calls[m.id].k = "create"  BY <1>8, <2>4 DEF c, OnAnswer
  <2>5. CASE calls[m.id].k = "createList"  BY <1>9, <2>5 DEF c, OnAnswer
  <2>6. CASE calls[m.id].k = "attach"  BY <1>10, <2>6 DEF c, OnAnswer
  <2>7. CASE calls[m.id].k = "kill"  BY <1>11, <2>7 DEF c, OnAnswer
  <2>8. CASE calls[m.id].k = "refetch"  BY <1>12, <2>8 DEF c, OnAnswer
  <2> QED BY <1>13, <2>1, <2>2, <2>3, <2>4, <2>5, <2>6, <2>7, <2>8 DEF c

LEMMA DataType ==
  ASSUME NEW m \in Event
  PROVE  /\ [snap |-> TRUE, n |-> m.n] \in Data /\ [snap |-> FALSE, n |-> m.n] \in Data
         /\ m.sid \in Session /\ m.n \in 0..MaxOut /\ m.n \in Shown /\ m.t \in {"snapshot", "output", "exited"}
BY BoundFacts DEF Event, Data, Shown

LEMMA OnSnapshotType ==
  ASSUME TypeOK, NEW m \in Event, OnSnapshot(m)
  PROVE  PageOK'
<1> DEFINE d == [snap |-> TRUE, n |-> m.n]
<1>1. d \in Data /\ m.sid \in Session /\ m.n \in Shown /\ PageOK
  BY DataType, PageTyped
<1> HIDE DEF d
<1>2. /\ last' = [last EXCEPT ![m.sid] = m.n] /\ whole' = [whole EXCEPT ![m.sid] = Written(@, d)]
      /\ \/ screen' = [screen EXCEPT ![m.sid] = Written(@, d)] /\ UNCHANGED pend
         \/ pend' = [pend EXCEPT ![m.sid] = <<d>>] /\ UNCHANGED screen
      /\ UNCHANGED <<calls, req, list, active, mounted, ended, booted, wanted, auto, skipped>>
  BY DEF bootVars, OnSnapshot, d
<1>3. last' \in [Session -> Shown] /\ whole' \in [Session -> Shown] /\ screen' \in [Session -> Shown]
  <2>1. Written(whole[m.sid], d) \in Shown /\ Written(screen[m.sid], d) \in Shown
    BY <1>1, WrittenType DEF PageOK
  <2> QED BY <1>1, <1>2, <2>1 DEF PageOK
<1>4. pend' \in [Session -> Seq(Data)]
  <2>1. <<d>> \in Seq(Data)
    BY <1>1
  <2> QED BY <1>1, <1>2, <2>1 DEF PageOK
<1> QED BY <1>1, <1>2, <1>3, <1>4 DEF PageOK

LEMMA OnOutputType ==
  ASSUME TypeOK, NEW m \in Event, OnOutput(m)
  PROVE  PageOK'
<1> DEFINE d == [snap |-> FALSE, n |-> m.n]
<1>1. d \in Data /\ m.sid \in Session /\ m.n \in Shown /\ PageOK
  BY DataType, PageTyped
<1> HIDE DEF d
<1>2. /\ \/ UNCHANGED <<last, screen, pend, whole>>
         \/ /\ last' = [last EXCEPT ![m.sid] = m.n]
            /\ whole' = [whole EXCEPT ![m.sid] = Written(@, d)]
            /\ \/ screen' = [screen EXCEPT ![m.sid] = Written(@, d)] /\ UNCHANGED pend
               \/ pend' = [pend EXCEPT ![m.sid] = Append(@, d)] /\ UNCHANGED screen
      /\ UNCHANGED <<calls, req, list, active, mounted, ended, booted, wanted, auto, skipped>>
  BY DEF bootVars, OnOutput, d
<1>3. last' \in [Session -> Shown] /\ whole' \in [Session -> Shown] /\ screen' \in [Session -> Shown]
  <2>1. Written(whole[m.sid], d) \in Shown /\ Written(screen[m.sid], d) \in Shown
    BY <1>1, WrittenType DEF PageOK
  <2>2. last \in [Session -> Shown] /\ whole \in [Session -> Shown] /\ screen \in [Session -> Shown]
    BY <1>1 DEF PageOK
  <2>3. last' \in [Session -> Shown]
    BY <1>1, <1>2, <2>2
  <2>4. whole' \in [Session -> Shown]
    BY <1>1, <1>2, <2>1, <2>2
  <2>5. screen' \in [Session -> Shown]
    BY <1>1, <1>2, <2>1, <2>2
  <2> QED BY <2>3, <2>4, <2>5
<1>4. pend' \in [Session -> Seq(Data)]
  <2>1. Append(pend[m.sid], d) \in Seq(Data)
    BY <1>1, AppendProperties DEF PageOK
  <2> QED BY <1>1, <1>2, <2>1 DEF PageOK
<1> QED BY <1>1, <1>2, <1>3, <1>4 DEF PageOK

LEMMA OnExitedType ==
  ASSUME TypeOK, NEW m \in Event, OnExited(m)
  PROVE  PageOK'
<1>1. m.sid \in Session /\ PageOK
  BY DataType, PageTyped
<1>2. calls' \in [Id -> Calls \cup {Idle}] /\ req' \in Seq(Requests)
  BY BeginType, CallType DEF bootVars, OnExited
<1>3. /\ pend' = [pend EXCEPT ![m.sid] = << >>] /\ ended' = IF m.sid \in mounted THEN ended \cup {m.sid} ELSE ended
      /\ UNCHANGED <<last, screen, whole, list, active, mounted, booted, wanted, auto, skipped>>
  BY DEF bootVars, OnExited
<1>4. pend' \in [Session -> Seq(Data)]
  <2>1. << >> \in Seq(Data)
    BY EmptySeq
  <2> QED BY <1>1, <1>3, <2>1 DEF PageOK
<1> QED BY <1>1, <1>2, <1>3, <1>4 DEF PageOK

LEMMA ReceiveType ==
  ASSUME TypeOK, Receive
  PROVE  TypeOK'
<1> DEFINE m == Head(ans)
<1>1. m \in Frame /\ ans' \in Seq(Frame)
  BY HeadType DEF Receive
<1>2. UNCHANGED <<link, ev, live, made, out, attached, acts>>
  BY DEF Receive, hostVars
<1>3. /\ m.t = "answer"   => OnAnswer(m)
      /\ m.t = "snapshot" => OnSnapshot(m)
      /\ m.t = "output"   => OnOutput(m)
      /\ m.t = "exited"   => OnExited(m)
  BY DEF Receive
<1> HIDE DEF m
<1>4. PageOK'
  <2>1. CASE m \in Answers
    <3>1. m.t = "answer"
      BY <2>1 DEF Answers
    <3> QED BY <1>3, <2>1, <3>1, OnAnswerType
  <2>2. CASE m \in Event
    BY <1>3, <2>2, DataType, OnSnapshotType, OnOutputType, OnExitedType
  <2> QED BY <1>1, <2>1, <2>2 DEF Frame
<1> QED BY <1>1, <1>2, <1>4 DEF TypeOK, PageOK, Frame, Shown

LEMMA MountType ==
  ASSUME TypeOK, NEW S
  PROVE  MountShows(S) \in [Session -> Shown]
BY ReplayType DEF MountShows, TypeOK, Shown

LEMMA RenderType ==
  ASSUME TypeOK, Render
  PROVE  TypeOK'
<1>1. screen' \in [Session -> Shown]
  BY MountType DEF Render
<1>2. pend' \in [Session -> Seq(Data)]
  <2>1. << >> \in Seq(Data)
    BY EmptySeq
  <2> QED BY <2>1 DEF Render, TypeOK
<1>3. mounted' = mounted \cup Unrendered /\ Unrendered \subseteq Session
  BY DEF Render, Unrendered, TypeOK
<1>4. active' \in Session \cup {None}
  BY DEF Render, TypeOK
<1>5. UNCHANGED <<link, calls, list, ended, last, whole, booted, wanted, req, ans, ev, live, made, out, attached, acts, auto, skipped>>
  BY DEF Render, hostVars, boundVars
<1> QED BY <1>1, <1>2, <1>3, <1>4, <1>5 DEF TypeOK, Shown

\* Steps that leave what the page shows alone.
LEMMA QuietType ==
  ASSUME TypeOK, UNCHANGED pageVars,
         link' \in BOOLEAN, calls' \in [Id -> Calls \cup {Idle}], req' \in Seq(Requests),
         ans' \in Seq(Frame), ev' \in Seq(Event),
         live' \subseteq made', made' \subseteq Session, attached' \subseteq made',
         out' \in [Session -> 0..MaxOut], acts' \in 0..MaxActs, auto' = auto, skipped' \subseteq Session
  PROVE  TypeOK'
BY DEF TypeOK, pageVars, Frame

LEMMA ActType ==
  ASSUME TypeOK, Act \/ acts' = acts
  PROVE  acts' \in 0..MaxActs
BY BoundFacts DEF TypeOK, Act

LEMMA LinkTypes ==
  ASSUME TypeOK, LinkUp \/ LinkLost \/ ManualReconnect \/ ClickTab \/ ClickClose \/ ClickNew
  PROVE  TypeOK'
<1>1. ans \in Seq(Frame) /\ << >> \in Seq(Frame)
  BY EmptySeq DEF TypeOK, Frame
<1>2. Idle \in Calls \cup {Idle}
  OBVIOUS
<1>3. CASE LinkUp
  <2>1. calls' \in [Id -> Calls \cup {Idle}] /\ req' \in Seq(Requests)
    BY <1>3, BeginType, CallType DEF LinkUp
  <2>2. UNCHANGED <<pageVars, ans, ev, hostVars, boundVars>> /\ link' = TRUE
    BY <1>3 DEF LinkUp
  <2> QED BY <1>1, <2>1, <2>2, QuietType, ActType DEF TypeOK, hostVars, boundVars
<1>4. CASE LinkLost \/ ManualReconnect
  <2>1. calls' \in [Id -> Calls \cup {Idle}]
    BY <1>2, <1>4 DEF LinkLost, ManualReconnect, TypeOK
  <2>2. UNCHANGED <<pageVars, req, ev, hostVars, auto, skipped>> /\ link' = FALSE /\ ans' = << >> /\ Act
    BY <1>4 DEF LinkLost, ManualReconnect
  <2> QED BY <1>1, <2>1, <2>2, QuietType, ActType DEF TypeOK, hostVars
<1>5. ASSUME NEW op \in {"attach", "kill", "create"}, NEW s \in Session \cup {None}, Click(op, s, op)
      PROVE  TypeOK'
  <2>1. UNCHANGED <<link, pageVars, ans, ev, hostVars, auto, skipped>> /\ Act
    BY <1>5 DEF Click
  <2>2. calls' \in [Id -> Calls \cup {Idle}] /\ req' \in Seq(Requests)
    <3>1. Begin(op, s, Call(op, s, {}, {}))
      BY <1>5 DEF Click
    <3>2. Call(op, s, {}, {}) \in Calls
      BY CallType
    <3> QED BY <3>1, <3>2, BeginType
  <2> QED BY <1>1, <2>1, <2>2, QuietType, ActType DEF TypeOK, hostVars
<1>6. \A s \in list : s \in Session \cup {None}
  BY DEF TypeOK
<1> QED BY <1>3, <1>4, <1>5, <1>6 DEF ClickTab, ClickClose, ClickNew

LEMMA ExitOfType ==
  ASSUME TypeOK, NEW s \in Session
  PROVE  ExitOf(s) \in Seq(Event)
<1>1. [t |-> "exited", sid |-> s, n |-> 0] \in Event
  BY DEF Event
<1> QED BY <1>1, EventType DEF ExitOf, TypeOK

LEMMA ServeType ==
  ASSUME TypeOK, Serve
  PROVE  TypeOK'
<1> DEFINE m == Head(req)
<1>1. /\ m.id \in Id /\ m.sid \in Session \cup {None} /\ m.op \in {"list", "attach", "create", "kill"}
      /\ req' \in Seq(Requests)
  BY HeadType DEF Serve, Requests
<1>2. calls' \in [Id -> Calls \cup {Idle}]
  BY <1>1 DEF Serve, TypeOK
<1>3. /\ m.op = "list"   => ServeList(m)
      /\ m.op = "create" => ServeCreate(m)
      /\ m.op = "attach" => ServeAttach(m)
      /\ m.op = "kill"   => ServeKill(m)
      /\ UNCHANGED <<link, pageVars, acts, auto>> /\ (skipped' = skipped \/ skipped' = skipped \ {m.sid})
  BY DEF Serve
<1> HIDE DEF m
<1>4. /\ live \in SUBSET Session /\ None \in Session \cup {None} /\ {} \in SUBSET Session
      /\ live \subseteq made /\ made \subseteq Session /\ attached \subseteq made /\ ev \in Seq(Event)
      /\ out \in [Session -> 0..MaxOut]
  BY DEF TypeOK
<1>5. \A ok \in BOOLEAN, s \in Session \cup {None}, all \in SUBSET Session : Answer(m.id, ok, s, all) \in Frame
  BY <1>1, CallType DEF Frame
<1>6. /\ ans' \in Seq(Frame) /\ ev' \in Seq(Event)
      /\ live' \subseteq made' /\ made' \subseteq Session /\ attached' \subseteq made'
      /\ out' \in [Session -> 0..MaxOut]
  <2>1. CASE m.op = "list"
    BY <1>3, <1>4, <1>5, <2>1, ReplyType DEF ServeList, hostVars
  <2>2. CASE m.op = "create"
    BY <1>3, <1>4, <1>5, <2>2, ReplyType DEF ServeCreate, hostVars
  <2>3. CASE m.op = "attach"
    <3>1. CASE m.sid \in live
      <4>1. [t |-> "snapshot", sid |-> m.sid, n |-> out[m.sid]] \in Event
        BY <1>4, <3>1 DEF Event
      <4> QED BY <1>1, <1>3, <1>4, <1>5, <2>3, <3>1, <4>1, EventType, ReplyType DEF ServeAttach
    <3>2. CASE m.sid \notin live
      BY <1>1, <1>3, <1>4, <1>5, <2>3, <3>2, ReplyType DEF ServeAttach, hostVars
    <3> QED BY <3>1, <3>2
  <2>4. CASE m.op = "kill"
    <3>1. Reply(Answer(m.id, m.sid \in live, m.sid, {})) /\ Answer(m.id, m.sid \in live, m.sid, {}) \in Frame
      <4>1. (m.sid \in live) \in BOOLEAN
        OBVIOUS
      <4> QED BY <1>1, <1>3, <1>4, <1>5, <2>4, <4>1 DEF ServeKill
    <3>2. ev' \in Seq(Event)
      BY <1>3, <1>4, <2>4, ExitOfType DEF ServeKill
    <3> QED BY <1>3, <1>4, <2>4, <3>1, <3>2, ReplyType DEF ServeKill
  <2> QED BY <1>1, <2>1, <2>2, <2>3, <2>4
<1> QED BY <1>1, <1>2, <1>3, <1>6, QuietType, ActType DEF TypeOK

LEMMA HostTypes ==
  ASSUME TypeOK, Fanout \/ \E s \in Session : Output(s) \/ Exit(s)
  PROVE  TypeOK'
<1>1. ans \in Seq(Frame)
  BY DEF TypeOK, Frame
<1>2. CASE Fanout
  <2>1. Head(ev) \in Frame /\ ev' \in Seq(Event)
    BY <1>2, HeadType DEF Fanout, Frame
  <2>2. ans' \in Seq(Frame)
    BY <1>2, <2>1, ReplyType DEF Fanout
  <2> QED BY <1>2, <2>1, <2>2, QuietType, ActType DEF Fanout, TypeOK, hostVars, boundVars
<1>3. ASSUME NEW s \in Session, Output(s)
      PROVE  TypeOK'
  <2>1. out' \in [Session -> 0..MaxOut] /\ out'[s] \in 0..MaxOut
    BY <1>3, BoundFacts DEF Output, TypeOK
  <2>2. ev' \in Seq(Event)
    <3>1. [t |-> "output", sid |-> s, n |-> out'[s]] \in Event
      BY <2>1 DEF Event
    <3> QED BY <1>3, <3>1, EventType DEF Output, TypeOK
  <2> QED BY <1>1, <1>3, <2>1, <2>2, QuietType, ActType DEF Output, TypeOK
<1>4. ASSUME NEW s \in Session, Exit(s)
      PROVE  TypeOK'
  BY <1>1, <1>4, ExitOfType, QuietType, ActType DEF Exit, TypeOK
<1> QED BY <1>2, <1>3, <1>4

LEMMA InitType ==
  ASSUME Init
  PROVE  TypeOK
<1>1. /\ << >> \in Seq(Data) /\ << >> \in Seq(Requests) /\ << >> \in Seq(Answers \cup Event)
      /\ << >> \in Seq(Event)
  BY EmptySeq
<1>2. /\ acts \in 0..MaxActs /\ auto \in Nat /\ out \in [Session -> 0..MaxOut]
  BY BoundFacts DEF Init
<1>3. /\ screen \in [Session -> 0..MaxOut \cup {Blank}] /\ whole \in [Session -> 0..MaxOut \cup {Blank}]
      /\ last \in [Session -> 0..MaxOut \cup {Blank}]
  BY DEF Init
<1> QED BY <1>1, <1>2, <1>3 DEF Init, TypeOK

LEMMA NextType ==
  ASSUME TypeOK, [Next]_vars
  PROVE  TypeOK'
<1>1. CASE UNCHANGED vars
  BY <1>1 DEF TypeOK, vars, pageVars, hostVars, boundVars
<1>2. CASE Next
  BY <1>2, ReceiveType, RenderType, LinkTypes, ServeType, HostTypes DEF Next
<1> QED BY <1>1, <1>2

\* Every part of the page's and the host's state has its type (TerminalApp.tsx:76-110), and
\* only terminals that exist are marked as ended.
THEOREM TypeCorrect == Spec => []TypeOK
<1>1. Init => TypeOK
  BY InitType
<1>2. TypeOK /\ [Next]_vars => TypeOK'
  BY NextType
<1> QED BY <1>1, <1>2, PTL DEF Spec

-----------------------------------------------------------------------------
(* A page starts one session by itself.                                    *)

\* It does so in the bootstrap that is the first, and from then on booted says so.
OnceInv == auto <= 1 /\ (~booted => auto = 0)

LEMMA NextOnce ==
  ASSUME TypeOK, OnceInv, [Next]_vars
  PROVE  OnceInv'
<1>1. CASE UNCHANGED <<booted, auto>>
  BY <1>1 DEF OnceInv
<1>2. CASE Receive
  <2> DEFINE m == Head(ans)
  <2>1. m.t = "answer" \/ UNCHANGED <<booted, auto>>
    <3>1. m \in Frame
      BY <1>2, HeadType DEF Receive
    <3>2. m.t \in {"answer", "snapshot", "output", "exited"}
      BY <3>1 DEF Frame, Answers, Event
    <3> QED BY <1>2, <3>2 DEF Receive, OnSnapshot, OnOutput, OnExited, bootVars
  <2>2. CASE m.t = "answer"
    <3>1. OnAnswer(m)
      BY <1>2, <2>2 DEF Receive
    <3> HIDE DEF m
    <3>2. m \in Answers
      <4>1. m \in Frame
        BY <1>2, HeadType DEF Receive, m
      <4> QED BY <2>2, <4>1 DEF Frame, Event
    <3>3. \/ UNCHANGED <<booted, auto>>
          \/ OnBootList(m)
      <4>1. calls[m.id] \in Calls \cup {Idle}
        BY <3>2 DEF TypeOK, Answers
      <4>2. calls[m.id].k \in {"idle", "boot", "bootAttach", "create", "createList", "attach", "kill", "refetch"}
        BY <4>1 DEF Calls, Idle
      <4> QED BY <3>1, <4>2
          DEF bootVars, OnAnswer, OnBootAttach, OnCreated, OnCreateList, OnAttach, OnKilled, OnList
    <3>4. CASE OnBootList(m)
      <4>1. booted' = TRUE /\ (auto' = auto \/ (~booted /\ auto' = auto + 1))
        BY <3>4 DEF OnBootList
      <4> QED BY <4>1 DEF OnceInv, TypeOK
    <3> QED BY <1>1, <3>3, <3>4
  <2> QED BY <1>1, <2>1, <2>2
<1>3. CASE ~Receive
  BY <1>1, <1>3 DEF Next, vars, Render, LinkUp, LinkLost, ManualReconnect, ClickTab, ClickClose, ClickNew,
       Click, Serve, Fanout, Output, Exit, pageVars, boundVars
<1> QED BY <1>2, <1>3

\* However often the connection breaks, however the frames and renders fall and whatever the
\* user clicks, at most one session is created that no click asked for
\* (TerminalApp.tsx:207, 214-225).
THEOREM StartsOnlyOnce == Spec => []StartsOnce
<1>1. Init => TypeOK /\ OnceInv
  <2> SUFFICES ASSUME Init PROVE TypeOK /\ OnceInv
    OBVIOUS
  <2>1. auto = 0
    BY DEF Init
  <2> QED BY <2>1, InitType DEF OnceInv
<1>2. TypeOK /\ OnceInv /\ [Next]_vars => TypeOK' /\ OnceInv'
  BY NextType, NextOnce
<1>3. OnceInv => StartsOnce
  BY DEF OnceInv, StartsOnce
<1> QED BY <1>1, <1>2, <1>3, PTL DEF Spec

-----------------------------------------------------------------------------
(* What a terminal shows, and what waits for one, follow the data.         *)

Of(m, s) == m.t # "answer" /\ m.sid = s

\* The exit of a session is the last that is heard of it.
ExitsLast ==
  /\ \A i, j \in 1..Len(ans) : i < j /\ ans[i].t = "exited" => ~Of(ans[j], ans[i].sid)
  /\ \A i \in 1..Len(ans), j \in 1..Len(ev) : ans[i].t = "exited" => ev[j].sid # ans[i].sid
  /\ \A i, j \in 1..Len(ev) : i < j /\ ev[i].t = "exited" => ev[j].sid # ev[i].sid
  /\ \A i \in 1..Len(ans) : ans[i].t = "exited" => ans[i].sid \in made \ live
  /\ \A i \in 1..Len(ev) : ev[i].t = "exited" => ev[i].sid \in made \ live
  /\ attached \subseteq live

\* Nothing more will be heard of a session.
Over(s) ==
  /\ s \in made \ live
  /\ \A i \in 1..Len(ans) : ~Of(ans[i], s)
  /\ \A i \in 1..Len(ev) : ev[i].sid # s

Followed(s) ==
  IF s \in mounted THEN screen[s] = whole[s] \/ (screen[s] = Blank /\ s \in made \ live)
  ELSE screen[s] = Blank /\ (Replay(Blank, pend[s]) = whole[s] \/ (pend[s] = << >> /\ Over(s)))

FollowInv == ExitsLast /\ \A s \in Session : Followed(s)

LEMMA TailFacts ==
  ASSUME NEW S, NEW q \in Seq(S), q # << >>
  PROVE  /\ Len(Tail(q)) = Len(q) - 1 /\ Len(q) \in Nat /\ Head(q) = q[1] /\ 1 \in 1..Len(q)
         /\ \A i \in 1..Len(Tail(q)) : Tail(q)[i] = q[i + 1] /\ i + 1 \in 1..Len(q)
<1>1. /\ Len(Tail(q)) = Len(q) - 1 /\ Len(q) \in Nat /\ Len(q) # 0
      /\ \A i \in 1..Len(Tail(q)) : Tail(q)[i] = q[i + 1]
  BY HeadTailProperties, LenProperties, EmptySeq
<1>2. Head(q) = q[1]
  BY HeadTailProperties
<1> QED BY <1>1, <1>2

LEMMA AppendFacts ==
  ASSUME NEW S, NEW q \in Seq(S), NEW a \in S
  PROVE  /\ Len(Append(q, a)) = Len(q) + 1 /\ Len(q) \in Nat
         /\ Append(q, a)[Len(q) + 1] = a /\ \A i \in 1..Len(q) : Append(q, a)[i] = q[i]
         /\ \A i \in 1..Len(Append(q, a)) : \/ i \in 1..Len(q) /\ Append(q, a)[i] = q[i]
                                            \/ i = Len(q) + 1 /\ Append(q, a)[i] = a
<1>1. /\ Len(Append(q, a)) = Len(q) + 1 /\ Len(q) \in Nat
      /\ Append(q, a)[Len(q) + 1] = a /\ \A i \in 1..Len(q) : Append(q, a)[i] = q[i]
  BY AppendProperties, LenProperties
<1>2. \A i \in 1..Len(Append(q, a)) : i \in 1..Len(q) \/ i = Len(q) + 1
  BY <1>1
<1> QED BY <1>1, <1>2

LEMMA FlowReceive ==
  ASSUME TypeOK, ExitsLast, ans # << >>, ans' = Tail(ans), UNCHANGED <<ev, live, made, attached>>
  PROVE  /\ ExitsLast'
         /\ \A s \in Session : Head(ans).t = "exited" /\ Head(ans).sid = s => Over(s)'
<1>1. /\ Len(ans') = Len(ans) - 1 /\ Len(ans) \in Nat /\ Head(ans) = ans[1] /\ 1 \in 1..Len(ans)
      /\ \A i \in 1..Len(ans') : ans'[i] = ans[i + 1] /\ i + 1 \in 1..Len(ans)
  BY TailFacts DEF TypeOK
<1>2. \A i, j \in 1..Len(ans') : i < j => i + 1 < j + 1
  BY <1>1
<1>3. ExitsLast'
  BY <1>1, <1>2 DEF ExitsLast, Of
<1>4. ASSUME NEW s \in Session, Head(ans).t = "exited" /\ Head(ans).sid = s
      PROVE  Over(s)'
  <2>1. \A i \in 1..Len(ans') : 1 < i + 1
    BY <1>1
  <2> QED BY <1>1, <1>4, <2>1 DEF ExitsLast, Over, Of
<1> QED BY <1>3, <1>4

LEMMA OverReceive ==
  ASSUME TypeOK, ans # << >>, ans' = Tail(ans), UNCHANGED <<ev, live, made>>,
         NEW s \in Session, Over(s)
  PROVE  Over(s)' /\ ~Of(Head(ans), s)
<1>1. /\ Len(ans') = Len(ans) - 1 /\ Len(ans) \in Nat /\ Head(ans) = ans[1] /\ 1 \in 1..Len(ans)
      /\ \A i \in 1..Len(ans') : ans'[i] = ans[i + 1] /\ i + 1 \in 1..Len(ans)
  BY TailFacts DEF TypeOK
<1> QED BY <1>1 DEF Over, Of

\* What the daemon and the host do: an answer to the page, an event of a session that runs.
FlowHost ==
  /\ ans' = ans \/ \E a \in Answers : ans' = Append(ans, a)
  /\ made \subseteq made' /\ live' \cap made \subseteq live /\ attached' \subseteq live'
  /\ \/ ev' = ev
     \/ \E e \in Event : /\ ev' = Append(ev, e) /\ e.sid \in live
                         /\ e.t = "exited" => e.sid \in made' \ live'

LEMMA FlowServed ==
  ASSUME TypeOK, ExitsLast, FlowHost
  PROVE  ExitsLast' /\ \A s \in Session : Over(s) => Over(s)'
<1>1. \A i \in 1..Len(ans') :
        \/ i \in 1..Len(ans) /\ ans'[i] = ans[i]
        \/ i \notin 1..Len(ans) /\ ans'[i].t = "answer"
  <2>1. CASE ans' = ans
    BY <2>1
  <2>2. ASSUME NEW a \in Answers, ans' = Append(ans, a)
        PROVE  \A i \in 1..Len(ans') : \/ i \in 1..Len(ans) /\ ans'[i] = ans[i]
                                       \/ i \notin 1..Len(ans) /\ ans'[i].t = "answer"
    <3>1. a.t = "answer"
      BY DEF Answers
    <3>2. ans \in Seq(Answers \cup Event) /\ a \in Answers \cup Event
      BY DEF TypeOK
    <3>3. /\ Len(ans') = Len(ans) + 1 /\ Len(ans) \in Nat
          /\ \A i \in 1..Len(ans') : \/ i \in 1..Len(ans) /\ ans'[i] = ans[i]
                                     \/ i = Len(ans) + 1 /\ ans'[i] = a
      BY <2>2, <3>2, AppendFacts
    <3> QED BY <3>1, <3>3
  <2> QED BY <2>1, <2>2 DEF FlowHost
<1>2. live \subseteq made /\ made \subseteq made' /\ live' \cap made \subseteq live /\ attached' \subseteq live'
  BY DEF TypeOK, FlowHost
<1>3. \A s \in made \ live : s \in made' \ live'
  BY <1>2
<1>4. \A i \in 1..Len(ev') :
        \/ i \in 1..Len(ev) /\ ev'[i] = ev[i]
        \/ /\ \A j \in 1..Len(ev') : ~(i < j)
           /\ ev'[i].sid \in live /\ ev'[i].t # "answer" /\ (ev'[i].t = "exited" => ev'[i].sid \in made' \ live')
  <2>1. CASE ev' = ev
    BY <2>1
  <2>2. ASSUME NEW e \in Event, ev' = Append(ev, e), e.sid \in live, e.t = "exited" => e.sid \in made' \ live'
        PROVE  \A i \in 1..Len(ev') :
                 \/ i \in 1..Len(ev) /\ ev'[i] = ev[i]
                 \/ /\ \A j \in 1..Len(ev') : ~(i < j)
                    /\ ev'[i].sid \in live /\ ev'[i].t # "answer" /\ (ev'[i].t = "exited" => ev'[i].sid \in made' \ live')
    <3>1. /\ Len(ev') = Len(ev) + 1 /\ Len(ev) \in Nat
          /\ \A i \in 1..Len(ev') : \/ i \in 1..Len(ev) /\ ev'[i] = ev[i]
                                    \/ i = Len(ev) + 1 /\ ev'[i] = e
      BY <2>2, AppendFacts DEF TypeOK
    <3>2. e.t # "answer"
      BY DEF Event
    <3> QED BY <2>2, <3>1, <3>2
  <2> QED BY <2>1, <2>2 DEF FlowHost
<1>5. /\ \A i \in 1..Len(ans) : ans[i].t = "exited" => ans[i].sid \notin live
      /\ \A i \in 1..Len(ev) : ev[i].t = "exited" => ev[i].sid \notin live
  BY DEF ExitsLast
<1>6. ExitsLast'
  <2>1. \A i, j \in 1..Len(ans') : i < j /\ ans'[i].t = "exited" => ~Of(ans'[j], ans'[i].sid)
    BY <1>1 DEF ExitsLast, Of
  <2>2. \A i \in 1..Len(ans'), j \in 1..Len(ev') : ans'[i].t = "exited" => ev'[j].sid # ans'[i].sid
    BY <1>1, <1>4, <1>5 DEF ExitsLast
  <2>3. \A i, j \in 1..Len(ev') : i < j /\ ev'[i].t = "exited" => ev'[j].sid # ev'[i].sid
    BY <1>4, <1>5 DEF ExitsLast
  <2>4. \A i \in 1..Len(ans') : ans'[i].t = "exited" => ans'[i].sid \in made' \ live'
    BY <1>1, <1>3 DEF ExitsLast
  <2>5. \A i \in 1..Len(ev') : ev'[i].t = "exited" => ev'[i].sid \in made' \ live'
    BY <1>3, <1>4 DEF ExitsLast
  <2> QED BY <1>2, <2>1, <2>2, <2>3, <2>4, <2>5 DEF ExitsLast, Of
<1>7. ASSUME NEW s \in Session, Over(s)
      PROVE  Over(s)'
  BY <1>1, <1>3, <1>4, <1>7 DEF Over, Of
<1> QED BY <1>6, <1>7

LEMMA FlowFanout ==
  ASSUME TypeOK, ExitsLast, Fanout
  PROVE  ExitsLast' /\ \A s \in Session : Over(s) => Over(s)'
<1>1. UNCHANGED <<live, made, attached>> /\ ev # << >> /\ ev' = Tail(ev)
  BY DEF Fanout, hostVars
<1>2. /\ Len(ev') = Len(ev) - 1 /\ Len(ev) \in Nat /\ Head(ev) = ev[1] /\ 1 \in 1..Len(ev)
      /\ \A i \in 1..Len(ev') : ev'[i] = ev[i + 1] /\ i + 1 \in 1..Len(ev) /\ 1 < i + 1
  <2>1. ev \in Seq(Event)
    BY DEF TypeOK
  <2> QED BY <1>1, <2>1, TailFacts
<1>3. /\ \A i \in 1..Len(ans') : \/ i \in 1..Len(ans) /\ ans'[i] = ans[i]
                                 \/ /\ \A j \in 1..Len(ans') : ~(i < j)
                                    /\ ans'[i] = ev[1]
  <2>1. CASE ans' = ans
    BY <2>1
  <2>2. CASE ans' = Append(ans, ev[1])
    <3>1. ans \in Seq(Answers \cup Event) /\ ev[1] \in Answers \cup Event
      BY <1>2, ElementOfSeq DEF TypeOK
    <3>2. /\ Len(ans') = Len(ans) + 1 /\ Len(ans) \in Nat
          /\ \A i \in 1..Len(ans') : \/ i \in 1..Len(ans) /\ ans'[i] = ans[i]
                                     \/ i = Len(ans) + 1 /\ ans'[i] = ev[1]
      BY <2>2, <3>1, AppendFacts
    <3> QED BY <3>2
  <2> QED BY <1>2, <2>1, <2>2 DEF Fanout, Reply
<1>4. \A i, j \in 1..Len(ev') : i < j => i + 1 < j + 1
  BY <1>2
<1>5. ExitsLast'
  <2>1. \A i, j \in 1..Len(ans') : i < j /\ ans'[i].t = "exited" => ~Of(ans'[j], ans'[i].sid)
    BY <1>2, <1>3 DEF ExitsLast, Of
  <2>2. ASSUME NEW i \in 1..Len(ans'), NEW j \in 1..Len(ev'), ans'[i].t = "exited"
        PROVE  ev'[j].sid # ans'[i].sid
    <3>1. ev'[j] = ev[j + 1] /\ j + 1 \in 1..Len(ev) /\ 1 < j + 1 /\ 1 \in 1..Len(ev)
      BY <1>2
    <3>2. CASE i \in 1..Len(ans) /\ ans'[i] = ans[i]
      BY <2>2, <3>1, <3>2 DEF ExitsLast
    <3>3. CASE ans'[i] = ev[1]
      BY <2>2, <3>1, <3>3 DEF ExitsLast
    <3> QED BY <1>3, <3>2, <3>3
  <2>3. \A i, j \in 1..Len(ev') : i < j /\ ev'[i].t = "exited" => ev'[j].sid # ev'[i].sid
    BY SMTT(30), <1>2, <1>4 DEF ExitsLast
  <2>4. \A i \in 1..Len(ans') : ans'[i].t = "exited" => ans'[i].sid \in made' \ live'
    BY <1>1, <1>2, <1>3 DEF ExitsLast
  <2>5. \A i \in 1..Len(ev') : ev'[i].t = "exited" => ev'[i].sid \in made' \ live'
    BY <1>1, <1>2 DEF ExitsLast
  <2>6. attached' \subseteq live'
    BY <1>1 DEF ExitsLast
  <2> QED BY <2>1, <2>2, <2>3, <2>4, <2>5, <2>6 DEF ExitsLast, Of
<1>6. ASSUME NEW s \in Session, Over(s)
      PROVE  Over(s)'
  BY <1>1, <1>2, <1>3, <1>6 DEF Over, Of
<1> QED BY <1>5, <1>6

LEMMA FlowLost ==
  ASSUME ExitsLast, ans' = << >> \/ ans' = ans, UNCHANGED <<ev, live, made, attached>>
  PROVE  ExitsLast' /\ \A s \in Session : Over(s) => Over(s)'
<1>1. Len(<< >>) = 0
  OBVIOUS
<1>2. CASE ans' = << >>
  BY <1>1, <1>2 DEF ExitsLast, Over
<1>3. CASE ans' = ans
  BY <1>3 DEF ExitsLast, Over, Of
<1> QED BY <1>2, <1>3

-----------------------------------------------------------------------------
(* What the page shows.                                                    *)

\* A step that neither shows nor buffers anything.
LEMMA FollowIdle ==
  ASSUME FollowInv, ExitsLast', UNCHANGED <<mounted, pend, screen, whole>>,
         \A s \in made \ live : s \in made' \ live',
         NEW s \in Session, Over(s) => Over(s)'
  PROVE  Followed(s)'
<1>1. CASE s \in mounted
  BY <1>1 DEF FollowInv, Followed
<1>2. CASE s \notin mounted
  <2>1. screen[s] = Blank /\ (Replay(Blank, pend[s]) = whole[s] \/ (pend[s] = << >> /\ Over(s)))
    BY <1>2 DEF FollowInv, Followed
  <2>2. screen'[s] = Blank /\ (Replay(Blank, pend'[s]) = whole'[s] \/ (pend'[s] = << >> /\ Over(s)'))
    BY <2>1
  <2> QED BY <1>2, <2>2 DEF Followed
<1> QED BY <1>1, <1>2

LEMMA FollowSnapshot ==
  ASSUME TypeOK, FollowInv, NEW m \in Event, OnSnapshot(m), UNCHANGED <<live, made>>,
         NEW s \in Session, Over(s) => Over(s)'
  PROVE  Followed(s)'
<1> DEFINE d == [snap |-> TRUE, n |-> m.n]
<1>1. d \in Data /\ m.sid \in Session /\ m.n \in Shown /\ \A top : Written(top, d) = m.n
  BY DataType DEF Written
<1> HIDE DEF d
<1>2. /\ whole' = [whole EXCEPT ![m.sid] = Written(@, d)] /\ mounted' = mounted
      /\ IF m.sid \in mounted THEN screen' = [screen EXCEPT ![m.sid] = Written(@, d)] /\ UNCHANGED pend
         ELSE pend' = [pend EXCEPT ![m.sid] = <<d>>] /\ UNCHANGED screen
  BY DEF bootVars, OnSnapshot, d
<1>3. CASE s = m.sid
  <2>1. whole'[s] = m.n
    BY <1>1, <1>2, <1>3 DEF TypeOK
  <2>2. CASE s \in mounted
    <3>1. screen'[s] = m.n
      BY <1>1, <1>2, <1>3, <2>2 DEF TypeOK
    <3> QED BY <1>2, <2>1, <2>2, <3>1 DEF Followed
  <2>3. CASE s \notin mounted
    <3>1. pend'[s] = <<d>> /\ screen'[s] = Blank
      BY <1>2, <1>3, <2>3 DEF TypeOK, FollowInv, Followed
    <3>2. Replay(Blank, <<d>>) = m.n
      BY <1>1, ReplayOne
    <3>3. Replay(Blank, pend'[s]) = whole'[s]
      BY <2>1, <3>1, <3>2
    <3> QED BY <1>2, <2>3, <3>1, <3>3 DEF Followed
  <2> QED BY <2>2, <2>3
<1>4. CASE s # m.sid
  <2>1. whole'[s] = whole[s] /\ screen'[s] = screen[s] /\ pend'[s] = pend[s]
    BY <1>1, <1>2, <1>4 DEF TypeOK
  <2>2. Followed(s)
    BY DEF FollowInv
  <2>3. CASE s \in mounted
    BY <1>2, <2>1, <2>2, <2>3 DEF Followed
  <2>4. CASE s \notin mounted
    <3>1. screen[s] = Blank /\ (Replay(Blank, pend[s]) = whole[s] \/ (pend[s] = << >> /\ Over(s)))
      BY <2>2, <2>4 DEF Followed
    <3>2. screen'[s] = Blank /\ (Replay(Blank, pend'[s]) = whole'[s] \/ (pend'[s] = << >> /\ Over(s)'))
      BY <2>1, <3>1
    <3> QED BY <1>2, <2>4, <3>2 DEF Followed
  <2> QED BY <2>3, <2>4
<1> QED BY <1>3, <1>4

LEMMA FollowOutput ==
  ASSUME TypeOK, FollowInv, NEW m \in Event, OnOutput(m), m.t = "output", UNCHANGED <<live, made>>,
         NEW s \in Session, Over(s) => Over(s)' /\ ~Of(m, s)
  PROVE  Followed(s)'
<1> DEFINE d == [snap |-> FALSE, n |-> m.n]
<1>1. d \in Data /\ m.sid \in Session /\ m.n \in Shown /\ Written(Blank, d) = Blank
  BY DataType DEF Written
<1> HIDE DEF d
<1>2. mounted' = mounted
  BY DEF bootVars, OnOutput
<1>3. ASSUME whole'[s] = whole[s], screen'[s] = screen[s], pend'[s] = pend[s]
      PROVE  Followed(s)'
  <2>2. Followed(s)
    BY DEF FollowInv
  <2>3. CASE s \in mounted
    BY <1>2, <1>3, <2>2, <2>3 DEF Followed
  <2>4. CASE s \notin mounted
    <3>1. screen[s] = Blank /\ (Replay(Blank, pend[s]) = whole[s] \/ (pend[s] = << >> /\ Over(s)))
      BY <2>2, <2>4 DEF Followed
    <3>2. screen'[s] = Blank /\ (Replay(Blank, pend'[s]) = whole'[s] \/ (pend'[s] = << >> /\ Over(s)'))
      BY <1>3, <3>1
    <3> QED BY <1>2, <2>4, <3>2 DEF Followed
  <2> QED BY <2>3, <2>4
<1>4. CASE UNCHANGED <<last, screen, pend, whole>>
  BY <1>3, <1>4
<1>5. CASE /\ whole' = [whole EXCEPT ![m.sid] = Written(@, d)]
           /\ IF m.sid \in mounted
              THEN screen' = [screen EXCEPT ![m.sid] = Written(@, d)] /\ UNCHANGED pend
              ELSE pend' = [pend EXCEPT ![m.sid] = Append(@, d)] /\ UNCHANGED screen
  <2>1. CASE s = m.sid
    <3>1. whole'[s] = Written(whole[s], d)
      BY <1>1, <1>5, <2>1 DEF TypeOK
    <3>2. CASE s \in mounted
      <4>1. screen'[s] = Written(screen[s], d)
        BY <1>1, <1>5, <2>1, <3>2 DEF TypeOK
      <4>2. screen[s] = whole[s] \/ (screen[s] = Blank /\ s \in made \ live)
        BY <3>2 DEF FollowInv, Followed
      <4> QED BY <1>1, <1>2, <3>1, <3>2, <4>1, <4>2 DEF Followed
    <3>3. CASE s \notin mounted
      <4>1. pend'[s] = Append(pend[s], d) /\ screen'[s] = screen[s] /\ pend[s] \in Seq(Data)
        BY <1>5, <2>1, <3>3 DEF TypeOK
      <4>2. ~Over(s)
        BY <2>1 DEF Of
      <4>3. screen[s] = Blank /\ Replay(Blank, pend[s]) = whole[s]
        BY <3>3, <4>2 DEF FollowInv, Followed
      <4>4. Replay(Blank, Append(pend[s], d)) = Written(Replay(Blank, pend[s]), d)
        BY <1>1, <4>1, ReplayAppend
      <4>5. Replay(Blank, pend'[s]) = whole'[s] /\ screen'[s] = Blank
        BY <3>1, <4>1, <4>3, <4>4
      <4> QED BY <1>2, <3>3, <4>5 DEF Followed
    <3> QED BY <3>2, <3>3
  <2>2. CASE s # m.sid
    <3>1. whole'[s] = whole[s] /\ screen'[s] = screen[s] /\ pend'[s] = pend[s]
      BY <1>1, <1>5, <2>2 DEF TypeOK
    <3> QED BY <1>3, <3>1
  <2> QED BY <2>1, <2>2
<1> QED BY <1>4, <1>5 DEF bootVars, OnOutput, d

\* The buffer of a session that ended is dropped, and nothing comes after.
LEMMA FollowExited ==
  ASSUME TypeOK, FollowInv, NEW m \in Event, OnExited(m), UNCHANGED <<live, made>>,
         NEW s \in Session, Over(s) => Over(s)', m.sid = s => Over(s)'
  PROVE  Followed(s)'
<1>1. /\ pend' = [pend EXCEPT ![m.sid] = << >>] /\ UNCHANGED <<mounted, screen, whole>>
      /\ m.sid \in Session
  BY DataType DEF bootVars, OnExited
<1>2. CASE s \in mounted
  BY <1>1, <1>2 DEF FollowInv, Followed
<1>3. CASE s \notin mounted
  <2>1. screen[s] = Blank /\ (Replay(Blank, pend[s]) = whole[s] \/ (pend[s] = << >> /\ Over(s)))
    BY <1>3 DEF FollowInv, Followed
  <2>2. CASE s = m.sid
    <3>1. pend'[s] = << >> /\ Over(s)' /\ screen'[s] = Blank
      BY <1>1, <2>1, <2>2 DEF TypeOK
    <3> QED BY <1>1, <1>3, <3>1 DEF Followed
  <2>3. CASE s # m.sid
    <3>1. pend'[s] = pend[s] /\ screen'[s] = Blank /\ whole'[s] = whole[s]
      BY <1>1, <2>1, <2>3 DEF TypeOK
    <3>2. Replay(Blank, pend'[s]) = whole'[s] \/ (pend'[s] = << >> /\ Over(s)')
      BY <2>1, <3>1
    <3> QED BY <1>1, <1>3, <3>1, <3>2 DEF Followed
  <2> QED BY <2>2, <2>3
<1> QED BY <1>2, <1>3

\* A new terminal replays what waited for it.
LEMMA FollowRender ==
  ASSUME TypeOK, FollowInv, Render, NEW s \in Session, Over(s) => Over(s)'
  PROVE  Followed(s)'
<1>1. /\ mounted' = mounted \cup Unrendered /\ screen' = MountShows(Unrendered)
      /\ pend' = [t \in Session |-> IF t \in Unrendered THEN << >> ELSE pend[t]]
      /\ UNCHANGED <<whole, live, made>>
  BY DEF Render, hostVars
<1>2. screen'[s] = IF s \in Unrendered /\ pend[s] # << >> THEN Replay(screen[s], pend[s]) ELSE screen[s]
  BY <1>1 DEF MountShows
<1>3. CASE s \in Unrendered
  <2>1. s \notin mounted /\ s \in mounted'
    BY <1>1, <1>3 DEF Unrendered
  <2>2. screen[s] = Blank /\ (Replay(Blank, pend[s]) = whole[s] \/ (pend[s] = << >> /\ Over(s)))
    BY <2>1 DEF FollowInv, Followed
  <2>3. CASE pend[s] # << >>
    BY <1>1, <1>2, <1>3, <2>1, <2>2, <2>3 DEF Followed
  <2>4. CASE pend[s] = << >>
    <3>1. screen'[s] = Blank /\ Replay(Blank, pend[s]) = Blank
      BY <1>2, <2>2, <2>4, ReplayEmpty
    <3>2. whole[s] = Blank \/ s \in made \ live
      BY <2>2, <3>1 DEF Over
    <3> QED BY <1>1, <2>1, <3>1, <3>2 DEF Followed
  <2> QED BY <2>3, <2>4
<1>4. CASE s \notin Unrendered
  <2>1. screen'[s] = screen[s] /\ pend'[s] = pend[s] /\ (s \in mounted' <=> s \in mounted)
    BY <1>1, <1>2, <1>4
  <2>2. CASE s \in mounted
    BY <1>1, <2>1, <2>2 DEF FollowInv, Followed
  <2>3. CASE s \notin mounted
    <3>1. screen[s] = Blank /\ (Replay(Blank, pend[s]) = whole[s] \/ (pend[s] = << >> /\ Over(s)))
      BY <2>3 DEF FollowInv, Followed
    <3>2. screen'[s] = Blank /\ (Replay(Blank, pend'[s]) = whole'[s] \/ (pend'[s] = << >> /\ Over(s)'))
      BY <1>1, <2>1, <3>1
    <3> QED BY <2>1, <2>3, <3>2 DEF Followed
  <2> QED BY <2>2, <2>3
<1> QED BY <1>3, <1>4

LEMMA ReceiveFollow ==
  ASSUME TypeOK, FollowInv, Receive
  PROVE  FollowInv'
<1> DEFINE m == Head(ans)
<1>1. ans # << >> /\ ans' = Tail(ans) /\ UNCHANGED <<ev, live, made, attached>>
  BY DEF Receive, hostVars
<1>2. /\ ExitsLast'
      /\ \A s \in Session : m.t = "exited" /\ m.sid = s => Over(s)'
  <2>1. ExitsLast
    BY DEF FollowInv
  <2> QED BY <1>1, <2>1, FlowReceive
<1>3. \A s \in Session : Over(s) => Over(s)' /\ ~Of(m, s)
  BY <1>1, OverReceive
<1>4. m \in Frame /\ m.t \in {"answer", "snapshot", "output", "exited"}
  <2>1. m \in Frame
    BY <1>1, HeadType
  <2> QED BY <2>1 DEF Frame, Answers, Event
<1>5. /\ m.t = "answer"   => OnAnswer(m)
      /\ m.t = "snapshot" => OnSnapshot(m)
      /\ m.t = "output"   => OnOutput(m)
      /\ m.t = "exited"   => OnExited(m)
  BY DEF Receive
<1> HIDE DEF m
<1>6. ASSUME NEW s \in Session PROVE Followed(s)'
  <2>1. CASE m.t = "answer"
    <3>1. UNCHANGED <<mounted, pend, screen, whole>>
      BY <1>5, <2>1 DEF bootVars, OnAnswer
    <3> QED BY <1>1, <1>2, <1>3, <1>6, <3>1, FollowIdle
  <2>2. m.t # "answer" => m \in Event
    BY <1>4 DEF Frame, Answers
  <2>3. CASE m.t = "snapshot"
    BY <1>1, <1>3, <1>5, <1>6, <2>2, <2>3, FollowSnapshot
  <2>4. CASE m.t = "output"
    BY <1>1, <1>3, <1>5, <1>6, <2>2, <2>4, FollowOutput
  <2>5. CASE m.t = "exited"
    BY <1>1, <1>2, <1>3, <1>5, <1>6, <2>2, <2>5, FollowExited
  <2> QED BY <1>4, <2>1, <2>3, <2>4, <2>5
<1> QED BY <1>2, <1>6 DEF FollowInv

LEMMA HostFlows ==
  ASSUME TypeOK, ExitsLast, Serve \/ \E s \in Session : Output(s) \/ Exit(s)
  PROVE  FlowHost
<1>1. attached \subseteq live /\ live \subseteq made /\ made \subseteq Session
  BY DEF ExitsLast, TypeOK
<1>2. ASSUME NEW s \in Session, s \in attached
      PROVE  [t |-> "exited", sid |-> s, n |-> 0] \in Event
  BY DEF Event
<1>3. CASE Serve
  <2> DEFINE m == Head(req)
  <2>1. m.id \in Id /\ m.sid \in Session \cup {None} /\ m.op \in {"list", "attach", "create", "kill"}
    BY <1>3, HeadType DEF Serve, Requests
  <2>2. /\ m.op = "list"   => ServeList(m)
        /\ m.op = "create" => ServeCreate(m)
        /\ m.op = "attach" => ServeAttach(m)
        /\ m.op = "kill"   => ServeKill(m)
    BY <1>3 DEF Serve
  <2> HIDE DEF m
  <2>3. ASSUME NEW a \in Answers, Reply(a)
        PROVE  ans' = ans \/ \E b \in Answers : ans' = Append(ans, b)
    BY <2>3 DEF Reply
  <2>4. /\ None \in Session \cup {None} /\ {} \in SUBSET Session /\ live \in SUBSET Session
        /\ \A ok \in BOOLEAN, s \in Session \cup {None}, all \in SUBSET Session : Answer(m.id, ok, s, all) \in Answers
    BY <1>1, <2>1, CallType
  <2>5. CASE m.op = "list"
    BY <1>1, <2>2, <2>3, <2>4, <2>5 DEF ServeList, hostVars, FlowHost
  <2>6. CASE m.op = "create"
    <3>1. CASE Reply(Answer(m.id, FALSE, None, {})) /\ UNCHANGED <<ev, hostVars>>
      BY <1>1, <2>3, <2>4, <3>1 DEF hostVars, FlowHost
    <3>2. ASSUME NEW s \in Session \ made, live' = live \cup {s}, made' = made \cup {s},
                 Reply(Answer(m.id, TRUE, s, {})), UNCHANGED <<ev, out, attached>>
          PROVE  FlowHost
      BY <1>1, <2>3, <2>4, <3>2 DEF FlowHost
    <3> QED BY <2>2, <2>6, <3>1, <3>2 DEF ServeCreate
  <2>7. CASE m.op = "attach"
    <3>1. CASE m.sid \in live
      <4> DEFINE e == [t |-> "snapshot", sid |-> m.sid, n |-> out[m.sid]]
      <4>1. e \in Event /\ e.sid \in live /\ e.t # "exited"
        BY <1>1, <3>1 DEF Event, TypeOK
      <4>2. ev' = Append(ev, e) /\ attached' = attached \cup {m.sid} /\ UNCHANGED <<live, made>>
            /\ Reply(Answer(m.id, TRUE, m.sid, {}))
        BY <2>2, <2>7, <3>1 DEF ServeAttach
      <4> HIDE DEF e
      <4>3. ans' = ans \/ \E b \in Answers : ans' = Append(ans, b)
        BY <2>1, <2>3, <2>4, <4>2
      <4> QED BY <1>1, <3>1, <4>1, <4>2, <4>3 DEF FlowHost
    <3>2. CASE m.sid \notin live
      BY <1>1, <2>1, <2>2, <2>3, <2>4, <2>7, <3>2 DEF ServeAttach, hostVars, FlowHost
    <3> QED BY <3>1, <3>2
  <2>8. CASE m.op = "kill"
    <3>1. /\ made' = made /\ Reply(Answer(m.id, m.sid \in live, m.sid, {}))
          /\ live' = live \ {m.sid} /\ attached' = attached \ {m.sid}
          /\ ev' = IF m.sid \in live THEN ExitOf(m.sid) ELSE ev
      BY <2>2, <2>8 DEF ServeKill
    <3>2. ans' = ans \/ \E b \in Answers : ans' = Append(ans, b)
      <4>1. (m.sid \in live) \in BOOLEAN
        OBVIOUS
      <4> QED BY <2>1, <2>3, <2>4, <3>1, <4>1
    <3>3. ev' = ev \/ \E e \in Event : /\ ev' = Append(ev, e) /\ e.sid \in live
                                       /\ e.t = "exited" => e.sid \in made' \ live'
      <4>1. CASE m.sid \in attached
        <5> DEFINE e == [t |-> "exited", sid |-> m.sid, n |-> 0]
        <5>1. e \in Event /\ e.sid \in live /\ e.sid \in made' \ live'
          BY <1>1, <1>2, <3>1, <4>1
        <5>2. ev' = Append(ev, e)
          BY <1>1, <3>1, <4>1 DEF ExitOf
        <5> HIDE DEF e
        <5> QED BY <5>1, <5>2
      <4>2. CASE m.sid \notin attached
        BY <3>1, <4>2 DEF ExitOf
      <4> QED BY <4>1, <4>2
    <3> QED BY <1>1, <3>1, <3>2, <3>3 DEF FlowHost
  <2> QED BY <2>1, <2>5, <2>6, <2>7, <2>8
<1>4. ASSUME NEW s \in Session, Output(s)
      PROVE  FlowHost
  <2> DEFINE e == [t |-> "output", sid |-> s, n |-> out'[s]]
  <2>1. e.t # "exited" /\ e.sid = s
    OBVIOUS
  <2>2. e \in Event
    <3>1. out'[s] \in 0..MaxOut
      BY <1>4, BoundFacts DEF Output, TypeOK
    <3> QED BY <3>1 DEF Event
  <2>3. s \in live /\ UNCHANGED <<ans, live, made, attached>> /\ (ev' = Append(ev, e) \/ ev' = ev)
    BY <1>4 DEF Output
  <2> HIDE DEF e
  <2> QED BY <1>1, <2>1, <2>2, <2>3 DEF FlowHost
<1>5. ASSUME NEW s \in Session, Exit(s)
      PROVE  FlowHost
  <2> DEFINE e == [t |-> "exited", sid |-> s, n |-> 0]
  <2>1. s \in live /\ live' = live \ {s} /\ attached' = attached \ {s} /\ UNCHANGED <<ans, made>>
        /\ (ev' = ev \/ ev' = Append(ev, e))
    BY <1>5 DEF Exit, ExitOf
  <2>2. e \in Event /\ e.sid \in live /\ e.sid \in made' \ live'
    BY <1>1, <2>1 DEF Event
  <2> HIDE DEF e
  <2> QED BY <1>1, <2>1, <2>2 DEF FlowHost
<1> QED BY <1>3, <1>4, <1>5

LEMMA NextFollow ==
  ASSUME TypeOK, FollowInv, [Next]_vars
  PROVE  FollowInv'
<1>1. ExitsLast
  BY DEF FollowInv
<1>2. ASSUME ExitsLast', UNCHANGED <<mounted, pend, screen, whole>>,
             \A s \in made \ live : s \in made' \ live',
             \A s \in Session : Over(s) => Over(s)'
      PROVE  FollowInv'
  BY <1>2, FollowIdle DEF FollowInv
<1>3. CASE Receive
  BY <1>3, ReceiveFollow
<1>4. CASE Render
  <2>1. UNCHANGED <<ans, ev, live, made, attached>>
    BY <1>4 DEF Render, hostVars
  <2>2. ExitsLast' /\ \A s \in Session : Over(s) => Over(s)'
    BY <1>1, <2>1, FlowLost
  <2> QED BY <1>4, <2>2, FollowRender DEF FollowInv
<1>5. CASE Serve \/ \E s \in Session : Output(s) \/ Exit(s)
  <2>1. FlowHost
    BY <1>1, <1>5, HostFlows
  <2>2. ExitsLast' /\ \A s \in Session : Over(s) => Over(s)'
    BY <1>1, <2>1, FlowServed
  <2>3. UNCHANGED <<mounted, pend, screen, whole>>
    BY <1>5 DEF Serve, Output, Exit, pageVars
  <2>4. \A s \in made \ live : s \in made' \ live'
    BY <2>1 DEF FlowHost
  <2> QED BY <1>2, <2>2, <2>3, <2>4
<1>6. CASE Fanout
  <2>1. UNCHANGED <<mounted, pend, screen, whole, live, made>>
    BY <1>6 DEF Fanout, pageVars, hostVars
  <2> QED BY <1>1, <1>2, <1>6, <2>1, FlowFanout
<1>7. CASE LinkUp \/ LinkLost \/ ManualReconnect \/ ClickTab \/ ClickClose \/ ClickNew \/ UNCHANGED vars
  <2>1. /\ UNCHANGED <<mounted, pend, screen, whole, live, made, attached, ev>>
        /\ ans' = << >> \/ ans' = ans
    BY <1>7 DEF LinkUp, LinkLost, ManualReconnect, ClickTab, ClickClose, ClickNew, Click, pageVars, hostVars, vars
  <2> QED BY <1>1, <1>2, <2>1, FlowLost
<1> QED BY <1>3, <1>4, <1>5, <1>6, <1>7 DEF Next

LEMMA InitFollow ==
  ASSUME Init
  PROVE  FollowInv
<1>1. ans = << >> /\ ev = << >> /\ attached = {} /\ mounted = {} /\ Len(ans) = 0 /\ Len(ev) = 0
  BY DEF Init
<1>2. ASSUME NEW s \in Session PROVE Followed(s)
  <2>1. pend[s] = << >> /\ screen[s] = Blank /\ whole[s] = Blank
    BY DEF Init
  <2> QED BY <1>1, <2>1, ReplayEmpty DEF Followed
<1> QED BY <1>1, <1>2 DEF FollowInv, ExitsLast

\* However the answers, the events and the renders fall, a terminal shows what it would have
\* shown had it been there from the first frame, and what waits for one is that very screen;
\* only a session that has ended may show less (TerminalApp.tsx:92-94, 232-249, 431-436).
THEOREM ScreensDoFollow == Spec => []ScreenFollows
<1>1. Init => TypeOK /\ FollowInv
  BY InitType, InitFollow
<1>2. TypeOK /\ FollowInv /\ [Next]_vars => TypeOK' /\ FollowInv'
  BY NextType, NextFollow
<1>3. FollowInv => ScreenFollows
  BY DEF FollowInv, Followed, ScreenFollows, Over
<1> QED BY <1>1, <1>2, <1>3, PTL DEF Spec

-----------------------------------------------------------------------------
(* The events of a session that are on their way: they continue each       *)
(* other, from the daemon's queue into the page's.                         *)

\* The first event of a session in a queue, the last one, one and the next, none.
Earliest(q, j, s)   == Of(q[j], s) /\ \A k \in 1..Len(q) : k < j => ~Of(q[k], s)
Latest(q, i, s)     == Of(q[i], s) /\ \A k \in 1..Len(q) : i < k => ~Of(q[k], s)
Follows(q, i, j, s) == /\ i < j /\ Of(q[i], s) /\ Of(q[j], s)
                       /\ \A k \in 1..Len(q) : i < k /\ k < j => ~Of(q[k], s)
Silent(q, s)        == \A k \in 1..Len(q) : ~Of(q[k], s)

LEMMA QueueTail ==
  ASSUME NEW S, NEW q \in Seq(S), q # << >>, NEW s
  PROVE  /\ \A j \in 1..Len(Tail(q)) : Earliest(Tail(q), j, s) =>
              IF Of(q[1], s) THEN Follows(q, 1, j + 1, s) ELSE Earliest(q, j + 1, s)
         /\ \A i, j \in 1..Len(Tail(q)) : Follows(Tail(q), i, j, s) => Follows(q, i + 1, j + 1, s)
         /\ \A i \in 1..Len(Tail(q)) : Latest(Tail(q), i, s) => Latest(q, i + 1, s)
         /\ Silent(Tail(q), s) => IF Of(q[1], s) THEN Latest(q, 1, s) ELSE Silent(q, s)
         /\ Of(q[1], s) => Earliest(q, 1, s)
<1> DEFINE z == Tail(q)
<1>1. /\ Len(z) = Len(q) - 1 /\ Len(q) \in Nat /\ Head(q) = q[1] /\ 1 \in 1..Len(q)
      /\ \A i \in 1..Len(z) : z[i] = q[i + 1] /\ i + 1 \in 1..Len(q)
  BY TailFacts
<1> HIDE DEF z
<1>2. \A k \in 1..Len(q) : k = 1 \/ (k - 1 \in 1..Len(z) /\ z[k - 1] = q[k])
  <2> SUFFICES ASSUME NEW k \in 1..Len(q), k # 1 PROVE k - 1 \in 1..Len(z) /\ z[k - 1] = q[k]
    OBVIOUS
  <2>1. k - 1 \in 1..Len(z) /\ (k - 1) + 1 = k
    BY <1>1
  <2> QED BY <1>1, <2>1
<1>3. ASSUME NEW j \in 1..Len(z), Earliest(z, j, s)
      PROVE  IF Of(q[1], s) THEN Follows(q, 1, j + 1, s) ELSE Earliest(q, j + 1, s)
  <2>1. Of(q[j + 1], s) /\ 1 < j + 1
    BY <1>1, <1>3 DEF Earliest
  <2>2. ASSUME NEW k \in 1..Len(q), k < j + 1, k # 1 PROVE ~Of(q[k], s)
    <3>1. k - 1 \in 1..Len(z) /\ z[k - 1] = q[k] /\ k - 1 < j
      BY <1>1, <1>2, <2>2
    <3> QED BY <1>3, <3>1 DEF Earliest
  <2>3. CASE Of(q[1], s)
    BY <2>1, <2>2, <2>3 DEF Follows
  <2>4. CASE ~Of(q[1], s)
    BY <2>1, <2>2, <2>4 DEF Earliest
  <2> QED BY <2>3, <2>4
<1>4. ASSUME NEW i \in 1..Len(z), NEW j \in 1..Len(z), Follows(z, i, j, s)
      PROVE  Follows(q, i + 1, j + 1, s)
  <2>1. i + 1 < j + 1 /\ Of(q[i + 1], s) /\ Of(q[j + 1], s)
    BY <1>1, <1>4 DEF Follows
  <2>2. ASSUME NEW k \in 1..Len(q), i + 1 < k, k < j + 1 PROVE ~Of(q[k], s)
    <3>1. k - 1 \in 1..Len(z) /\ z[k - 1] = q[k] /\ i < k - 1 /\ k - 1 < j
      BY <1>1, <1>2, <2>2
    <3> QED BY <1>4, <3>1 DEF Follows
  <2> QED BY <2>1, <2>2 DEF Follows
<1>5. ASSUME NEW i \in 1..Len(z), Latest(z, i, s)
      PROVE  Latest(q, i + 1, s)
  <2>1. ASSUME NEW k \in 1..Len(q), i + 1 < k PROVE ~Of(q[k], s)
    <3>1. k - 1 \in 1..Len(z) /\ z[k - 1] = q[k] /\ i < k - 1
      BY <1>1, <1>2, <2>1
    <3> QED BY <1>5, <3>1 DEF Latest
  <2> QED BY <1>1, <1>5, <2>1 DEF Latest
<1>6. ASSUME Silent(z, s)
      PROVE  IF Of(q[1], s) THEN Latest(q, 1, s) ELSE Silent(q, s)
  <2>1. \A k \in 1..Len(q) : k # 1 => ~Of(q[k], s)
    BY <1>2, <1>6 DEF Silent
  <2>2. \A k \in 1..Len(q) : 1 < k => k # 1
    BY <1>1
  <2> QED BY <2>1, <2>2 DEF Silent, Latest
<1>7. Of(q[1], s) => Earliest(q, 1, s)
  BY <1>1 DEF Earliest
<1> QED BY <1>3, <1>4, <1>5, <1>6, <1>7 DEF z

LEMMA QueueAppend ==
  ASSUME NEW S, NEW q \in Seq(S), NEW e \in S, NEW s
  PROVE  /\ \A j \in 1..Len(Append(q, e)) : Earliest(Append(q, e), j, s) =>
              \/ j \in 1..Len(q) /\ Earliest(q, j, s)
              \/ j = Len(q) + 1 /\ Of(e, s) /\ Silent(q, s)
         /\ \A i, j \in 1..Len(Append(q, e)) : Follows(Append(q, e), i, j, s) =>
              \/ i \in 1..Len(q) /\ j \in 1..Len(q) /\ Follows(q, i, j, s)
              \/ i \in 1..Len(q) /\ j = Len(q) + 1 /\ Of(e, s) /\ Latest(q, i, s)
         /\ \A i \in 1..Len(Append(q, e)) : Latest(Append(q, e), i, s) =>
              IF Of(e, s) THEN i = Len(q) + 1 ELSE i \in 1..Len(q) /\ Latest(q, i, s)
         /\ Silent(Append(q, e), s) <=> Silent(q, s) /\ ~Of(e, s)
<1> DEFINE z == Append(q, e)
           n == Len(q) + 1
<1>1. /\ Len(z) = n /\ Len(q) \in Nat /\ z[n] = e /\ \A i \in 1..Len(q) : z[i] = q[i]
      /\ \A i \in 1..Len(z) : \/ i \in 1..Len(q) /\ z[i] = q[i]
                              \/ i = n /\ z[i] = e
  BY AppendFacts
<1>2. n \in 1..Len(z) /\ \A i \in 1..Len(q) : i \in 1..Len(z) /\ i < n
  BY <1>1
<1> HIDE DEF z, n
<1>3. ASSUME NEW j \in 1..Len(z), Earliest(z, j, s)
      PROVE  \/ j \in 1..Len(q) /\ Earliest(q, j, s)
             \/ j = n /\ Of(e, s) /\ Silent(q, s)
  <2>1. CASE j \in 1..Len(q)
    BY <1>1, <1>2, <1>3, <2>1 DEF Earliest
  <2>2. CASE j = n
    BY <1>1, <1>2, <1>3, <2>2 DEF Earliest, Silent
  <2> QED BY <1>1, <2>1, <2>2
<1>4. ASSUME NEW i \in 1..Len(z), NEW j \in 1..Len(z), Follows(z, i, j, s)
      PROVE  \/ i \in 1..Len(q) /\ j \in 1..Len(q) /\ Follows(q, i, j, s)
             \/ i \in 1..Len(q) /\ j = n /\ Of(e, s) /\ Latest(q, i, s)
  <2>1. i \in 1..Len(q) /\ i < j
    BY <1>1, <1>4 DEF Follows, n
  <2>2. CASE j \in 1..Len(q)
    BY <1>1, <1>2, <1>4, <2>1, <2>2 DEF Follows
  <2>3. CASE j = n
    BY <1>1, <1>2, <1>4, <2>1, <2>3 DEF Follows, Latest
  <2> QED BY <1>1, <2>2, <2>3
<1>5. ASSUME NEW i \in 1..Len(z), Latest(z, i, s)
      PROVE  IF Of(e, s) THEN i = n ELSE i \in 1..Len(q) /\ Latest(q, i, s)
  <2>1. CASE i = n
    BY <1>1, <1>5, <2>1 DEF Latest
  <2>2. CASE i \in 1..Len(q)
    BY <1>1, <1>2, <1>5, <2>2 DEF Latest
  <2> QED BY <1>1, <2>1, <2>2
<1>6. Silent(z, s) <=> Silent(q, s) /\ ~Of(e, s)
  BY <1>1, <1>2 DEF Silent
<1> QED BY <1>3, <1>4, <1>5, <1>6 DEF z, n

\* A chunk comes right after the one before it; a snapshot may come after anything.
Fits(n, e) == e.t = "output" => e.n = n + 1

\* The page's queue A and the daemon's E, for a session that has written o chunks and is
\* attached (on) or not: each event fits the one before, and the last one is up to date.
Stream(A, E, o, on, s) ==
  /\ \A i, j \in 1..Len(A) : Follows(A, i, j, s) => Fits(A[i].n, A[j])
  /\ \A i, j \in 1..Len(E) : Follows(E, i, j, s) => Fits(E[i].n, E[j])
  /\ \A i \in 1..Len(A), j \in 1..Len(E) : Latest(A, i, s) /\ Earliest(E, j, s) => Fits(A[i].n, E[j])
  /\ on => /\ \A j \in 1..Len(E) : Latest(E, j, s) => E[j].n = o
           /\ \A i \in 1..Len(A) : Latest(A, i, s) /\ Silent(E, s) => A[i].n = o

\* What is on its way brings the session up to date, from what the page has shown (w) and
\* last seen (l) of it: there is a snapshot, or the first event fits.
Snapped(q, s) == \E i \in 1..Len(q) : Of(q[i], s) /\ q[i].t = "snapshot"
InStep(A, E, w, l, o, s) ==
  /\ w = l /\ w # Blank
  /\ \A i \in 1..Len(A) : Earliest(A, i, s) => Fits(w, A[i])
  /\ \A i \in 1..Len(E) : Silent(A, s) /\ Earliest(E, i, s) => Fits(w, E[i])
  /\ Silent(A, s) /\ Silent(E, s) => w = o
Current(A, E, w, l, o, s) == Snapped(A, s) \/ Snapped(E, s) \/ InStep(A, E, w, l, o, s)

LEMMA StreamTail ==
  ASSUME NEW A \in Seq(Frame), A # << >>, NEW E, NEW o, NEW on, NEW s, Stream(A, E, o, on, s)
  PROVE  Stream(Tail(A), E, o, on, s)
<1> DEFINE z == Tail(A)
<1>1. \A i \in 1..Len(z) : z[i] = A[i + 1] /\ i + 1 \in 1..Len(A)
  BY TailFacts
<1>2. /\ \A i, j \in 1..Len(z) : Follows(z, i, j, s) => Follows(A, i + 1, j + 1, s)
      /\ \A i \in 1..Len(z) : Latest(z, i, s) => Latest(A, i + 1, s)
  BY QueueTail
<1> HIDE DEF z
<1>3. Stream(z, E, o, on, s)
  BY <1>1, <1>2 DEF Stream
<1> QED BY <1>3 DEF z

\* An answer between the events changes nothing.
LEMMA StreamAnswer ==
  ASSUME NEW A \in Seq(Frame), NEW a \in Answers, NEW E, NEW o, NEW on, NEW s
  PROVE  /\ Stream(A, E, o, on, s) => Stream(Append(A, a), E, o, on, s)
         /\ \A w, l : Current(A, E, w, l, o, s) => Current(Append(A, a), E, w, l, o, s)
<1> DEFINE z == Append(A, a)
<1>1. a \in Frame /\ ~Of(a, s)
  BY DEF Frame, Answers, Of
<1>2. /\ \A i \in 1..Len(A) : z[i] = A[i] /\ i \in 1..Len(z)
      /\ \A i, j \in 1..Len(z) : Follows(z, i, j, s) => i \in 1..Len(A) /\ j \in 1..Len(A) /\ Follows(A, i, j, s)
      /\ \A i \in 1..Len(z) : Latest(z, i, s) => i \in 1..Len(A) /\ Latest(A, i, s)
      /\ \A i \in 1..Len(z) : Earliest(z, i, s) => i \in 1..Len(A) /\ Earliest(A, i, s)
      /\ Silent(z, s) <=> Silent(A, s)
  <2>1. \A i \in 1..Len(A) : z[i] = A[i] /\ i \in 1..Len(z)
    BY <1>1, AppendFacts
  <2> HIDE DEF z
  <2> QED BY <1>1, <2>1, QueueAppend DEF z
<1> HIDE DEF z
<1>3. Stream(A, E, o, on, s) => Stream(z, E, o, on, s)
  BY <1>2 DEF Stream
<1>4. \A w, l : Current(A, E, w, l, o, s) => Current(z, E, w, l, o, s)
  BY <1>2 DEF Current, Snapped, InStep
<1> QED BY <1>3, <1>4 DEF z

\* The next event passes from the daemon to the page.
LEMMA StreamMove ==
  ASSUME NEW A \in Seq(Frame), NEW E \in Seq(Event), E # << >>, NEW o, NEW on, NEW s,
         Stream(A, E, o, on, s)
  PROVE  /\ Stream(Append(A, Head(E)), Tail(E), o, on, s)
         /\ \A w, l : Current(A, E, w, l, o, s) => Current(Append(A, Head(E)), Tail(E), w, l, o, s)
<1> DEFINE e == E[1]
           z == Append(A, e)
           y == Tail(E)
           n == Len(A) + 1
<1>1. /\ Len(y) = Len(E) - 1 /\ Len(E) \in Nat /\ Head(E) = e /\ 1 \in 1..Len(E)
      /\ \A i \in 1..Len(y) : y[i] = E[i + 1] /\ i + 1 \in 1..Len(E)
  BY TailFacts
<1>2. e \in Frame
  BY <1>1, ElementOfSeq DEF Frame
<1>3. /\ \A j \in 1..Len(y) : Earliest(y, j, s) => IF Of(e, s) THEN Follows(E, 1, j + 1, s) ELSE Earliest(E, j + 1, s)
      /\ \A i, j \in 1..Len(y) : Follows(y, i, j, s) => Follows(E, i + 1, j + 1, s)
      /\ \A i \in 1..Len(y) : Latest(y, i, s) => Latest(E, i + 1, s)
      /\ Silent(y, s) => IF Of(e, s) THEN Latest(E, 1, s) ELSE Silent(E, s)
      /\ Of(e, s) => Earliest(E, 1, s)
  BY QueueTail
<1>4. /\ Len(z) = n /\ Len(A) \in Nat /\ z[n] = e /\ \A i \in 1..Len(A) : z[i] = A[i]
      /\ \A i \in 1..Len(z) : \/ i \in 1..Len(A) /\ z[i] = A[i]
                              \/ i = n /\ z[i] = e
  BY <1>2, AppendFacts
<1> HIDE DEF e, n
<1>5. /\ \A j \in 1..Len(z) : Earliest(z, j, s) =>
           \/ j \in 1..Len(A) /\ Earliest(A, j, s)
           \/ j = n /\ Of(e, s) /\ Silent(A, s)
      /\ \A i, j \in 1..Len(z) : Follows(z, i, j, s) =>
           \/ i \in 1..Len(A) /\ j \in 1..Len(A) /\ Follows(A, i, j, s)
           \/ i \in 1..Len(A) /\ j = n /\ Of(e, s) /\ Latest(A, i, s)
      /\ \A i \in 1..Len(z) : Latest(z, i, s) => IF Of(e, s) THEN i = n ELSE i \in 1..Len(A) /\ Latest(A, i, s)
      /\ Silent(z, s) <=> Silent(A, s) /\ ~Of(e, s)
  BY <1>2, QueueAppend DEF n
<1> HIDE DEF z, y
<1>6. Stream(z, y, o, on, s)
  <2>1. \A i, j \in 1..Len(z) : Follows(z, i, j, s) => Fits(z[i].n, z[j])
    BY <1>1, <1>3, <1>4, <1>5 DEF Stream, e
  <2>2. \A i, j \in 1..Len(y) : Follows(y, i, j, s) => Fits(y[i].n, y[j])
    BY <1>1, <1>3 DEF Stream
  <2>3. ASSUME NEW i \in 1..Len(z), NEW j \in 1..Len(y), Latest(z, i, s), Earliest(y, j, s)
        PROVE  Fits(z[i].n, y[j])
    <3>1. CASE Of(e, s)
      <4>1. z[i] = E[1] /\ Follows(E, 1, j + 1, s) /\ y[j] = E[j + 1] /\ j + 1 \in 1..Len(E)
        BY <1>1, <1>3, <1>4, <1>5, <2>3, <3>1 DEF e
      <4> QED BY <1>1, <4>1 DEF Stream
    <3>2. CASE ~Of(e, s)
      <4>1. i \in 1..Len(A) /\ z[i] = A[i] /\ Latest(A, i, s) /\ Earliest(E, j + 1, s) /\ y[j] = E[j + 1]
            /\ j + 1 \in 1..Len(E)
        BY <1>1, <1>3, <1>4, <1>5, <2>3, <3>2
      <4> QED BY <4>1 DEF Stream
    <3> QED BY <3>1, <3>2
  <2>4. ASSUME on, NEW j \in 1..Len(y), Latest(y, j, s)
        PROVE  y[j].n = o
    BY <1>1, <1>3, <2>4 DEF Stream
  <2>5. ASSUME on, NEW i \in 1..Len(z), Latest(z, i, s), Silent(y, s)
        PROVE  z[i].n = o
    <3>1. CASE Of(e, s)
      <4>1. z[i] = E[1] /\ Latest(E, 1, s)
        BY <1>3, <1>4, <1>5, <2>5, <3>1 DEF e
      <4> QED BY <1>1, <2>5, <4>1 DEF Stream
    <3>2. CASE ~Of(e, s)
      BY <1>3, <1>4, <1>5, <2>5, <3>2 DEF Stream
    <3> QED BY <3>1, <3>2
  <2> QED BY <2>1, <2>2, <2>3, <2>4, <2>5 DEF Stream
<1>7. ASSUME NEW w, NEW l, Current(A, E, w, l, o, s)
      PROVE  Current(z, y, w, l, o, s)
  <2>1. CASE Snapped(A, s)
    <3>1. \A i \in 1..Len(A) : i \in 1..Len(z) /\ z[i] = A[i]
      BY <1>4 DEF n
    <3> QED BY <2>1, <3>1 DEF Snapped, Current
  <2>2. CASE Snapped(E, s)
    <3>1. PICK i \in 1..Len(E) : Of(E[i], s) /\ E[i].t = "snapshot"
      BY <2>2 DEF Snapped
    <3>2. CASE i = 1
      <4>1. n \in 1..Len(z) /\ z[n] = E[1]
        BY <1>4 DEF n, e
      <4> QED BY <3>1, <3>2, <4>1 DEF Snapped, Current
    <3>3. CASE i # 1
      <4>1. i - 1 \in 1..Len(y) /\ (i - 1) + 1 = i
        BY <1>1, <3>3
      <4>2. y[i - 1] = E[i]
        BY <1>1, <4>1
      <4> QED BY <3>1, <4>1, <4>2 DEF Snapped, Current
    <3> QED BY <3>2, <3>3
  <2>3. CASE InStep(A, E, w, l, o, s)
    <3>1. \A i \in 1..Len(z) : Earliest(z, i, s) => Fits(w, z[i])
      <4> SUFFICES ASSUME NEW i \in 1..Len(z), Earliest(z, i, s) PROVE Fits(w, z[i])
        OBVIOUS
      <4>1. CASE i \in 1..Len(A) /\ Earliest(A, i, s)
        BY <1>4, <2>3, <4>1 DEF InStep
      <4>2. CASE i = n /\ Of(e, s) /\ Silent(A, s)
        BY <1>1, <1>3, <1>4, <2>3, <4>2 DEF InStep, e
      <4> QED BY <1>5, <4>1, <4>2
    <3>2. \A i \in 1..Len(y) : Silent(z, s) /\ Earliest(y, i, s) => Fits(w, y[i])
      BY <1>1, <1>3, <1>5, <2>3 DEF InStep
    <3>3. Silent(z, s) /\ Silent(y, s) => w = o
      BY <1>3, <1>5, <2>3 DEF InStep
    <3>4. w = l /\ w # Blank
      BY <2>3 DEF InStep
    <3> QED BY <3>1, <3>2, <3>3, <3>4 DEF InStep, Current
  <2> QED BY <1>7, <2>1, <2>2, <2>3 DEF Current
<1> QED BY <1>1, <1>6, <1>7 DEF z, y, e

\* The host's next event, of this session or another.
LEMMA StreamEvent ==
  ASSUME NEW A, NEW E \in Seq(Event), NEW e \in Event, NEW o, NEW on, NEW p, NEW onto, NEW s,
         Stream(A, E, o, on, s),
         e.sid = s => (e.t = "output" => on /\ e.n = o + 1) /\ (onto => e.n = p),
         e.sid # s => (onto => on /\ p = o)
  PROVE  Stream(A, Append(E, e), p, onto, s)
<1> DEFINE z == Append(E, e)
           n == Len(E) + 1
<1>1. /\ Len(z) = n /\ Len(E) \in Nat /\ z[n] = e /\ \A i \in 1..Len(E) : z[i] = E[i]
      /\ \A i \in 1..Len(z) : \/ i \in 1..Len(E) /\ z[i] = E[i]
                              \/ i = n /\ z[i] = e
  BY AppendFacts
<1> HIDE DEF n
<1>2. /\ \A j \in 1..Len(z) : Earliest(z, j, s) =>
           \/ j \in 1..Len(E) /\ Earliest(E, j, s)
           \/ j = n /\ Of(e, s) /\ Silent(E, s)
      /\ \A i, j \in 1..Len(z) : Follows(z, i, j, s) =>
           \/ i \in 1..Len(E) /\ j \in 1..Len(E) /\ Follows(E, i, j, s)
           \/ i \in 1..Len(E) /\ j = n /\ Of(e, s) /\ Latest(E, i, s)
      /\ \A i \in 1..Len(z) : Latest(z, i, s) => IF Of(e, s) THEN i = n ELSE i \in 1..Len(E) /\ Latest(E, i, s)
      /\ Silent(z, s) <=> Silent(E, s) /\ ~Of(e, s)
  BY QueueAppend DEF n
<1>3. Of(e, s) <=> e.sid = s
  BY DEF Of, Event
<1> HIDE DEF z
<1>4. ASSUME NEW i \in 1..Len(z), NEW j \in 1..Len(z), Follows(z, i, j, s)
      PROVE  Fits(z[i].n, z[j])
  <2>1. CASE i \in 1..Len(E) /\ j \in 1..Len(E) /\ Follows(E, i, j, s)
    BY <1>1, <2>1 DEF Stream
  <2>2. CASE i \in 1..Len(E) /\ j = n /\ Of(e, s) /\ Latest(E, i, s)
    BY <1>1, <1>3, <2>2 DEF Stream, Fits
  <2> QED BY <1>2, <1>4, <2>1, <2>2
<1>5. ASSUME NEW i \in 1..Len(A), NEW j \in 1..Len(z), Latest(A, i, s), Earliest(z, j, s)
      PROVE  Fits(A[i].n, z[j])
  <2>1. CASE j \in 1..Len(E) /\ Earliest(E, j, s)
    BY <1>1, <1>5, <2>1 DEF Stream
  <2>2. CASE j = n /\ Of(e, s) /\ Silent(E, s)
    BY <1>1, <1>3, <1>5, <2>2 DEF Stream, Fits
  <2> QED BY <1>2, <1>5, <2>1, <2>2
<1>6. ASSUME onto, NEW j \in 1..Len(z), Latest(z, j, s)
      PROVE  z[j].n = p
  BY <1>1, <1>2, <1>3, <1>6 DEF Stream
<1>7. ASSUME onto, NEW i \in 1..Len(A), Latest(A, i, s), Silent(z, s)
      PROVE  A[i].n = p
  BY <1>2, <1>3, <1>7 DEF Stream
<1>8. \A i, j \in 1..Len(A) : Follows(A, i, j, s) => Fits(A[i].n, A[j])
  BY DEF Stream
<1>9. Stream(A, z, p, onto, s)
  BY <1>4, <1>5, <1>6, <1>7, <1>8 DEF Stream
<1> QED BY <1>9 DEF z

LEMMA StreamQuiet ==
  ASSUME NEW A, NEW E, NEW o, NEW on, NEW p, NEW onto, NEW s, Stream(A, E, o, on, s), onto => on /\ p = o
  PROVE  Stream(A, E, p, onto, s)
BY DEF Stream

\* The socket closes, and what the host says then goes nowhere.
LEMMA StreamLost ==
  ASSUME NEW A, NEW E \in Seq(Event), NEW o, NEW on, NEW s, Stream(A, E, o, on, s)
  PROVE  /\ Stream(<< >>, E, o, on, s)
         /\ A = << >> /\ E # << >> => Stream(<< >>, Tail(E), o, on, s)
<1>1. \A i \in 1..Len(<< >>) : FALSE
  OBVIOUS
<1>2. Stream(<< >>, E, o, on, s)
  BY <1>1 DEF Stream
<1>3. ASSUME E # << >> PROVE Stream(<< >>, Tail(E), o, on, s)
  <2> DEFINE y == Tail(E)
  <2>1. \A i \in 1..Len(y) : y[i] = E[i + 1] /\ i + 1 \in 1..Len(E)
    BY <1>3, TailFacts
  <2>2. /\ \A i, j \in 1..Len(y) : Follows(y, i, j, s) => Follows(E, i + 1, j + 1, s)
        /\ \A i \in 1..Len(y) : Latest(y, i, s) => Latest(E, i + 1, s)
    BY <1>3, QueueTail
  <2> HIDE DEF y
  <2>3. Stream(<< >>, y, o, on, s)
    BY <1>1, <2>1, <2>2 DEF Stream
  <2> QED BY <2>3 DEF y
<1> QED BY <1>2, <1>3

LEMMA CurrentEvent ==
  ASSUME NEW A, NEW E \in Seq(Event), NEW e \in Event, NEW w, NEW l, NEW o, NEW s
  PROVE  /\ e.sid = s /\ e.t = "snapshot" => \A p : Current(A, Append(E, e), w, l, p, s)
         /\ e.sid = s /\ e.t = "output" /\ e.n = o + 1 /\ Current(A, E, w, l, o, s)
              => \A p : Current(A, Append(E, e), w, l, p, s)
         /\ e.sid # s /\ Current(A, E, w, l, o, s) => Current(A, Append(E, e), w, l, o, s)
<1> DEFINE z == Append(E, e)
           n == Len(E) + 1
<1>1. /\ Len(z) = n /\ Len(E) \in Nat /\ z[n] = e /\ \A i \in 1..Len(E) : z[i] = E[i]
  BY AppendFacts
<1>2. n \in 1..Len(z) /\ \A i \in 1..Len(E) : i \in 1..Len(z)
  BY <1>1
<1> HIDE DEF n
<1>3. /\ \A j \in 1..Len(z) : Earliest(z, j, s) =>
           \/ j \in 1..Len(E) /\ Earliest(E, j, s)
           \/ j = n /\ Of(e, s) /\ Silent(E, s)
      /\ Silent(z, s) <=> Silent(E, s) /\ ~Of(e, s)
  BY QueueAppend DEF n
<1>4. Of(e, s) <=> e.sid = s
  BY DEF Of, Event
<1> HIDE DEF z
<1>5. ASSUME e.sid = s, e.t = "snapshot"
      PROVE  Snapped(z, s)
  BY <1>1, <1>2, <1>4, <1>5 DEF Snapped
<1>6. Snapped(E, s) => Snapped(z, s)
  BY <1>1, <1>2 DEF Snapped
<1>7. ASSUME e.sid = s, e.t = "output", e.n = o + 1, InStep(A, E, w, l, o, s), NEW p
      PROVE  InStep(A, z, w, l, p, s)
  <2>1. ASSUME NEW i \in 1..Len(z), Silent(A, s), Earliest(z, i, s)
        PROVE  Fits(w, z[i])
    <3>1. CASE i \in 1..Len(E) /\ Earliest(E, i, s)
      BY <1>1, <1>7, <2>1, <3>1 DEF InStep
    <3>2. CASE i = n /\ Of(e, s) /\ Silent(E, s)
      BY <1>1, <1>7, <2>1, <3>2 DEF InStep, Fits
    <3> QED BY <1>3, <2>1, <3>1, <3>2
  <2> QED BY <1>3, <1>4, <1>7, <2>1 DEF InStep
<1>8. ASSUME e.sid # s, InStep(A, E, w, l, o, s)
      PROVE  InStep(A, z, w, l, o, s)
  BY <1>1, <1>3, <1>4, <1>8 DEF InStep
<1>9. e.sid = s /\ e.t = "snapshot" => \A p : Current(A, z, w, l, p, s)
  BY <1>5 DEF Current
<1>10. e.sid = s /\ e.t = "output" /\ e.n = o + 1 /\ Current(A, E, w, l, o, s) => \A p : Current(A, z, w, l, p, s)
  BY <1>6, <1>7 DEF Current
<1>11. e.sid # s /\ Current(A, E, w, l, o, s) => Current(A, z, w, l, o, s)
  BY <1>6, <1>8 DEF Current
<1> QED BY <1>9, <1>10, <1>11 DEF z

\* What the page does with the next event leaves it in step.
LEMMA CurrentTail ==
  ASSUME NEW A \in Seq(Frame), A # << >>, NEW E, NEW w, NEW l, NEW o, NEW s,
         Stream(A, E, o, TRUE, s)
  PROVE  /\ ~Of(Head(A), s) /\ Current(A, E, w, l, o, s) => Current(Tail(A), E, w, l, o, s)
         /\ Of(Head(A), s) /\ Head(A).n # Blank => InStep(Tail(A), E, Head(A).n, Head(A).n, o, s)
         /\ Of(Head(A), s) /\ Head(A).t = "output" /\ Current(A, E, w, l, o, s) =>
              \/ Snapped(Tail(A), s) \/ Snapped(E, s)
              \/ w = l /\ w # Blank /\ Head(A).n = w + 1
<1> DEFINE m == A[1]
           z == Tail(A)
<1>1. /\ Len(z) = Len(A) - 1 /\ Len(A) \in Nat /\ Head(A) = m /\ 1 \in 1..Len(A)
      /\ \A i \in 1..Len(z) : z[i] = A[i + 1] /\ i + 1 \in 1..Len(A)
  BY TailFacts
<1>2. /\ \A j \in 1..Len(z) : Earliest(z, j, s) => IF Of(m, s) THEN Follows(A, 1, j + 1, s) ELSE Earliest(A, j + 1, s)
      /\ Silent(z, s) => IF Of(m, s) THEN Latest(A, 1, s) ELSE Silent(A, s)
      /\ Of(m, s) => Earliest(A, 1, s)
  BY QueueTail
<1> HIDE DEF z
<1>3. ASSUME Of(m, s), m.n # Blank
      PROVE  InStep(z, E, m.n, m.n, o, s)
  BY <1>1, <1>2, <1>3 DEF InStep, Stream
<1>4. ASSUME Snapped(A, s), ~(Of(m, s) /\ m.t = "snapshot")
      PROVE  Snapped(z, s)
  <2>1. PICK i \in 1..Len(A) : Of(A[i], s) /\ A[i].t = "snapshot"
    BY <1>4 DEF Snapped
  <2>2. i # 1
    BY <1>4, <2>1
  <2>3. i - 1 \in 1..Len(z) /\ (i - 1) + 1 = i
    BY <1>1, <2>2
  <2>4. z[i - 1] = A[i]
    BY <1>1, <2>3
  <2> QED BY <2>1, <2>3, <2>4 DEF Snapped
<1>5. ASSUME ~Of(m, s), InStep(A, E, w, l, o, s)
      PROVE  InStep(z, E, w, l, o, s)
  <2>1. Silent(z, s) => Silent(A, s)
    BY <1>2, <1>5
  <2>2. \A i \in 1..Len(z) : Earliest(z, i, s) => Fits(w, z[i])
    BY <1>1, <1>2, <1>5 DEF InStep
  <2> QED BY <1>5, <2>1, <2>2 DEF InStep
<1>6. ASSUME Of(m, s), m.t = "output", InStep(A, E, w, l, o, s)
      PROVE  w = l /\ w # Blank /\ m.n = w + 1
  BY <1>1, <1>2, <1>6 DEF InStep, Fits
<1>7. ~Of(m, s) /\ Current(A, E, w, l, o, s) => Current(z, E, w, l, o, s)
  BY <1>4, <1>5 DEF Current
<1>8. Of(m, s) /\ m.t = "output" /\ Current(A, E, w, l, o, s) =>
        Snapped(z, s) \/ Snapped(E, s) \/ (w = l /\ w # Blank /\ m.n = w + 1)
  BY <1>4, <1>6 DEF Current
<1> QED BY <1>1, <1>3, <1>7, <1>8 DEF z

-----------------------------------------------------------------------------
(* Requests under way: each has an id of its own.                          *)

\* R is the daemon's queue of requests, A the page's queue of frames.
IsAnswer(m) == m.t = "answer"
Free(R, A, r) ==
  /\ \A i \in 1..Len(R) : R[i].id # r
  /\ \A i \in 1..Len(A) : IsAnswer(A[i]) => A[i].id # r
OneId(R, A) ==
  /\ \A i, j \in 1..Len(R) : R[i].id = R[j].id => i = j
  /\ \A i, j \in 1..Len(A) : IsAnswer(A[i]) /\ IsAnswer(A[j]) /\ A[i].id = A[j].id => i = j
  /\ \A i \in 1..Len(R), j \in 1..Len(A) : IsAnswer(A[j]) => R[i].id # A[j].id

LEMMA IdAsked ==
  ASSUME NEW R \in Seq(Requests), NEW A, OneId(R, A), NEW x \in Requests, Free(R, A, x.id)
  PROVE  OneId(Append(R, x), A)
<1> DEFINE z == Append(R, x)
<1>1. /\ Len(R) \in Nat
      /\ \A i \in 1..Len(z) : \/ i \in 1..Len(R) /\ z[i] = R[i]
                              \/ i = Len(R) + 1 /\ z[i] = x
  BY AppendFacts
<1> HIDE DEF z
<1>2. ASSUME NEW i \in 1..Len(z), NEW j \in 1..Len(z), z[i].id = z[j].id
      PROVE  i = j
  <2>1. CASE i \in 1..Len(R) /\ j \in 1..Len(R) /\ z[i] = R[i] /\ z[j] = R[j]
    BY <1>2, <2>1 DEF OneId
  <2>2. CASE i \in 1..Len(R) /\ z[i] = R[i] /\ z[j] = x
    BY <1>2, <2>2 DEF Free
  <2>3. CASE j \in 1..Len(R) /\ z[j] = R[j] /\ z[i] = x
    BY <1>2, <2>3 DEF Free
  <2> QED BY <1>1, <2>1, <2>2, <2>3
<1>3. ASSUME NEW i \in 1..Len(z), NEW j \in 1..Len(A), IsAnswer(A[j])
      PROVE  z[i].id # A[j].id
  <2>1. CASE i \in 1..Len(R) /\ z[i] = R[i]
    BY <1>3, <2>1 DEF OneId
  <2>2. CASE z[i] = x
    BY <1>3, <2>2 DEF Free
  <2> QED BY <1>1, <2>1, <2>2
<1>4. \A i, j \in 1..Len(A) : IsAnswer(A[i]) /\ IsAnswer(A[j]) /\ A[i].id = A[j].id => i = j
  BY DEF OneId
<1>5. OneId(z, A)
  BY <1>2, <1>3, <1>4 DEF OneId
<1> QED BY <1>5 DEF z

LEMMA IdReceived ==
  ASSUME NEW R, NEW A \in Seq(Frame), A # << >>, OneId(R, A)
  PROVE  /\ OneId(R, Tail(A))
         /\ IsAnswer(Head(A)) => Free(R, Tail(A), Head(A).id)
         /\ \A r : Free(R, A, r) => Free(R, Tail(A), r)
<1> DEFINE z == Tail(A)
<1>1. /\ Len(z) = Len(A) - 1 /\ Len(A) \in Nat /\ Head(A) = A[1] /\ 1 \in 1..Len(A)
      /\ \A i \in 1..Len(z) : z[i] = A[i + 1] /\ i + 1 \in 1..Len(A)
  BY TailFacts
<1> HIDE DEF z
<1>2. \A i \in 1..Len(z) : i + 1 # 1 /\ \A j \in 1..Len(z) : i + 1 = j + 1 => i = j
  BY <1>1
<1>3. OneId(R, z)
  <2>1. ASSUME NEW i \in 1..Len(z), NEW j \in 1..Len(z), IsAnswer(z[i]), IsAnswer(z[j]), z[i].id = z[j].id
        PROVE  i = j
    <3>1. i + 1 = j + 1
      BY SMTT(30), <1>1, <2>1 DEF OneId
    <3> QED BY <1>2, <3>1
  <2>2. \A i \in 1..Len(R), j \in 1..Len(z) : IsAnswer(z[j]) => R[i].id # z[j].id
    BY <1>1 DEF OneId
  <2>3. \A i, j \in 1..Len(R) : R[i].id = R[j].id => i = j
    BY DEF OneId
  <2> QED BY <2>1, <2>2, <2>3 DEF OneId
<1>4. IsAnswer(A[1]) => Free(R, z, A[1].id)
  BY <1>1, <1>2 DEF OneId, Free
<1>5. \A r : Free(R, A, r) => Free(R, z, r)
  BY <1>1 DEF Free
<1> QED BY <1>1, <1>3, <1>4, <1>5 DEF z

LEMMA IdServed ==
  ASSUME NEW R \in Seq(Requests), R # << >>, NEW A \in Seq(Frame), OneId(R, A),
         NEW a \in Answers, a.id = Head(R).id
  PROVE  OneId(Tail(R), A) /\ OneId(Tail(R), Append(A, a))
<1> DEFINE y == Tail(R)
           z == Append(A, a)
<1>1. /\ Len(y) = Len(R) - 1 /\ Len(R) \in Nat /\ Head(R) = R[1] /\ 1 \in 1..Len(R)
      /\ \A i \in 1..Len(y) : y[i] = R[i + 1] /\ i + 1 \in 1..Len(R)
  BY TailFacts
<1>2. a \in Frame
  BY DEF Frame
<1>3. /\ Len(A) \in Nat
      /\ \A i \in 1..Len(z) : \/ i \in 1..Len(A) /\ z[i] = A[i]
                              \/ i = Len(A) + 1 /\ z[i] = a
  BY <1>2, AppendFacts
<1> HIDE DEF y, z
<1>4. \A i \in 1..Len(y) : i + 1 # 1 /\ \A j \in 1..Len(y) : i + 1 = j + 1 => i = j
  BY <1>1
<1>5. OneId(y, A)
  <2>1. ASSUME NEW i \in 1..Len(y), NEW j \in 1..Len(y), y[i].id = y[j].id
        PROVE  i = j
    <3>1. i + 1 = j + 1
      BY <1>1, <2>1 DEF OneId
    <3> QED BY <1>4, <3>1
  <2>2. ASSUME NEW i \in 1..Len(y), NEW j \in 1..Len(A), IsAnswer(A[j])
        PROVE  y[i].id # A[j].id
    <3>1. y[i] = R[i + 1] /\ i + 1 \in 1..Len(R)
      BY <1>1
    <3> QED BY <2>2, <3>1 DEF OneId
  <2>3. \A i, j \in 1..Len(A) : IsAnswer(A[i]) /\ IsAnswer(A[j]) /\ A[i].id = A[j].id => i = j
    BY DEF OneId
  <2> QED BY <2>1, <2>2, <2>3 DEF OneId
<1>6. OneId(y, z)
  <2>1. \A i \in 1..Len(A) : IsAnswer(A[i]) => A[i].id # a.id
    BY <1>1 DEF OneId
  <2>2. \A i \in 1..Len(y) : y[i].id # a.id
    BY <1>1, <1>4 DEF OneId
  <2> QED BY <1>3, <1>5, <2>1, <2>2 DEF OneId
<1> QED BY <1>5, <1>6 DEF y, z

LEMMA IdEvent ==
  ASSUME NEW R, NEW A \in Seq(Frame), OneId(R, A), NEW e \in Event
  PROVE  OneId(R, Append(A, e)) /\ OneId(R, << >>)
<1> DEFINE z == Append(A, e)
<1>1. e \in Frame /\ ~IsAnswer(e)
  BY DEF Frame, Event, IsAnswer
<1>2. \A i \in 1..Len(z) : \/ i \in 1..Len(A) /\ z[i] = A[i]
                           \/ i = Len(A) + 1 /\ z[i] = e
  BY <1>1, AppendFacts
<1> HIDE DEF z
<1>3. OneId(R, z)
  BY <1>1, <1>2 DEF OneId
<1>4. OneId(R, << >>)
  BY DEF OneId
<1> QED BY <1>3, <1>4 DEF z

-----------------------------------------------------------------------------
(* A bootstrap that is under way will attach a session: it has asked for   *)
(* the list, its list has the session, it has asked to attach it, or it    *)
(* will when the answer about another one comes.                           *)

BootAsked(x, C)       == x.op = "list" /\ C[x.id].k = "boot"
AttachAsked(x, C, s)  == x.op = "attach" /\ C[x.id].k = "bootAttach" /\ (s = x.sid \/ s \in C[x.id].rest)
BootListed(m, C, s)   == IsAnswer(m) /\ C[m.id].k = "boot" /\ s \in m.all
AttachGoesOn(m, C, s) == IsAnswer(m) /\ C[m.id].k = "bootAttach" /\ s \in C[m.id].rest

Asking(x, C, s)   == BootAsked(x, C) \/ AttachAsked(x, C, s)
Answered(m, C, s) == BootListed(m, C, s) \/ AttachGoesOn(m, C, s)
Pending(R, A, C, s) ==
  \/ \E j \in 1..Len(R) : Asking(R[j], C, s)
  \/ \E j \in 1..Len(A) : Answered(A[j], C, s)

\* A function starts, or goes on, under an id that nothing else in flight has.
LEMMA PendingBegins ==
  ASSUME NEW R \in Seq(Requests), NEW A \in Seq(Frame), NEW C, NEW D, NEW s, NEW r,
         Pending(R, A, C, s), Free(R, A, r), \A i \in Id : i # r => D[i] = C[i],
         NEW Q, Q = R \/ \E x \in Requests : Q = Append(R, x)
  PROVE  Pending(Q, A, D, s)
<1>1. \A j \in 1..Len(R) : R[j].id \in Id /\ D[R[j].id] = C[R[j].id]
  <2> SUFFICES ASSUME NEW j \in 1..Len(R) PROVE R[j].id \in Id /\ D[R[j].id] = C[R[j].id]
    OBVIOUS
  <2>1. R[j] \in Requests
    BY ElementOfSeq
  <2> QED BY <2>1 DEF Requests, Free
<1>2. \A j \in 1..Len(A) : IsAnswer(A[j]) => A[j].id \in Id /\ D[A[j].id] = C[A[j].id]
  <2> SUFFICES ASSUME NEW j \in 1..Len(A), IsAnswer(A[j]) PROVE A[j].id \in Id /\ D[A[j].id] = C[A[j].id]
    OBVIOUS
  <2>1. A[j] \in Frame
    BY ElementOfSeq
  <2>2. A[j] \in Answers
    BY <2>1 DEF Frame, Event, IsAnswer
  <2> QED BY <2>2 DEF Answers, Free
<1>3. \A j \in 1..Len(R) : j \in 1..Len(Q) /\ Q[j] = R[j]
  <2>1. ASSUME NEW x \in Requests, Q = Append(R, x)
        PROVE  \A j \in 1..Len(R) : j \in 1..Len(Q) /\ Q[j] = R[j]
    BY <2>1, AppendFacts
  <2> QED BY <2>1
<1>4. CASE \E j \in 1..Len(R) : Asking(R[j], C, s)
  BY <1>1, <1>3, <1>4 DEF Pending, Asking, BootAsked, AttachAsked
<1>5. CASE \E j \in 1..Len(A) : Answered(A[j], C, s)
  BY <1>2, <1>5 DEF Pending, Answered, BootListed, AttachGoesOn
<1> QED BY <1>4, <1>5 DEF Pending

\* The new request itself.
LEMMA PendingAsked ==
  ASSUME NEW R \in Seq(Requests), NEW A, NEW C, NEW s, NEW x \in Requests, Asking(x, C, s)
  PROVE  Pending(Append(R, x), A, C, s)
<1>1. /\ Len(Append(R, x)) = Len(R) + 1 /\ Len(R) \in Nat /\ Append(R, x)[Len(R) + 1] = x
  BY AppendFacts
<1>2. Len(R) + 1 \in 1..Len(Append(R, x))
  BY <1>1
<1> QED BY <1>1, <1>2 DEF Pending

\* The page takes a frame.
LEMMA PendingReceived ==
  ASSUME NEW R, NEW A \in Seq(Frame), A # << >>, NEW C, NEW s, Pending(R, A, C, s)
  PROVE  Pending(R, Tail(A), C, s) \/ Answered(Head(A), C, s)
<1> DEFINE z == Tail(A)
<1>1. /\ Len(z) = Len(A) - 1 /\ Len(A) \in Nat /\ Head(A) = A[1] /\ 1 \in 1..Len(A)
      /\ \A i \in 1..Len(z) : z[i] = A[i + 1] /\ i + 1 \in 1..Len(A)
  BY TailFacts
<1> HIDE DEF z
<1>2. ASSUME NEW j \in 1..Len(A), Answered(A[j], C, s)
      PROVE  Pending(R, z, C, s) \/ Answered(A[1], C, s)
  <2>1. CASE j = 1
    BY <1>2, <2>1
  <2>2. CASE j # 1
    <3>1. j - 1 \in 1..Len(z) /\ (j - 1) + 1 = j
      BY <1>1, <2>2
    <3>2. z[j - 1] = A[j]
      BY <1>1, <3>1
    <3> QED BY <1>2, <3>1, <3>2 DEF Pending
  <2> QED BY <2>1, <2>2
<1> QED BY <1>1, <1>2 DEF Pending, z

\* A frame to the page, and what is in it.
LEMMA PendingSent ==
  ASSUME NEW R, NEW A \in Seq(Frame), NEW C, NEW s, NEW a \in Frame,
         Pending(R, A, C, s) \/ Answered(a, C, s)
  PROVE  Pending(R, Append(A, a), C, s)
<1> DEFINE z == Append(A, a)
<1>1. /\ Len(z) = Len(A) + 1 /\ Len(A) \in Nat /\ z[Len(A) + 1] = a /\ \A i \in 1..Len(A) : z[i] = A[i]
  BY AppendFacts
<1>2. Len(A) + 1 \in 1..Len(z) /\ \A i \in 1..Len(A) : i \in 1..Len(z)
  BY <1>1
<1> HIDE DEF z
<1>3. Pending(R, z, C, s)
  BY <1>1, <1>2 DEF Pending
<1> QED BY <1>3 DEF z

\* The daemon takes a request.
LEMMA PendingTaken ==
  ASSUME NEW R \in Seq(Requests), R # << >>, NEW A, NEW C, NEW s, Pending(R, A, C, s)
  PROVE  Pending(Tail(R), A, C, s) \/ Asking(Head(R), C, s)
<1> DEFINE z == Tail(R)
<1>1. /\ Len(z) = Len(R) - 1 /\ Len(R) \in Nat /\ Head(R) = R[1] /\ 1 \in 1..Len(R)
      /\ \A i \in 1..Len(z) : z[i] = R[i + 1] /\ i + 1 \in 1..Len(R)
  BY TailFacts
<1> HIDE DEF z
<1>2. ASSUME NEW j \in 1..Len(R), Asking(R[j], C, s)
      PROVE  Pending(z, A, C, s) \/ Asking(R[1], C, s)
  <2>1. CASE j = 1
    BY <1>2, <2>1
  <2>2. CASE j # 1
    <3>1. j - 1 \in 1..Len(z) /\ (j - 1) + 1 = j
      BY <1>1, <2>2
    <3>2. z[j - 1] = R[j]
      BY <1>1, <3>1
    <3> QED BY <1>2, <3>1, <3>2 DEF Pending
  <2> QED BY <2>1, <2>2
<1> QED BY <1>1, <1>2 DEF Pending, z

-----------------------------------------------------------------------------
(* At rest the page is up to date.                                         *)

\* An attached session is brought up to date by what is on its way, or a bootstrap that is
\* under way will attach it.
Awaited(s) ==
  link /\ s \in attached \ skipped =>
    \/ Current(ans, ev, whole[s], last[s], out[s], s)
    \/ Pending(req, ans, calls, s)

FreshInv ==
  /\ OneId(req, ans) /\ (~link => ans = << >>)
  /\ \A s \in Session : Stream(ans, ev, out[s], s \in attached, s) /\ Awaited(s)

\* What a step does to the requests: nothing, or one more under an id of its own.
LEMMA AskCalls ==
  ASSUME TypeOK, NEW r \in Id, NEW s \in Session \cup {None},
         NEW op \in {"list", "attach", "create", "kill"},
         NEW c, Ask(r, op, s, c)
  PROVE  /\ [op |-> op, sid |-> s, id |-> r] \in Requests
         /\ req' = Append(req, [op |-> op, sid |-> s, id |-> r])
         /\ calls'[r] = c /\ \A i \in Id : i # r => calls'[i] = calls[i]
BY DEF Ask, Requests, TypeOK

Resumed(r) ==
  /\ req' = req \/ \E x \in Requests : x.id = r /\ req' = Append(req, x)
  /\ \A i \in Id : i # r => calls'[i] = calls[i]

\* A function that starts has an id of its own.
LEMMA BeginCalls ==
  ASSUME TypeOK, NEW s \in Session \cup {None},
         NEW op \in {"list", "attach", "create", "kill"},
         NEW c, Begin(op, s, c)
  PROVE  \E r \in Id :
           /\ Free(req, ans, r) /\ Resumed(r) /\ calls'[r] = c
           /\ \E x \in Requests : x.op = op /\ x.id = r /\ req' = Append(req, x)
<1> DEFINE r == CHOOSE r \in Id : Unused(r)
           x == [op |-> op, sid |-> s, id |-> r]
<1>1. r \in Id /\ Unused(r) /\ Ask(r, op, s, c)
  BY DEF Begin
<1>2. x \in Requests /\ x.op = op /\ x.id = r /\ req' = Append(req, x)
  BY <1>1 DEF Ask, Requests
<1> HIDE DEF r, x
<1>3. Free(req, ans, r)
  BY <1>1 DEF Unused, Free, IsAnswer
<1>4. calls'[r] = c /\ \A i \in Id : i # r => calls'[i] = calls[i]
  BY <1>1 DEF Ask, TypeOK
<1>5. Resumed(r)
  BY <1>2, <1>4 DEF Resumed
<1> QED BY <1>1, <1>2, <1>3, <1>4, <1>5

LEMMA AnswerCalls ==
  ASSUME TypeOK, NEW m \in Answers, OnAnswer(m)
  PROVE  Resumed(m.id)
<1> DEFINE c == calls[m.id]
<1>1. /\ m.id \in Id /\ m.sid \in Session \cup {None} /\ m.all \in SUBSET Session
      /\ c \in Calls \cup {Idle} /\ None \in Session \cup {None}
  BY DEF Answers, TypeOK
<1>2. c \in Calls => c.sid \in Session \cup {None} /\ c.rest \in SUBSET Session
  BY DEF Calls
<1>3. ASSUME NEW op \in {"list", "attach", "create", "kill"}, NEW s \in Session \cup {None}, NEW d,
             Ask(m.id, op, s, d)
      PROVE  Resumed(m.id)
  <2> DEFINE x == [op |-> op, sid |-> s, id |-> m.id]
  <2>1. x \in Requests /\ x.id = m.id /\ req' = Append(req, x)
        /\ \A i \in Id : i # m.id => calls'[i] = calls[i]
    <3>1. m.id \in Id
      BY <1>1
    <3> QED BY <1>3, <3>1 DEF Ask, Requests, TypeOK
  <2> HIDE DEF x, c
  <2> QED BY <2>1 DEF Resumed
<1>4. ASSUME Return(m.id)
      PROVE  Resumed(m.id)
  BY <1>1, <1>4 DEF Return, TypeOK, Resumed
<1>5. ASSUME NEW rest \in SUBSET Session, NEW all, AttachNext(m, rest, all)
      PROVE  Resumed(m.id)
  <2>1. PICK s \in rest : Ask(m.id, "attach", s, Call("bootAttach", s, rest \ {s}, all))
    BY <1>5 DEF AttachNext
  <2>2. s \in Session \cup {None}
    OBVIOUS
  <2> QED BY <1>3, <2>1, <2>2
<1>6. CASE c.k = "idle"
  <2>1. UNCHANGED <<calls, req>>
    BY <1>6 DEF OnAnswer
  <2> QED BY <2>1 DEF Resumed
<1>7. CASE c.k = "boot"
  <2>1. OnBootList(m)
    BY <1>7 DEF OnAnswer
  <2>2. \/ Ask(m.id, "create", None, Call("create", None, {}, {}))
        \/ Return(m.id)
        \/ AttachNext(m, m.all, m.all)
    BY <2>1 DEF OnBootList
  <2> QED BY <1>1, <1>3, <1>4, <1>5, <2>2
<1>8. CASE c.k = "bootAttach"
  <2>1. OnBootAttach(c, m) /\ c \in Calls
    BY <1>1, <1>8, IdleFacts DEF OnAnswer
  <2>2. Return(m.id) \/ AttachNext(m, c.rest, c.all)
    BY <2>1 DEF OnBootAttach, Pick
  <2> QED BY <1>2, <1>4, <1>5, <2>1, <2>2
<1>9. CASE c.k = "create"
  <2>1. OnCreated(m)
    BY <1>9 DEF OnAnswer
  <2>2. Return(m.id) \/ Ask(m.id, "list", None, Call("createList", m.sid, {}, {}))
    BY <2>1 DEF OnCreated
  <2> QED BY <1>1, <1>3, <1>4, <2>2
<1>10. CASE c.k = "createList"
  <2>1. OnCreateList(c, m) /\ c \in Calls
    BY <1>1, <1>10, IdleFacts DEF OnAnswer
  <2>2. Ask(m.id, "attach", c.sid, Call("attach", c.sid, {}, {}))
    BY <2>1 DEF OnCreateList
  <2> QED BY <1>2, <1>3, <2>1, <2>2
<1>11. CASE c.k = "attach"
  <2>1. OnAttach(c, m)
    BY <1>11 DEF OnAnswer
  <2> QED BY <1>4, <2>1 DEF OnAttach
<1>12. CASE c.k = "kill"
  <2>1. OnKilled(m)
    BY <1>12 DEF OnAnswer
  <2>2. Ask(m.id, "list", None, Call("refetch", None, {}, {}))
    BY <2>1 DEF OnKilled
  <2> QED BY <1>1, <1>3, <2>2
<1>13. CASE c.k = "refetch"
  <2>1. OnList(m)
    BY <1>13 DEF OnAnswer
  <2> QED BY <1>4, <2>1 DEF OnList
<1>14. c.k \in {"idle", "boot", "bootAttach", "create", "createList", "attach", "kill", "refetch"}
  BY <1>1 DEF Calls, Idle
<1> HIDE DEF c
<1> QED BY <1>6, <1>7, <1>8, <1>9, <1>10, <1>11, <1>12, <1>13, <1>14

\* The functions go on: nothing is asked, or one request under an id nothing in flight has.
Proceeds ==
  \/ UNCHANGED <<calls, req>>
  \/ \E r \in Id : Resumed(r) /\ Free(req, ans', r)

LEMMA Proceeding ==
  ASSUME TypeOK, ans' \in Seq(Frame), OneId(req, ans'), Proceeds
  PROVE  /\ OneId(req', ans')
         /\ \A s : Pending(req, ans', calls, s) => Pending(req', ans', calls', s)
<1>1. req \in Seq(Requests)
  BY DEF TypeOK
<1>2. CASE UNCHANGED <<calls, req>>
  BY <1>2
<1>3. ASSUME NEW r \in Id, Resumed(r), Free(req, ans', r)
      PROVE  OneId(req', ans') /\ \A s : Pending(req, ans', calls, s) => Pending(req', ans', calls', s)
  <2>1. req' = req \/ \E x \in Requests : x.id = r /\ req' = Append(req, x)
    BY <1>3 DEF Resumed
  <2>2. \A i \in Id : i # r => calls'[i] = calls[i]
    BY <1>3 DEF Resumed
  <2>3. ASSUME NEW x \in Requests, x.id = r, req' = Append(req, x)
        PROVE  OneId(req', ans')
    BY <1>1, <1>3, <2>3, IdAsked
  <2>4. OneId(req', ans')
    BY <2>1, <2>3
  <2>5. req' = req \/ \E x \in Requests : req' = Append(req, x)
    BY <2>1
  <2>6. ASSUME NEW s, Pending(req, ans', calls, s)
        PROVE  Pending(req', ans', calls', s)
    BY <1>1, <1>3, <2>2, <2>5, <2>6, PendingBegins
  <2> QED BY <2>4, <2>6
<1> QED BY <1>2, <1>3 DEF Proceeds

LEMMA BeginProceeds ==
  ASSUME TypeOK, NEW s \in Session \cup {None},
         NEW op \in {"list", "attach", "create", "kill"},
         NEW c, Begin(op, s, c),
         \A r : Free(req, ans, r) => Free(req, ans', r)
  PROVE  Proceeds
<1>1. PICK r \in Id : Free(req, ans, r) /\ Resumed(r)
  BY BeginCalls
<1> QED BY <1>1 DEF Proceeds

LEMMA AttachPending ==
  ASSUME TypeOK, NEW m \in Answers, NEW rest \in SUBSET Session, NEW all, AttachNext(m, rest, all),
         NEW s \in rest, NEW A
  PROVE  Pending(req', A, calls', s)
<1>1. PICK t \in rest : Ask(m.id, "attach", t, Call("bootAttach", t, rest \ {t}, all))
  BY DEF AttachNext
<1> DEFINE x == [op |-> "attach", sid |-> t, id |-> m.id]
<1>2. m.id \in Id /\ req \in Seq(Requests)
  BY DEF Answers, TypeOK
<1>3. x \in Requests /\ req' = Append(req, x) /\ calls'[m.id] = Call("bootAttach", t, rest \ {t}, all)
  BY <1>1, <1>2 DEF Ask, Requests, TypeOK
<1>4. x.op = "attach" /\ x.sid = t /\ x.id = m.id
  OBVIOUS
<1> HIDE DEF x
<1>5. AttachAsked(x, calls', s)
  BY <1>3, <1>4 DEF AttachAsked, Call
<1>6. Asking(x, calls', s)
  BY <1>5 DEF Asking
<1> QED BY <1>2, <1>3, <1>6, PendingAsked

\* The answer a bootstrap waits for makes it ask for the next session, except that the first
\* one may start a session of its own, and passes over those that are attached.
LEMMA PendingAnswered ==
  ASSUME TypeOK, NEW m \in Answers, OnAnswer(m), NEW s \in attached, s \notin skipped',
         Answered(m, calls, s), NEW A
  PROVE  Pending(req', A, calls', s)
<1> DEFINE c == calls[m.id]
<1>1. m.id \in Id /\ m.all \in SUBSET Session /\ c \in Calls \cup {Idle} /\ IsAnswer(m)
  BY DEF Answers, TypeOK, IsAnswer
<1>2. CASE c.k = "boot" /\ s \in m.all
  <2>1. OnBootList(m)
    BY <1>2 DEF OnAnswer
  <2>2. AttachNext(m, m.all, m.all)
    BY <1>2, <2>1 DEF OnBootList
  <2> QED BY <1>1, <1>2, <2>2, AttachPending
<1>3. CASE c.k = "bootAttach" /\ s \in c.rest
  <2>1. OnBootAttach(c, m) /\ c \in Calls
    BY <1>1, <1>3, IdleFacts DEF OnAnswer
  <2>2. AttachNext(m, c.rest, c.all) /\ c.rest \in SUBSET Session
    BY <1>3, <2>1 DEF OnBootAttach, Calls
  <2> HIDE DEF c
  <2> QED BY <1>3, <2>2, AttachPending
<1> QED BY <1>2, <1>3 DEF Answered, BootListed, AttachGoesOn


LEMMA ReceiveProceeds ==
  ASSUME TypeOK, FreshInv, Receive
  PROVE  Proceeds
<1> DEFINE m == Head(ans)
<1>1. ans # << >> /\ ans' = Tail(ans) /\ ans \in Seq(Frame) /\ OneId(req, ans)
  BY DEF Receive, TypeOK, Frame, FreshInv
<1>2. /\ IsAnswer(m) => Free(req, ans', m.id)
      /\ \A r : Free(req, ans, r) => Free(req, ans', r)
  BY <1>1, IdReceived
<1>3. m \in Frame
  BY <1>1, HeadType
<1>4. /\ m.t = "answer"   => OnAnswer(m)
      /\ m.t = "snapshot" => OnSnapshot(m)
      /\ m.t = "output"   => OnOutput(m)
      /\ m.t = "exited"   => OnExited(m)
  BY DEF Receive
<1> HIDE DEF m
<1>5. CASE m \in Answers
  <2>1. m.t = "answer" /\ m.id \in Id
    BY <1>5 DEF Answers
  <2>2. Resumed(m.id)
    BY <1>4, <1>5, <2>1, AnswerCalls
  <2> QED BY <1>2, <2>1, <2>2 DEF Proceeds, IsAnswer
<1>6. CASE m.t = "snapshot" \/ m.t = "output"
  BY <1>4, <1>6 DEF OnSnapshot, OnOutput, Proceeds
<1>7. CASE m.t = "exited"
  <2>1. Begin("list", None, Call("refetch", None, {}, {}))
    BY <1>4, <1>7 DEF OnExited
  <2> QED BY <1>2, <2>1, BeginProceeds
<1>8. m \notin Answers => m.t \in {"snapshot", "output", "exited"}
  BY <1>3 DEF Frame, Event
<1> QED BY <1>5, <1>6, <1>7, <1>8

\* What a frame does to the data of a session.
LEMMA ReceiveData ==
  ASSUME TypeOK, Receive, NEW s \in Session, NEW m, m = Head(ans)
  PROVE  /\ ~Of(m, s) \/ m.t = "exited" => whole'[s] = whole[s] /\ last'[s] = last[s]
         /\ Of(m, s) /\ m.t = "snapshot" => whole'[s] = m.n /\ last'[s] = m.n
         /\ Of(m, s) /\ m.t = "output" =>
              IF m.n <= last[s] THEN whole'[s] = whole[s] /\ last'[s] = last[s]
              ELSE last'[s] = m.n /\ (whole[s] # Blank /\ m.n = whole[s] + 1 => whole'[s] = m.n)
<1>1. m \in Frame
  BY HeadType DEF Receive
<1>2. /\ m.t = "answer"   => OnAnswer(m)
      /\ m.t = "snapshot" => OnSnapshot(m)
      /\ m.t = "output"   => OnOutput(m)
      /\ m.t = "exited"   => OnExited(m)
  BY DEF Receive
<1>3. m.t \in {"answer", "snapshot", "output", "exited"} /\ (m.t # "answer" => m.sid \in Session)
  BY <1>1 DEF Frame, Answers, Event
<1>4. last \in [Session -> 0..MaxOut \cup {Blank}] /\ whole \in [Session -> 0..MaxOut \cup {Blank}]
  BY DEF TypeOK
<1>5. CASE m.t = "answer"
  BY <1>2, <1>5 DEF OnAnswer, Of
<1>6. CASE m.t = "exited"
  BY <1>2, <1>6 DEF OnExited
<1>7. CASE m.t = "snapshot"
  <2>1. last' = [last EXCEPT ![m.sid] = m.n] /\ whole' = [whole EXCEPT ![m.sid] = m.n]
    BY <1>2, <1>7 DEF OnSnapshot, Written
  <2> QED BY <1>3, <1>4, <1>7, <2>1 DEF Of
<1>8. CASE m.t = "output" /\ m.n <= last[m.sid]
  BY <1>2, <1>8 DEF OnOutput, Of
<1>9. CASE m.t = "output" /\ ~(m.n <= last[m.sid])
  <2>1. last' = [last EXCEPT ![m.sid] = m.n]
        /\ whole' = [whole EXCEPT ![m.sid] = IF @ # Blank /\ m.n = @ + 1 THEN m.n ELSE Blank]
    BY <1>2, <1>9 DEF OnOutput, Written
  <2> QED BY <1>3, <1>4, <1>9, <2>1 DEF Of
<1> QED BY <1>3, <1>5, <1>6, <1>7, <1>8, <1>9


LEMMA FreshReceive ==
  ASSUME TypeOK, FollowInv, FreshInv, Receive
  PROVE  FreshInv'
<1> DEFINE m == Head(ans)
<1>1. /\ link /\ ans # << >> /\ ans' = Tail(ans) /\ UNCHANGED <<link, ev, live, made, out, attached>>
      /\ ans \in Seq(Frame) /\ OneId(req, ans) /\ (m.t = "answer" => OnAnswer(m))
  BY DEF Receive, hostVars, TypeOK, Frame, FreshInv
<1>2. OneId(req, ans') /\ ans' \in Seq(Frame) /\ m \in Frame
  BY <1>1, IdReceived, HeadType
<1>3. /\ OneId(req', ans')
      /\ \A s : Pending(req, ans', calls, s) => Pending(req', ans', calls', s)
  BY <1>2, ReceiveProceeds, Proceeding
<1>4. \A s \in Session : Stream(ans', ev', out'[s], s \in attached', s)
  <2> SUFFICES ASSUME NEW s \in Session PROVE Stream(ans', ev', out'[s], s \in attached', s)
    OBVIOUS
  <2>1. Stream(ans, ev, out[s], s \in attached, s)
    BY DEF FreshInv
  <2> QED BY <1>1, <2>1, StreamTail
<1>5. skipped \subseteq skipped'
  <2>1. m.t \in {"answer", "snapshot", "output", "exited"}
    BY <1>2 DEF Frame, Answers, Event
  <2>2. CASE m.t = "answer"
    <3>1. OnAnswer(m) /\ m \in Answers
      BY <1>1, <1>2, <2>2 DEF Frame, Event
    <3> HIDE DEF m
    <3>2. calls[m.id].k \in {"idle", "boot", "bootAttach", "create", "createList", "attach", "kill", "refetch"}
      <4>1. calls[m.id] \in Calls \cup {Idle}
        BY <3>1 DEF Answers, TypeOK
      <4> QED BY <4>1 DEF Calls, Idle
    <3>3. calls[m.id].k # "boot" => skipped' = skipped
      BY <3>1, <3>2 DEF OnAnswer, OnBootAttach, OnCreated, OnCreateList, OnAttach, OnKilled, OnList, bootVars
    <3>4. calls[m.id].k = "boot" => skipped' = skipped \/ skipped' = skipped \cup (attached \cap m.all)
      BY <3>1 DEF OnAnswer, OnBootList
    <3> QED BY <3>3, <3>4
  <2>3. CASE m.t # "answer"
    BY <2>1, <2>3 DEF Receive, OnSnapshot, OnOutput, OnExited, bootVars
  <2> QED BY <2>2, <2>3
<1>6. ASSUME NEW s \in Session, s \in attached, s \notin skipped'
      PROVE  Current(ans', ev, whole'[s], last'[s], out[s], s) \/ Pending(req', ans', calls', s)
  <2>1. Current(ans, ev, whole[s], last[s], out[s], s) \/ Pending(req, ans, calls, s)
    BY <1>1, <1>5, <1>6 DEF FreshInv, Awaited
  <2>2. CASE Current(ans, ev, whole[s], last[s], out[s], s)
    <3>1. Stream(ans, ev, out[s], TRUE, s)
      BY <1>6 DEF FreshInv
    <3>2. ~(Of(m, s) /\ m.t = "exited")
      <4>1. 1 \in 1..Len(ans) /\ m = ans[1]
        BY <1>1, TailFacts
      <4> QED BY <1>6, <4>1 DEF FollowInv, ExitsLast, Of
    <3>3. Of(m, s) => m.n \in 0..MaxOut /\ m.n # Blank /\ m.t \in {"snapshot", "output", "exited"}
      BY <1>2, BoundFacts DEF Frame, Answers, Event, Of
    <3>4. /\ ~Of(m, s) => Current(ans', ev, whole[s], last[s], out[s], s)
          /\ Of(m, s) /\ m.n # Blank => InStep(ans', ev, m.n, m.n, out[s], s)
          /\ Of(m, s) /\ m.t = "output" =>
               \/ Snapped(ans', s) \/ Snapped(ev, s)
               \/ whole[s] = last[s] /\ whole[s] # Blank /\ m.n = whole[s] + 1
      BY <1>1, <2>2, <3>1, CurrentTail
    <3>5. /\ ~Of(m, s) \/ m.t = "exited" => whole'[s] = whole[s] /\ last'[s] = last[s]
          /\ Of(m, s) /\ m.t = "snapshot" => whole'[s] = m.n /\ last'[s] = m.n
          /\ Of(m, s) /\ m.t = "output" =>
               IF m.n <= last[s] THEN whole'[s] = whole[s] /\ last'[s] = last[s]
               ELSE last'[s] = m.n /\ (whole[s] # Blank /\ m.n = whole[s] + 1 => whole'[s] = m.n)
      BY ReceiveData
    <3> HIDE DEF m
    <3>6. CASE ~Of(m, s)
      BY <3>4, <3>5, <3>6
    <3>7. CASE Of(m, s) /\ m.t = "snapshot"
      BY <3>3, <3>4, <3>5, <3>7 DEF Current
    <3>8. CASE Of(m, s) /\ m.t = "output" /\ (Snapped(ans', s) \/ Snapped(ev, s))
      BY <3>8 DEF Current
    <3>9. CASE Of(m, s) /\ m.t = "output" /\ whole[s] = last[s] /\ whole[s] # Blank /\ m.n = whole[s] + 1
      <4>1. last[s] \in 0..MaxOut
        BY <3>9 DEF TypeOK
      <4>2. ~(m.n <= last[s])
        BY <3>9, <4>1, BoundFacts
      <4>3. whole'[s] = m.n /\ last'[s] = m.n
        BY <3>5, <3>9, <4>2
      <4> QED BY <3>3, <3>4, <3>9, <4>3 DEF Current
    <3> QED BY <3>2, <3>3, <3>4, <3>6, <3>7, <3>8, <3>9
  <2>3. CASE Pending(req, ans, calls, s)
    <3>1. Pending(req, ans', calls, s) \/ Answered(m, calls, s)
      BY <1>1, <2>3, PendingReceived
    <3>2. ASSUME Answered(m, calls, s)
          PROVE  Pending(req', ans', calls', s)
      <4>1. m \in Answers /\ OnAnswer(m)
        BY <1>1, <1>2, <3>2 DEF Answered, BootListed, AttachGoesOn, IsAnswer, Frame, Event
      <4> HIDE DEF m
      <4> QED BY <1>6, <3>2, <4>1, PendingAnswered
    <3> QED BY <1>3, <3>1, <3>2
  <2> QED BY <2>1, <2>2, <2>3
<1> QED BY <1>1, <1>3, <1>4, <1>6 DEF FreshInv, Awaited


\* What the daemon does with request m: its answer a, and the host's event if there is one.
Served(m, a) ==
  /\ a.id = m.id /\ Reply(a) /\ (m.op = "list" => a.all = live) /\ out' = out
  /\ \/ m.op # "attach" /\ UNCHANGED <<ev, attached>>
     \/ m.op = "attach" /\ m.sid \notin live /\ UNCHANGED <<ev, attached>>
     \/ /\ m.op = "attach" /\ m.sid \in live /\ attached' = attached \cup {m.sid}
        /\ \E e \in Event : e.t = "snapshot" /\ e.sid = m.sid /\ e.n = out[m.sid] /\ ev' = Append(ev, e)
     \/ /\ m.op = "kill" /\ attached' = attached \ {m.sid}
        /\ \/ ev' = ev
           \/ \E e \in Event : e.t = "exited" /\ e.sid = m.sid /\ ev' = Append(ev, e)

LEMMA ServeEffect ==
  ASSUME TypeOK, Serve
  PROVE  \E a \in Answers : Served(Head(req), a)
<1> DEFINE m == Head(req)
<1>1. m.id \in Id /\ m.sid \in Session \cup {None} /\ m.op \in {"list", "attach", "create", "kill"}
  BY HeadType DEF Serve, Requests
<1>2. /\ m.op = "list"   => ServeList(m)
      /\ m.op = "create" => ServeCreate(m)
      /\ m.op = "attach" => ServeAttach(m)
      /\ m.op = "kill"   => ServeKill(m)
  BY DEF Serve
<1>3. live \subseteq Session /\ attached \subseteq Session /\ out \in [Session -> 0..MaxOut]
  BY DEF TypeOK
<1> HIDE DEF m
<1>4. ASSUME NEW ok \in BOOLEAN, NEW s \in Session \cup {None}, NEW all \in SUBSET Session
      PROVE  /\ Answer(m.id, ok, s, all) \in Answers
             /\ Answer(m.id, ok, s, all).id = m.id /\ Answer(m.id, ok, s, all).all = all
  BY <1>1 DEF Answer, Answers
<1>5. None \in Session \cup {None} /\ {} \in SUBSET Session /\ live \in SUBSET Session
  BY <1>3
<1>6. CASE m.op = "list"
  <2> DEFINE a == Answer(m.id, TRUE, None, live)
  <2>1. a \in Answers /\ a.id = m.id /\ a.all = live
    BY <1>4, <1>5
  <2>2. Reply(a) /\ UNCHANGED <<ev, attached, out>>
    BY <1>2, <1>6 DEF ServeList, hostVars
  <2> HIDE DEF a
  <2>3. Served(m, a)
    BY <1>6, <2>1, <2>2 DEF Served
  <2> QED BY <2>1, <2>3 DEF m
<1>7. CASE m.op = "create"
  <2>1. PICK ok \in BOOLEAN, s \in Session \cup {None} :
          Reply(Answer(m.id, ok, s, {})) /\ UNCHANGED <<ev, attached, out>>
    BY <1>2, <1>7 DEF ServeCreate, hostVars
  <2> DEFINE a == Answer(m.id, ok, s, {})
  <2>2. a \in Answers /\ a.id = m.id /\ Reply(a)
    BY <1>4, <1>5, <2>1
  <2> HIDE DEF a
  <2>3. Served(m, a)
    BY <1>7, <2>1, <2>2 DEF Served
  <2> QED BY <2>2, <2>3 DEF m
<1>8. CASE m.op = "attach"
  <2>1. CASE m.sid \in live
    <3> DEFINE a == Answer(m.id, TRUE, m.sid, {})
               e == [t |-> "snapshot", sid |-> m.sid, n |-> out[m.sid]]
    <3>1. a \in Answers /\ a.id = m.id
      BY <1>1, <1>4, <1>5
    <3>2. e \in Event
      BY <1>3, <2>1 DEF Event
    <3>3. /\ Reply(a) /\ ev' = Append(ev, e) /\ attached' = attached \cup {m.sid} /\ out' = out
      BY <1>2, <1>8, <2>1 DEF ServeAttach
    <3>4. e.t = "snapshot" /\ e.sid = m.sid /\ e.n = out[m.sid]
      OBVIOUS
    <3> HIDE DEF a, e
    <3>5. Served(m, a)
      BY <1>8, <2>1, <3>1, <3>2, <3>3, <3>4 DEF Served
    <3> QED BY <3>1, <3>5 DEF m
  <2>2. CASE m.sid \notin live
    <3> DEFINE a == Answer(m.id, FALSE, m.sid, {})
    <3>1. a \in Answers /\ a.id = m.id
      BY <1>1, <1>4, <1>5
    <3>2. Reply(a) /\ UNCHANGED <<ev, attached, out>>
      BY <1>2, <1>8, <2>2 DEF ServeAttach, hostVars
    <3> HIDE DEF a
    <3>3. Served(m, a)
      BY <1>8, <2>2, <3>1, <3>2 DEF Served
    <3> QED BY <3>1, <3>3 DEF m
  <2> QED BY <2>1, <2>2
<1>9. CASE m.op = "kill"
  <2> DEFINE a == Answer(m.id, m.sid \in live, m.sid, {})
  <2>1. a \in Answers /\ a.id = m.id
    <3>1. \A ok \in BOOLEAN : Answer(m.id, ok, m.sid, {}) \in Answers /\ Answer(m.id, ok, m.sid, {}).id = m.id
      BY <1>1, <1>4, <1>5
    <3>2. (m.sid \in live) \in BOOLEAN
      OBVIOUS
    <3> QED BY <3>1, <3>2, Zenon
  <2>2. /\ Reply(a) /\ attached' = attached \ {m.sid} /\ out' = out
        /\ ev' = IF m.sid \in live THEN ExitOf(m.sid) ELSE ev
    BY <1>2, <1>9 DEF ServeKill
  <2> HIDE DEF a
  <2>3. ev' = ev \/ \E e \in Event : e.t = "exited" /\ e.sid = m.sid /\ ev' = Append(ev, e)
    <3> DEFINE e == [t |-> "exited", sid |-> m.sid, n |-> 0]
    <3>1. m.sid \in attached => e \in Event
      BY <1>3 DEF Event
    <3>2. ev' = ev \/ (m.sid \in attached /\ ev' = Append(ev, e))
      BY <2>2 DEF ExitOf
    <3>3. e.t = "exited" /\ e.sid = m.sid
      OBVIOUS
    <3> HIDE DEF e
    <3> QED BY <3>1, <3>2, <3>3
  <2>4. Served(m, a)
    BY <1>9, <2>1, <2>2, <2>3 DEF Served
  <2> QED BY <2>1, <2>4 DEF m
<1> QED BY <1>1, <1>6, <1>7, <1>8, <1>9

LEMMA FreshServe ==
  ASSUME TypeOK, FollowInv, FreshInv, Serve
  PROVE  FreshInv'
<1> DEFINE m == Head(req)
<1>1. /\ req # << >> /\ req' = Tail(req) /\ UNCHANGED <<link, whole, last>> /\ m \in Requests
      /\ link => calls' = calls
      /\ skipped' = IF m.op = "attach" /\ m.sid \in live THEN skipped \ {m.sid} ELSE skipped
      /\ req \in Seq(Requests) /\ ans \in Seq(Frame) /\ ev \in Seq(Event) /\ OneId(req, ans)
  BY HeadType DEF Serve, pageVars, TypeOK, Frame, FreshInv
<1>2. PICK a \in Answers : Served(m, a)
  BY ServeEffect
<1> HIDE DEF m
<1>3. a.id = m.id /\ ans' = (IF link THEN Append(ans, a) ELSE ans) /\ (m.op = "list" => a.all = live) /\ out' = out
      /\ IsAnswer(a) /\ a \in Frame
  BY <1>2 DEF Served, Reply, Answers, IsAnswer, Frame
<1>4. OneId(req', ans') /\ (~link' => ans' = << >>)
  <2>1. OneId(Tail(req), ans) /\ OneId(Tail(req), Append(ans, a))
    BY <1>1, <1>3, IdServed DEF m
  <2> QED BY <1>1, <1>3, <2>1 DEF FreshInv
<1>5. attached \subseteq live
  BY DEF FollowInv, ExitsLast
<1>6. ASSUME NEW s \in Session
      PROVE  Stream(ans', ev', out'[s], s \in attached', s)
  <2>1. Stream(ans, ev, out[s], s \in attached, s)
    BY DEF FreshInv
  <2>2. Stream(ans, ev', out[s], s \in attached', s)
    <3>1. CASE UNCHANGED <<ev, attached>>
      BY <2>1, <3>1
    <3>2. ASSUME NEW e \in Event, e.t = "snapshot", e.sid = m.sid, e.n = out[m.sid], ev' = Append(ev, e),
                 attached' = attached \cup {m.sid}
          PROVE  Stream(ans, ev', out[s], s \in attached', s)
      <4>1. /\ e.sid = s => (e.t = "output" => s \in attached /\ e.n = out[s] + 1) /\ (s \in attached' => e.n = out[s])
            /\ e.sid # s => (s \in attached' => s \in attached /\ out[s] = out[s])
        BY <3>2
      <4> QED BY <1>1, <2>1, <3>2, <4>1, StreamEvent
    <3>3. ASSUME NEW e \in Event, e.t = "exited", e.sid = m.sid, ev' = Append(ev, e),
                 attached' = attached \ {m.sid}
          PROVE  Stream(ans, ev', out[s], s \in attached', s)
      <4>1. /\ e.sid = s => (e.t = "output" => s \in attached /\ e.n = out[s] + 1) /\ (s \in attached' => e.n = out[s])
            /\ e.sid # s => (s \in attached' => s \in attached /\ out[s] = out[s])
        BY <3>3
      <4> QED BY <1>1, <2>1, <3>3, <4>1, StreamEvent
    <3>4. ASSUME ev' = ev, attached' = attached \ {m.sid}
          PROVE  Stream(ans, ev', out[s], s \in attached', s)
      <4>1. s \in attached' => s \in attached /\ out[s] = out[s]
        BY <3>4
      <4>2. Stream(ans, ev, out[s], s \in attached', s)
        BY <2>1, <4>1, StreamQuiet
      <4> QED BY <3>4, <4>2
    <3> QED BY <1>2, <3>1, <3>2, <3>3, <3>4 DEF Served
  <2> QED BY <1>1, <1>3, <2>2, StreamAnswer
<1>7. ASSUME NEW s \in Session, link, s \in attached', s \notin skipped'
      PROVE  \/ Current(ans', ev', whole[s], last[s], out[s], s)
             \/ Pending(req', ans', calls, s)
  <2>1. ASSUME Current(ans, ev', whole[s], last[s], out[s], s)
        PROVE  Current(ans', ev', whole[s], last[s], out[s], s)
    BY <1>1, <1>3, <1>7, <2>1, StreamAnswer
  <2>2. CASE m.op = "attach" /\ m.sid \in live /\ s = m.sid
    <3>1. PICK e \in Event : e.t = "snapshot" /\ e.sid = s /\ ev' = Append(ev, e)
      BY <1>2, <2>2 DEF Served
    <3>2. Current(ans, ev', whole[s], last[s], out[s], s)
      BY <1>1, <3>1, CurrentEvent
    <3> QED BY <2>1, <3>2
  <2>3. CASE ~(m.op = "attach" /\ m.sid \in live /\ s = m.sid)
    <3>1. s \in attached /\ s \notin skipped /\ s \in live
      BY <1>1, <1>2, <1>5, <1>7, <2>3 DEF Served
    <3>2. Current(ans, ev, whole[s], last[s], out[s], s) \/ Pending(req, ans, calls, s)
      BY <1>7, <3>1 DEF FreshInv, Awaited
    <3>3. CASE Current(ans, ev, whole[s], last[s], out[s], s)
      <4>1. ev' = ev \/ \E e \in Event : e.sid # s /\ ev' = Append(ev, e)
        BY <1>2, <1>7, <2>3 DEF Served
      <4>2. ASSUME NEW e \in Event, e.sid # s, ev' = Append(ev, e)
            PROVE  Current(ans, ev', whole[s], last[s], out[s], s)
        BY <1>1, <3>3, <4>2, CurrentEvent
      <4>3. ASSUME ev' = ev
            PROVE  Current(ans, ev', whole[s], last[s], out[s], s)
        BY <3>3, <4>3
      <4> QED BY <2>1, <4>1, <4>2, <4>3
    <3>4. CASE Pending(req, ans, calls, s)
      <4>1. Pending(req', ans, calls, s) \/ Asking(m, calls, s)
        BY <1>1, <3>4, PendingTaken DEF m
      <4>2. Asking(m, calls, s) => Answered(a, calls, s)
        BY <1>3, <2>3, <3>1 DEF Asking, BootAsked, AttachAsked, Answered, BootListed, AttachGoesOn
      <4>3. Pending(req', Append(ans, a), calls, s)
        BY <1>1, <1>3, <4>1, <4>2, PendingSent
      <4> QED BY <1>3, <1>7, <4>3
    <3> QED BY <3>2, <3>3, <3>4
  <2> QED BY <2>2, <2>3
<1> QED BY <1>1, <1>3, <1>4, <1>6, <1>7 DEF FreshInv, Awaited


LEMMA FreshFanout ==
  ASSUME TypeOK, FreshInv, Fanout
  PROVE  FreshInv'
<1> DEFINE e == Head(ev)
<1>1. /\ ev # << >> /\ ev' = Tail(ev) /\ ans' = (IF link THEN Append(ans, e) ELSE ans)
      /\ UNCHANGED <<link, calls, whole, last, req, out, attached, skipped>>
      /\ ans \in Seq(Frame) /\ ev \in Seq(Event) /\ e \in Event /\ e \in Frame /\ OneId(req, ans)
      /\ ~link => ans = << >>
  BY HeadType DEF Fanout, Reply, pageVars, hostVars, boundVars, TypeOK, Frame, FreshInv
<1>2. OneId(req, ans') /\ (~link' => ans' = << >>)
  BY <1>1, IdEvent
<1>3. ASSUME NEW s \in Session
      PROVE  Stream(ans', ev', out[s], s \in attached, s)
  <2>1. Stream(ans, ev, out[s], s \in attached, s)
    BY DEF FreshInv
  <2>2. CASE link
    BY <1>1, <2>1, <2>2, StreamMove
  <2>3. CASE ~link
    <3>1. ans = << >> /\ ans' = << >>
      BY <1>1, <2>3
    <3> QED BY <1>1, <2>1, <3>1, StreamLost
  <2> QED BY <2>2, <2>3
<1>4. ASSUME NEW s \in Session, link, s \in attached, s \notin skipped
      PROVE  \/ Current(ans', ev', whole[s], last[s], out[s], s)
             \/ Pending(req, ans', calls, s)
  <2>1. Stream(ans, ev, out[s], s \in attached, s)
    BY DEF FreshInv
  <2>2. Current(ans, ev, whole[s], last[s], out[s], s) \/ Pending(req, ans, calls, s)
    BY <1>4 DEF FreshInv, Awaited
  <2>3. CASE Current(ans, ev, whole[s], last[s], out[s], s)
    BY <1>1, <1>4, <2>1, <2>3, StreamMove
  <2>4. CASE Pending(req, ans, calls, s)
    BY <1>1, <1>4, <2>4, PendingSent
  <2> QED BY <2>2, <2>3, <2>4
<1> QED BY <1>1, <1>2, <1>3, <1>4 DEF FreshInv, Awaited

LEMMA FreshOutput ==
  ASSUME TypeOK, FreshInv, NEW t \in Session, Output(t)
  PROVE  FreshInv'
<1> DEFINE e == [t |-> "output", sid |-> t, n |-> out'[t]]
<1>1. /\ UNCHANGED <<link, calls, whole, last, req, ans, attached, skipped>> /\ t \in live
      /\ out' = [out EXCEPT ![t] = @ + 1] /\ out \in [Session -> 0..MaxOut] /\ out[t] < MaxOut
      /\ ev' = (IF t \in attached THEN Append(ev, e) ELSE ev)
      /\ ev \in Seq(Event) /\ OneId(req, ans) /\ (~link => ans = << >>)
  BY DEF Output, pageVars, TypeOK, FreshInv
<1>2. e \in Event /\ e.t = "output" /\ e.sid = t /\ e.n = out[t] + 1
  <2>1. out'[t] = out[t] + 1 /\ out[t] + 1 \in 0..MaxOut
    BY <1>1, BoundFacts
  <2> QED BY <2>1 DEF Event
<1>3. \A s \in Session : s # t => out'[s] = out[s]
  BY <1>1
<1>4. out'[t] = out[t] + 1
  BY <1>1
<1> HIDE DEF e
<1>5. ASSUME NEW s \in Session
      PROVE  Stream(ans, ev', out'[s], s \in attached, s)
  <2>1. Stream(ans, ev, out[s], s \in attached, s)
    BY DEF FreshInv
  <2>2. CASE t \in attached
    <3>1. /\ e.sid = s => (e.t = "output" => s \in attached /\ e.n = out[s] + 1) /\ (s \in attached => e.n = out'[s])
          /\ e.sid # s => (s \in attached => s \in attached /\ out'[s] = out[s])
      BY <1>2, <1>3, <1>4, <2>2
    <3> QED BY <1>1, <1>2, <2>1, <2>2, <3>1, StreamEvent
  <2>3. CASE t \notin attached
    <3>1. s \in attached => s \in attached /\ out'[s] = out[s]
      BY <1>3, <2>3
    <3>2. Stream(ans, ev, out'[s], s \in attached, s)
      BY <2>1, <3>1, StreamQuiet
    <3> QED BY <1>1, <2>3, <3>2
  <2> QED BY <2>2, <2>3
<1>6. ASSUME NEW s \in Session, link, s \in attached, s \notin skipped
      PROVE  Current(ans, ev', whole[s], last[s], out'[s], s) \/ Pending(req, ans, calls, s)
  <2>1. Current(ans, ev, whole[s], last[s], out[s], s) \/ Pending(req, ans, calls, s)
    BY <1>6 DEF FreshInv, Awaited
  <2>2. CASE Current(ans, ev, whole[s], last[s], out[s], s) /\ s = t
    BY <1>1, <1>2, <1>6, <2>2, CurrentEvent
  <2>3. CASE Current(ans, ev, whole[s], last[s], out[s], s) /\ s # t /\ t \in attached
    <3>1. Current(ans, Append(ev, e), whole[s], last[s], out[s], s)
      BY <1>1, <1>2, <2>3, CurrentEvent
    <3> QED BY <1>1, <1>3, <2>3, <3>1
  <2>4. CASE Current(ans, ev, whole[s], last[s], out[s], s) /\ s # t /\ t \notin attached
    BY <1>1, <1>3, <2>4
  <2> QED BY <2>1, <2>2, <2>3, <2>4
<1> QED BY <1>1, <1>5, <1>6 DEF FreshInv, Awaited

LEMMA FreshExit ==
  ASSUME TypeOK, FreshInv, NEW t \in Session, Exit(t)
  PROVE  FreshInv'
<1> DEFINE e == [t |-> "exited", sid |-> t, n |-> 0]
<1>1. /\ UNCHANGED <<link, calls, whole, last, req, ans, out, skipped>> /\ attached' = attached \ {t}
      /\ ev' = (IF t \in attached THEN Append(ev, e) ELSE ev)
      /\ ev \in Seq(Event) /\ OneId(req, ans) /\ (~link => ans = << >>)
  BY DEF Exit, ExitOf, pageVars, TypeOK, FreshInv
<1>2. e \in Event /\ e.t = "exited" /\ e.sid = t
  BY DEF Event
<1> HIDE DEF e
<1>3. ASSUME NEW s \in Session
      PROVE  Stream(ans, ev', out[s], s \in attached', s)
  <2>1. Stream(ans, ev, out[s], s \in attached, s)
    BY DEF FreshInv
  <2>2. CASE t \in attached
    <3>1. /\ e.sid = s => (e.t = "output" => s \in attached /\ e.n = out[s] + 1) /\ (s \in attached' => e.n = out[s])
          /\ e.sid # s => (s \in attached' => s \in attached /\ out[s] = out[s])
      BY <1>1, <1>2
    <3> QED BY <1>1, <1>2, <2>1, <2>2, <3>1, StreamEvent
  <2>3. CASE t \notin attached
    BY <1>1, <2>1, <2>3
  <2> QED BY <2>2, <2>3
<1>4. ASSUME NEW s \in Session, link, s \in attached', s \notin skipped
      PROVE  Current(ans, ev', whole[s], last[s], out[s], s) \/ Pending(req, ans, calls, s)
  <2>1. s # t /\ (Current(ans, ev, whole[s], last[s], out[s], s) \/ Pending(req, ans, calls, s))
    BY <1>1, <1>4 DEF FreshInv, Awaited
  <2>2. CASE Current(ans, ev, whole[s], last[s], out[s], s) /\ t \in attached
    <3>1. Current(ans, Append(ev, e), whole[s], last[s], out[s], s)
      BY <1>1, <1>2, <2>1, <2>2, CurrentEvent
    <3> QED BY <1>1, <2>2, <3>1
  <2>3. CASE Current(ans, ev, whole[s], last[s], out[s], s) /\ t \notin attached
    BY <1>1, <2>3
  <2> QED BY <2>1, <2>2, <2>3
<1> QED BY <1>1, <1>3, <1>4 DEF FreshInv, Awaited

\* A page that becomes ready starts a bootstrap, which will attach every session.
LEMMA FreshLinkUp ==
  ASSUME TypeOK, FreshInv, LinkUp
  PROVE  FreshInv'
<1>1. /\ UNCHANGED <<ans, ev, whole, last, out, attached, skipped>> /\ link' = TRUE
      /\ Begin("list", None, Call("boot", None, {}, {}))
      /\ ans \in Seq(Frame) /\ req \in Seq(Requests) /\ OneId(req, ans)
  BY DEF LinkUp, pageVars, hostVars, boundVars, TypeOK, Frame, FreshInv
<1> DEFINE c == Call("boot", None, {}, {})
<1>2. c.k = "boot"
  BY DEF Call
<1>3. PICK r \in Id :
        /\ Free(req, ans, r) /\ Resumed(r) /\ calls'[r] = c
        /\ \E x \in Requests : x.op = "list" /\ x.id = r /\ req' = Append(req, x)
  <2>1. Begin("list", None, c) /\ None \in Session \cup {None}
    BY <1>1
  <2> HIDE DEF c
  <2> QED BY <2>1, BeginCalls
<1> HIDE DEF c
<1>4. OneId(req', ans')
  <2>1. Proceeds /\ OneId(req, ans') /\ ans' \in Seq(Frame)
    BY <1>1, <1>3 DEF Proceeds
  <2> QED BY <2>1, Proceeding
<1>5. ASSUME NEW s PROVE Pending(req', ans', calls', s)
  <2>1. PICK x \in Requests : x.op = "list" /\ x.id = r /\ req' = Append(req, x)
    BY <1>3
  <2>2. Asking(x, calls', s)
    BY <1>2, <1>3, <2>1 DEF Asking, BootAsked
  <2> QED BY <1>1, <2>1, <2>2, PendingAsked
<1>6. \A s \in Session : Stream(ans', ev', out'[s], s \in attached', s)
  BY <1>1 DEF FreshInv
<1> QED BY <1>1, <1>4, <1>5, <1>6 DEF FreshInv, Awaited

LEMMA FreshLost ==
  ASSUME TypeOK, FreshInv, LinkLost \/ ManualReconnect
  PROVE  FreshInv'
<1>1. /\ UNCHANGED <<req, ev, out, attached>> /\ link' = FALSE /\ ans' = << >>
      /\ ev \in Seq(Event) /\ OneId(req, ans)
  BY DEF LinkLost, ManualReconnect, hostVars, TypeOK, FreshInv
<1>2. OneId(req, << >>)
  <2>1. Len(<< >>) = 0
    OBVIOUS
  <2> QED BY <1>1, <2>1 DEF OneId
<1>3. ASSUME NEW s \in Session
      PROVE  Stream(<< >>, ev, out[s], s \in attached, s)
  <2>1. Stream(ans, ev, out[s], s \in attached, s)
    BY DEF FreshInv
  <2> QED BY <1>1, <2>1, StreamLost
<1> QED BY <1>1, <1>2, <1>3 DEF FreshInv, Awaited

\* A click starts a function; a render, or nothing at all, leaves everything in flight.
LEMMA FreshQuiet ==
  ASSUME TypeOK, FreshInv,
         ClickTab \/ ClickClose \/ ClickNew \/ Render \/ UNCHANGED vars
  PROVE  FreshInv'
<1>1. /\ UNCHANGED <<link, ans, ev, whole, last, out, attached, skipped>>
      /\ ans \in Seq(Frame) /\ OneId(req, ans) /\ (~link => ans = << >>)
  BY DEF ClickTab, ClickClose, ClickNew, Click, Render, vars, pageVars, hostVars, boundVars, TypeOK, Frame, FreshInv
<1>2. Proceeds
  <2>1. CASE Render \/ UNCHANGED vars
    BY <2>1 DEF Render, vars, Proceeds
  <2>2. \A r : Free(req, ans, r) => Free(req, ans', r)
    BY <1>1
  <2>3. ASSUME NEW op \in {"list", "attach", "create", "kill"}, NEW s \in Session \cup {None}, NEW k, Click(op, s, k)
        PROVE  Proceeds
    <3>1. Begin(op, s, Call(k, s, {}, {}))
      BY <2>3 DEF Click
    <3> QED BY <2>2, <3>1, BeginProceeds
  <2>4. list \subseteq Session
    BY DEF TypeOK
  <2> QED BY <2>1, <2>3, <2>4 DEF ClickTab, ClickClose, ClickNew
<1>3. /\ OneId(req', ans')
      /\ \A s : Pending(req, ans', calls, s) => Pending(req', ans', calls', s)
  <2>1. OneId(req, ans') /\ ans' \in Seq(Frame)
    BY <1>1
  <2> QED BY <1>2, <2>1, Proceeding
<1>4. \A s \in Session : Stream(ans', ev', out'[s], s \in attached', s)
  BY <1>1 DEF FreshInv
<1>5. \A s \in Session : Awaited(s)'
  BY <1>1, <1>3 DEF FreshInv, Awaited
<1> QED BY <1>1, <1>3, <1>4, <1>5 DEF FreshInv

LEMMA InitFresh ==
  ASSUME Init
  PROVE  FreshInv
<1>1. link = FALSE /\ req = << >> /\ ans = << >> /\ ev = << >> /\ attached = {} /\ Len(<< >>) = 0
  BY DEF Init
<1>2. OneId(req, ans)
  BY <1>1 DEF OneId
<1>3. \A s \in Session : Stream(ans, ev, out[s], s \in attached, s)
  BY <1>1 DEF Stream
<1> QED BY <1>1, <1>2, <1>3 DEF FreshInv, Awaited

\* At rest nothing is on its way: what an attached session has shown is all that it wrote.
LEMMA FreshRests ==
  ASSUME TypeOK, FollowInv, FreshInv
  PROVE  UpToDate
<1> SUFFICES ASSUME Calm PROVE /\ \A s \in (list \cap live \cap attached) \ skipped : screen[s] = out[s]
                               /\ list # {} /\ active # None => active \in list
  BY DEF UpToDate
<1>1. link /\ req = << >> /\ ans = << >> /\ ev = << >> /\ list \subseteq mounted /\ Len(<< >>) = 0
  BY DEF Calm, Unrendered
<1>2. ASSUME NEW s \in Session, s \in list, s \in live, s \in attached, s \notin skipped
      PROVE  screen[s] = out[s]
  <2>1. ~Pending(req, ans, calls, s)
    BY <1>1 DEF Pending
  <2>2. Current(ans, ev, whole[s], last[s], out[s], s)
    BY <1>1, <1>2, <2>1 DEF FreshInv, Awaited
  <2>3. whole[s] = out[s]
    BY <1>1, <2>2 DEF Current, Snapped, InStep, Silent
  <2>4. screen[s] = whole[s]
    BY <1>1, <1>2 DEF FollowInv, Followed
  <2> QED BY <2>3, <2>4
<1>3. list # {} /\ active # None => active \in list
  BY DEF Calm, Stray
<1>4. list \subseteq Session
  BY DEF TypeOK
<1> QED BY <1>2, <1>3, <1>4

\* At rest, every attached session that runs and has a tab is shown to its last chunk, after
\* any number of reconnections and whatever was lost, and the active session has a tab
\* (TerminalApp.tsx:200-230, 401-408, docs/protocol.md:95-100).
THEOREM RestsUpToDate == Spec => []UpToDate
<1>1. Init => TypeOK /\ FollowInv /\ FreshInv
  BY InitType, InitFollow, InitFresh
<1>2. TypeOK /\ FollowInv /\ FreshInv /\ [Next]_vars => TypeOK' /\ FollowInv' /\ FreshInv'
  <2> SUFFICES ASSUME TypeOK, FollowInv, FreshInv, [Next]_vars PROVE FreshInv'
    BY NextType, NextFollow
  <2>1. \/ Receive \/ Serve \/ Fanout \/ LinkUp
        \/ LinkLost \/ ManualReconnect
        \/ ClickTab \/ ClickClose \/ ClickNew \/ Render \/ UNCHANGED vars
        \/ \E s \in Session : Output(s) \/ Exit(s)
    BY DEF Next
  <2> QED BY <2>1, FreshReceive, FreshServe, FreshFanout, FreshLinkUp, FreshLost, FreshQuiet, FreshOutput, FreshExit
<1>3. TypeOK /\ FollowInv /\ FreshInv => UpToDate
  BY FreshRests
<1> QED BY <1>1, <1>2, <1>3, PTL DEF Spec


=============================================================================
