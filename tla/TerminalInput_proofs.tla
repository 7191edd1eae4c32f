------------------------ MODULE TerminalInput_proofs ------------------------
(***************************************************************************)
(* Proofs about the keys and sizes of the terminals, for any sessions,     *)
(* windows and fonts.                                                      *)
(***************************************************************************)
EXTENDS TerminalInput, SequenceTheorems, TLAPS

\* The keyboard only ever goes to terminals that exist: a frame is asked for a terminal that
\* has been made, and none is taken away.
FramesMade == \A i \in 1..Len(frames) : frames[i].sid \in mounted

\* What a frame to the daemon must be.
AtHome(f)  == f.t = "key" /\ f.from # None => f.sid = f.from
Homes(s)   == \A i \in 1..Len(s) : AtHome(s[i])

Keyed == TypeOK /\ FramesMade /\ Homes(toD)

-----------------------------------------------------------------------------
(* Sequences.                                                              *)

LEMMA SentFacts ==
  ASSUME toD \in Seq(ToD), Homes(toD), NEW f \in ToD, AtHome(f)
  PROVE  Sent(f) \in Seq(ToD) /\ Homes(Sent(f))
<1>1. CASE link
  <2>1. /\ Append(toD, f) \in Seq(ToD) /\ Len(Append(toD, f)) = Len(toD) + 1 /\ Len(toD) \in Nat
        /\ \A i \in 1..Len(toD) : Append(toD, f)[i] = toD[i]
        /\ Append(toD, f)[Len(toD) + 1] = f
    BY AppendProperties, LenProperties
  <2>2. \A i \in 1..Len(Append(toD, f)) : i \in 1..Len(toD) \/ i = Len(toD) + 1
    BY <2>1
  <2>3. Homes(Append(toD, f))
    BY <2>1, <2>2 DEF Homes
  <2> QED BY <1>1, <2>1, <2>3 DEF Sent
<1>2. CASE ~link
  BY <1>2 DEF Sent
<1> QED BY <1>1, <1>2

LEMMA CutFacts ==
  ASSUME toD \in Seq(ToD), Homes(toD), NEW n \in 0..Len(toD)
  PROVE  SubSeq(toD, 1, n) \in Seq(ToD) /\ Homes(SubSeq(toD, 1, n))
<1>1. Len(toD) \in Nat
  BY LenProperties
<1>2. \A i \in 1..n : toD[i] \in ToD
  BY <1>1, ElementOfSeq
<1>3. /\ SubSeq(toD, 1, n) \in Seq(ToD) /\ Len(SubSeq(toD, 1, n)) = n
      /\ \A i \in 1..n : SubSeq(toD, 1, n)[i] = toD[i]
  <2>1. /\ SubSeq(toD, 1, n) \in Seq(ToD)
        /\ Len(SubSeq(toD, 1, n)) = IF 1 <= n THEN n - 1 + 1 ELSE 0
        /\ \A i \in 1..n - 1 + 1 : SubSeq(toD, 1, n)[i] = toD[1 + i - 1]
    BY <1>1, <1>2, SubSeqProperties
  <2>2. n \in Nat /\ n - 1 + 1 = n /\ (~(1 <= n) => n = 0) /\ \A i \in 1..n : 1 + i - 1 = i
    BY <1>1
  <2> QED BY <2>1, <2>2
<1> QED BY <1>1, <1>3 DEF Homes

LEMMA TailFacts ==
  ASSUME toD \in Seq(ToD), Homes(toD), toD # << >>
  PROVE  Tail(toD) \in Seq(ToD) /\ Homes(Tail(toD)) /\ Head(toD) \in ToD
<1>1. /\ Tail(toD) \in Seq(ToD) /\ Head(toD) \in ToD /\ Len(Tail(toD)) = Len(toD) - 1
      /\ \A i \in 1..Len(Tail(toD)) : Tail(toD)[i] = toD[i + 1]
  BY HeadTailProperties
<1>2. \A i \in 1..Len(Tail(toD)) : i + 1 \in 1..Len(toD)
  BY <1>1, LenProperties
<1> QED BY <1>1, <1>2 DEF Homes

-----------------------------------------------------------------------------
(* The constants.                                                          *)

LEMMA FontFacts ==
  /\ Slider \subseteq Font /\ Unfit \in Size /\ MaxActs \in Nat
  /\ \A w \in Window, n \in Font : <<w, n>> \in Size
BY FontsAssumption DEF Font, Size

LEMMA ResizeFacts ==
  ASSUME NEW s \in Session, NEW z \in Size
  PROVE  /\ [t |-> "resize", sid |-> s, size |-> z] \in ToD
         /\ AtHome([t |-> "resize", sid |-> s, size |-> z])
BY DEF ToD, AtHome

LEMMA KeyFacts ==
  ASSUME NEW s \in Session, NEW g \in {s, None}
  PROVE  /\ [t |-> "key", sid |-> s, from |-> g] \in ToD
         /\ AtHome([t |-> "key", sid |-> s, from |-> g])
BY DEF ToD, AtHome

LEMMA FittedType ==
  ASSUME TypeOK, NEW s \in Session
  PROVE  Fitted(s) \in Size
BY FontFacts DEF Fitted, TypeOK

-----------------------------------------------------------------------------
(* The steps.                                                              *)

LEMMA InitKeyed ==
  ASSUME Init
  PROVE  Keyed
<1>1. frames = << >> /\ toD = << >> /\ Len(frames) = 0 /\ Len(toD) = 0
      /\ frames \in Seq(Frame) /\ toD \in Seq(ToD)
  BY EmptySeq DEF Init
<1>2. FramesMade /\ Homes(toD)
  BY <1>1 DEF FramesMade, Homes
<1>3. font \in Font /\ acts \in 0..MaxActs
  BY FontFacts DEF Init
<1>4. tfont \in [Session -> Font] /\ size \in [Session -> Size] /\ pty \in [Session -> Size]
  BY <1>3, FontFacts DEF Init
<1>5. TypeOK
  BY <1>1, <1>3, <1>4 DEF Init, TypeOK
<1> QED BY <1>2, <1>5 DEF Keyed

\* What happens to the sessions, the link and the pages' settings sends nothing.
LEMMA Unsent ==
  ASSUME Keyed, Act \/ UNCHANGED acts,
         UNCHANGED <<frames, tfont, size>>, mounted' = mounted, focus' \in {focus, None},
         win' \in Window, font' \in Font, takeover' \in BOOLEAN,
         list' \subseteq Session, active' \in Session \cup {None}, ended' \subseteq mounted,
         render' \in BOOLEAN, observe' \in BOOLEAN,
         link' \in BOOLEAN, due' \in {"no", "boot", "refetch"}, rest' \subseteq Session,
         live' \subseteq Session, gone' \subseteq Session, pty' \in [Session -> Size],
         toD' \in Seq(ToD), Homes(toD')
  PROVE  Keyed'
<1>1. acts' \in 0..MaxActs
  BY FontFacts DEF Keyed, TypeOK, Act
<1> QED BY <1>1 DEF Keyed, TypeOK, FramesMade

LEMMA WindowSteps ==
  ASSUME Keyed, WindowChanges \/ SetFont \/ ModeButton \/ FocusLine
  PROVE  Keyed'
<1>1. /\ toD' = toD /\ Act
      /\ UNCHANGED <<frames, tfont, size, mounted, list, active, ended, render, linkVars, hostVars>>
      /\ focus' \in {focus, None} /\ observe' \in {observe, TRUE}
  BY DEF WindowChanges, SetFont, ModeButton, FocusLine, tabVars, termVars, loopVars
<1>2. win' \in Window /\ font' \in Font
  BY FontFacts DEF Keyed, TypeOK, WindowChanges, SetFont, ModeButton, FocusLine
<1>3. takeover' \in BOOLEAN
  BY DEF Keyed, TypeOK, WindowChanges, SetFont, ModeButton, FocusLine
<1> QED BY <1>1, <1>2, <1>3, Unsent DEF Keyed, TypeOK, linkVars, hostVars

LEMMA ObservedStep ==
  ASSUME Keyed, Observed
  PROVE  Keyed'
<1>1. UNCHANGED <<domVars, tabVars, tfont, focus, render, frames, linkVars, hostVars, acts>>
      /\ observe' = FALSE
  BY DEF Observed
<1>2. size' \in [Session -> Size] /\ toD' \in Seq(ToD) /\ Homes(toD')
  <2>1. CASE UNCHANGED <<size, toD>>
    BY <2>1 DEF Keyed, TypeOK
  <2>2. CASE /\ active \in mounted /\ size' = [size EXCEPT ![active] = Fitted(active)]
             /\ toD' = Sent([t |-> "resize", sid |-> active, size |-> size'[active]])
    <3>1. active \in Session
      BY <2>2 DEF Keyed, TypeOK
    <3>2. size' \in [Session -> Size] /\ size'[active] \in Size
      BY <2>2, <3>1, FittedType DEF Keyed, TypeOK
    <3> QED BY <2>2, <3>1, <3>2, ResizeFacts, SentFacts DEF Keyed, TypeOK
  <2> QED BY <2>1, <2>2 DEF Observed
<1> QED BY <1>1, <1>2 DEF Keyed, TypeOK, FramesMade, domVars, tabVars, linkVars, hostVars

LEMMA AdjustFontStep ==
  ASSUME Keyed, AdjustFont
  PROVE  Keyed'
<1>1. UNCHANGED <<win, takeover, tabVars, focus, loopVars, linkVars, hostVars>>
  BY DEF AdjustFont
<1>2. font' \in Font
  <2>1. PICK n \in {font - 1, font + 1} : font' = Clamped(n)
    BY DEF AdjustFont
  <2> QED BY <2>1, FontsAssumption DEF Keyed, TypeOK, Clamped, Font
<1>3. tfont' \in [Session -> Font]
  BY <1>2 DEF AdjustFont, Keyed, TypeOK
<1>4. size' \in [Session -> Size]
  BY <1>2, FontFacts DEF AdjustFont, Keyed, TypeOK
<1>5. toD' \in Seq(ToD) /\ Homes(toD')
  <2>1. CASE active \in mounted
    <3>1. active \in Session /\ size'[active] \in Size
      BY <1>4, <2>1 DEF Keyed, TypeOK
    <3>2. toD' = Sent([t |-> "resize", sid |-> active, size |-> size'[active]])
      BY <2>1 DEF AdjustFont
    <3> QED BY <3>1, <3>2, ResizeFacts, SentFacts DEF Keyed, TypeOK
  <2>2. CASE active \notin mounted
    BY <2>2 DEF AdjustFont, Keyed, TypeOK
  <2> QED BY <2>1, <2>2
<1>6. acts' \in 0..MaxActs
  BY FontFacts DEF AdjustFont, Act, Keyed, TypeOK
<1> QED BY <1>1, <1>2, <1>3, <1>4, <1>5, <1>6
    DEF Keyed, TypeOK, FramesMade, tabVars, loopVars, linkVars, hostVars

LEMMA RenderStep ==
  ASSUME Keyed, Render
  PROVE  Keyed'
<1>1. /\ mounted' = mounted \cup list /\ frames' = frames \o Mounts(active) \o Effect(active)
      /\ UNCHANGED <<domVars, list, ended, size, focus, observe, linkVars, toD, hostVars, acts>>
      /\ active' = active \/ active' \in list
  BY DEF Render
<1>2. mounted' \subseteq Session /\ mounted \subseteq mounted' /\ active' \in Session \cup {None}
  BY <1>1 DEF Keyed, TypeOK
<1>3. tfont' \in [Session -> Font] /\ render' \in BOOLEAN
  BY DEF Render, Keyed, TypeOK
<1> DEFINE M == [sid : mounted', send : BOOLEAN]
<1>4. frames \in Seq(M)
  <2>1. \A i \in 1..Len(frames) : frames[i] \in M
    <3> SUFFICES ASSUME NEW i \in 1..Len(frames) PROVE frames[i] \in M
      OBVIOUS
    <3>1. frames[i] \in Frame /\ frames[i].sid \in mounted'
      BY <1>2, ElementOfSeq DEF Keyed, TypeOK, FramesMade
    <3> QED BY <3>1 DEF Frame
  <2>2. \E n \in Nat : frames \in [1..n -> Frame] /\ Len(frames) = n
    BY LenProperties DEF Keyed, TypeOK
  <2>3. frames \in [1..Len(frames) -> M] /\ Len(frames) \in Nat
    BY <2>1, <2>2
  <2> QED BY <2>3, SeqDef
<1>5. Mounts(active) \in Seq(M) /\ Effect(active) \in Seq(M)
  <2>1. << >> \in Seq(M)
    BY EmptySeq
  <2>2. ASSUME NEW e \in M PROVE <<e>> \in Seq(M)
    BY <2>2
  <2>3. Mounts(active) \in Seq(M)
    <3>1. CASE active \in list \ mounted
      <4>1. [sid |-> active, send |-> FALSE] \in M
        BY <1>1, <3>1
      <4> QED BY <2>2, <3>1, <4>1 DEF Mounts
    <3>2. CASE active \notin list \ mounted
      BY <2>1, <3>2 DEF Mounts
    <3> QED BY <3>1, <3>2
  <2>4. Effect(active) \in Seq(M)
    <3>1. CASE active \in mounted'
      <4>1. [sid |-> active, send |-> TRUE] \in M
        BY <3>1
      <4> QED BY <2>2, <3>1, <4>1 DEF Effect
    <3>2. CASE active \notin mounted'
      BY <2>1, <3>2 DEF Effect
    <3> QED BY <3>1, <3>2
  <2> QED BY <2>3, <2>4
<1>6. frames' \in Seq(M)
  BY <1>1, <1>4, <1>5, ConcatProperties
<1>7. FramesMade'
  <2>1. \A i \in 1..Len(frames') : frames'[i] \in M
    BY <1>6, ElementOfSeq
  <2>2. \A i \in 1..Len(frames') : frames'[i].sid \in mounted'
    BY <2>1
  <2> QED BY <2>2 DEF FramesMade
<1>8. frames' \in Seq(Frame)
  <2>1. M \subseteq Frame
    BY <1>2 DEF Frame
  <2>2. \A i \in 1..Len(frames') : frames'[i] \in Frame
    BY <1>6, <2>1, ElementOfSeq
  <2>3. \E n \in Nat : frames' \in [1..n -> M] /\ Len(frames') = n
    BY <1>6, LenProperties
  <2>4. frames' \in [1..Len(frames') -> Frame] /\ Len(frames') \in Nat
    BY <2>2, <2>3
  <2> QED BY <2>4, SeqDef
<1> HIDE DEF M
<1> QED BY <1>1, <1>2, <1>3, <1>7, <1>8 DEF Keyed, TypeOK, domVars, linkVars, hostVars

LEMMA AnimateStep ==
  ASSUME Keyed, Animate
  PROVE  Keyed'
<1> DEFINE f == Head(frames)
<1>1. /\ frames # << >> /\ frames' = Tail(frames) /\ focus' = f.sid
      /\ size' = [size EXCEPT ![f.sid] = Fitted(f.sid)]
      /\ toD' = IF f.send /\ f.sid \notin ended
                THEN Sent([t |-> "resize", sid |-> f.sid, size |-> size'[f.sid]]) ELSE toD
      /\ UNCHANGED <<domVars, tabVars, tfont, render, observe, linkVars, hostVars, acts>>
  BY DEF Animate
<1>2. /\ frames' \in Seq(Frame) /\ Len(frames') = Len(frames) - 1 /\ f = frames[1]
      /\ Len(frames) \in Nat /\ Len(frames) # 0 /\ \A i \in 1..Len(frames') : frames'[i] = frames[i + 1]
  BY <1>1, HeadTailProperties, LenProperties, EmptySeq DEF Keyed, TypeOK
<1>3. f.sid \in mounted /\ f.sid \in Session
  <2>1. 1 \in 1..Len(frames)
    BY <1>2
  <2> QED BY <1>2, <2>1 DEF Keyed, TypeOK, FramesMade
<1> HIDE DEF f
<1>4. FramesMade'
  <2>1. \A i \in 1..Len(frames') : i + 1 \in 1..Len(frames)
    BY <1>2
  <2> QED BY <1>1, <1>2, <2>1 DEF Keyed, FramesMade, tabVars
<1>5. size' \in [Session -> Size] /\ size'[f.sid] \in Size
  BY <1>1, <1>3, FittedType DEF Keyed, TypeOK
<1>6. toD' \in Seq(ToD) /\ Homes(toD')
  <2>1. CASE toD' = Sent([t |-> "resize", sid |-> f.sid, size |-> size'[f.sid]])
    BY <1>3, <1>5, <2>1, ResizeFacts, SentFacts DEF Keyed, TypeOK
  <2>2. CASE toD' = toD
    BY <2>2 DEF Keyed, TypeOK
  <2> QED BY <1>1, <2>1, <2>2
<1> QED BY <1>1, <1>2, <1>3, <1>4, <1>5, <1>6
    DEF Keyed, TypeOK, domVars, tabVars, linkVars, hostVars

\* A key of a terminal goes to its session, and only while it is the active one; the keys
\* of the page's own buttons come from no terminal.
LEMMA KeySteps ==
  ASSUME Keyed, Type \/ PauseKey \/ BarKey \/ SendLine
  PROVE  Keyed'
<1>1. /\ Act /\ UNCHANGED <<domVars, tabVars, termVars, loopVars, linkVars, hostVars>>
      /\ \/ toD' = toD
         \/ \E s \in Session, g \in Session \cup {None} :
              g \in {s, None} /\ toD' = Sent([t |-> "key", sid |-> s, from |-> g])
  <2>1. CASE Type
    <3>1. focus \in Session
      BY <2>1 DEF Type, Keyed, TypeOK
    <3> QED BY <2>1, <3>1 DEF Type
  <2>2. CASE PauseKey \/ BarKey \/ SendLine
    <3>1. active \in Session
      BY <2>2 DEF PauseKey, BarKey, SendLine, Raw, Keyed, TypeOK
    <3> QED BY <2>2, <3>1 DEF PauseKey, BarKey, SendLine, Raw
  <2> QED BY <2>1, <2>2
<1>2. toD' \in Seq(ToD) /\ Homes(toD')
  <2>1. CASE toD' = toD
    BY <2>1 DEF Keyed, TypeOK
  <2>2. ASSUME NEW s \in Session, NEW g \in {s, None}, toD' = Sent([t |-> "key", sid |-> s, from |-> g])
        PROVE  toD' \in Seq(ToD) /\ Homes(toD')
    BY <2>2, KeyFacts, SentFacts DEF Keyed, TypeOK
  <2> QED BY <1>1, <2>1, <2>2
<1> QED BY <1>1, <1>2, Unsent DEF Keyed, TypeOK, domVars, tabVars, termVars, loopVars, linkVars, hostVars

LEMMA ShowType ==
  ASSUME Keyed, NEW s \in Session, Show(s)
  PROVE  active' \in Session \cup {None} /\ ended' \subseteq mounted /\ render' \in BOOLEAN
BY DEF Show, Keyed, TypeOK

LEMMA SessionSteps ==
  ASSUME Keyed, \/ LinkUp \/ LinkLost \/ Listed \/ BootAttach \/ ClickTab \/ Create
                \/ Exit \/ Exited \/ DaemonRecv \/ OtherViewer
  PROVE  Keyed'
<1>1. CASE LinkUp \/ Listed \/ Exit \/ Exited
  <2>1. /\ Act \/ UNCHANGED acts
        /\ UNCHANGED <<domVars, active, mounted, termVars, observe, frames, toD, pty>>
    BY <1>1 DEF LinkUp, Listed, Exit, Exited, tabVars, loopVars, hostVars
  <2>2. list' \subseteq Session /\ ended' \subseteq mounted /\ rest' \subseteq Session
        /\ live' \subseteq Session /\ gone' \subseteq Session
    BY <1>1 DEF LinkUp, Listed, Exit, Exited, Keyed, TypeOK, tabVars, linkVars, hostVars
  <2>3. render' \in BOOLEAN /\ link' \in BOOLEAN /\ due' \in {"no", "boot", "refetch"}
    BY <1>1 DEF LinkUp, Listed, Exit, Exited, Keyed, TypeOK, loopVars, linkVars
  <2> QED BY <2>1, <2>2, <2>3, Unsent DEF Keyed, TypeOK, domVars, termVars
<1>2. CASE LinkLost
  <2>1. PICK n \in 0..Len(toD) : toD' = SubSeq(toD, 1, n)
    BY <1>2 DEF LinkLost
  <2>2. toD' \in Seq(ToD) /\ Homes(toD')
    BY <2>1, CutFacts DEF Keyed, TypeOK
  <2> QED BY <1>2, <2>2, Unsent DEF LinkLost, Keyed, TypeOK, domVars, tabVars, termVars, loopVars
<1>3. CASE BootAttach \/ ClickTab
  <2>1. PICK s \in Session : Show(s)
    BY <1>3 DEF BootAttach, ClickTab, Keyed, TypeOK
  <2>2. rest' \subseteq Session /\ (Act \/ UNCHANGED acts)
    BY <1>3 DEF BootAttach, ClickTab, Keyed, TypeOK, linkVars
  <2>3. UNCHANGED <<domVars, list, mounted, termVars, observe, frames, link, due, toD, hostVars>>
    BY <1>3 DEF BootAttach, ClickTab, linkVars
  <2> QED BY <2>1, <2>2, <2>3, ShowType, Unsent DEF Keyed, TypeOK, domVars, termVars, hostVars
<1>4. CASE Create
  <2>1. PICK s \in Session : /\ live' = live \cup {s} /\ rest' = rest \cup {s}
                             /\ pty' = [pty EXCEPT ![s] = IF active \in mounted THEN size[active] ELSE Unfit]
    BY <1>4 DEF Create
  <2>2. (IF active \in mounted THEN size[active] ELSE Unfit) \in Size
    BY FontFacts DEF Keyed, TypeOK
  <2>3. pty' \in [Session -> Size]
    BY <2>1, <2>2 DEF Keyed, TypeOK
  <2>4. /\ live' \subseteq Session /\ rest' \subseteq Session /\ due' = "refetch" /\ Act
        /\ UNCHANGED <<domVars, tabVars, termVars, loopVars, link, toD, gone>>
    BY <1>4, <2>1 DEF Create, Keyed, TypeOK
  <2> QED BY <2>3, <2>4, Unsent DEF Keyed, TypeOK, domVars, tabVars, termVars, loopVars
<1>5. CASE DaemonRecv
  <2>1. toD # << >> /\ toD' = Tail(toD)
        /\ UNCHANGED <<domVars, tabVars, termVars, loopVars, linkVars, live, gone, acts>>
    BY <1>5 DEF DaemonRecv
  <2>2. toD' \in Seq(ToD) /\ Homes(toD') /\ Head(toD) \in ToD
    BY <2>1, TailFacts DEF Keyed, TypeOK
  <2>3. pty' \in [Session -> Size]
    <3>1. Head(toD).t = "resize" => Head(toD).size \in Size /\ Head(toD).sid \in Session
      BY <2>2 DEF ToD
    <3> QED BY <1>5, <3>1 DEF DaemonRecv, Keyed, TypeOK
  <2> QED BY <2>1, <2>2, <2>3, Unsent DEF Keyed, TypeOK, domVars, tabVars, termVars, loopVars, linkVars
<1>6. CASE OtherViewer
  <2>1. pty' \in [Session -> Size]
    BY <1>6, FontFacts DEF OtherViewer, Keyed, TypeOK
  <2>2. Act /\ UNCHANGED <<domVars, tabVars, termVars, loopVars, linkVars, toD, live, gone>>
    BY <1>6 DEF OtherViewer
  <2> QED BY <2>1, <2>2, Unsent DEF Keyed, TypeOK, domVars, tabVars, termVars, loopVars, linkVars
<1> QED BY <1>1, <1>2, <1>3, <1>4, <1>5, <1>6

LEMMA KeyedStep ==
  ASSUME Keyed, [Next]_vars
  PROVE  Keyed'
<1>1. CASE UNCHANGED vars
  <2>1. UNCHANGED <<win, font, takeover, list, active, mounted, ended, tfont, size, focus, render,
                    observe, frames, link, due, rest, toD, live, gone, pty, acts>>
    BY <1>1 DEF vars, domVars, tabVars, termVars, loopVars, linkVars, hostVars
  <2> QED BY <2>1 DEF Keyed, TypeOK, FramesMade
<1> QED BY <1>1, WindowSteps, ObservedStep, AdjustFontStep, RenderStep, AnimateStep, KeySteps,
           SessionSteps DEF Next

LEMMA KeyedAlways == Spec => []Keyed
BY InitKeyed, KeyedStep, PTL DEF Spec

\* Every variable of the page keeps its type: the font stays between the bounds of
\* adjustFont, and the keyboard in a terminal that exists (TerminalApp.tsx:147-161).
THEOREM TypeCorrect == Spec => []TypeOK
<1>1. Keyed => TypeOK
  BY DEF Keyed
<1> QED BY <1>1, KeyedAlways, PTL

\* A key typed in a terminal never reaches another session (TerminalApp.tsx:437-454).
THEOREM KeysStayHome == Spec => []InputHome
<1>1. Keyed => InputHome
  BY DEF Keyed, Homes, AtHome, InputHome
<1> QED BY <1>1, KeyedAlways, PTL


-----------------------------------------------------------------------------
(* Sizes: the inductive invariant.                                         *)

IsResize(f, s) == f.t = "resize" /\ f.sid = s

\* The size session s has when the daemon has read the queue q: the last one that q
\* carries, or the one its PTY has.
Told(q, p, s, z) ==
  \/ p[s] = z /\ \A i \in 1..Len(q) : ~IsResize(q[i], s)
  \/ \E i \in 1..Len(q) : /\ IsResize(q[i], s) /\ q[i].size = z
                          /\ \A j \in (i+1)..Len(q) : ~IsResize(q[j], s)

\* A frame that fits without telling is followed by one that tells.
Paired(q) ==
  \A i \in 1..Len(q) :
    q[i].send \/ (i + 1 \in 1..Len(q) /\ q[i+1].sid = q[i].sid /\ q[i+1].send)

\* No render and no frame that tells is due for the active session.
Settled == ~render /\ \A i \in 1..Len(frames) : ~(frames[i].sid = active /\ frames[i].send)

Made    == ~render => list \subseteq mounted
Ends    == ended \cap live = {} /\ gone \cap live = {}
FitInv  == Settled /\ ~observe /\ active \in list => size[active] = <<win, tfont[active]>>
ToldInv == Settled /\ link /\ due = "no" /\ active \in list \cap live =>
             Told(toD, pty, active, size[active])

Sized == Made /\ Ends /\ Paired(frames) /\ FitInv /\ ToldInv

-----------------------------------------------------------------------------
(* What a queue tells.                                                     *)

LEMMA AppendAt ==
  ASSUME NEW S, NEW q \in Seq(S), NEW f
  PROVE  /\ Len(q) \in Nat /\ Len(Append(q, f)) = Len(q) + 1 /\ Append(q, f)[Len(q) + 1] = f
         /\ \A i \in 1..Len(q) : Append(q, f)[i] = q[i]
OBVIOUS

LEMMA ToldNew ==
  ASSUME NEW S, NEW q \in Seq(S), NEW p, NEW s, NEW f, IsResize(f, s)
  PROVE  Told(Append(q, f), p, s, f.size)
<1> DEFINE r == Append(q, f)
<1>1. Len(q) \in Nat /\ Len(r) = Len(q) + 1 /\ r[Len(q) + 1] = f
  BY AppendAt
<1> HIDE DEF r
<1>2. Len(q) + 1 \in 1..Len(r) /\ \A j \in ((Len(q) + 1) + 1)..Len(r) : FALSE
  BY <1>1
<1>3. Told(r, p, s, f.size)
  BY <1>1, <1>2 DEF Told
<1> QED BY <1>3 DEF r

LEMMA ToldOther ==
  ASSUME NEW S, NEW q \in Seq(S), NEW p, NEW s, NEW z, NEW f, ~IsResize(f, s), Told(q, p, s, z)
  PROVE  Told(Append(q, f), p, s, z)
<1> DEFINE r == Append(q, f)
<1>1. /\ Len(q) \in Nat /\ Len(r) = Len(q) + 1 /\ r[Len(q) + 1] = f
      /\ \A i \in 1..Len(q) : r[i] = q[i]
  BY AppendAt
<1> HIDE DEF r
<1>2. ASSUME NEW k \in Nat, \A j \in (k+1)..Len(q) : ~IsResize(q[j], s)
      PROVE  \A j \in (k+1)..Len(r) : ~IsResize(r[j], s)
  <2>1. ASSUME NEW j \in (k+1)..Len(r) PROVE ~IsResize(r[j], s)
    <3>1. CASE j = Len(q) + 1
      BY <1>1, <3>1
    <3>2. CASE j # Len(q) + 1
      <4>1. j \in (k+1)..Len(q) /\ j \in 1..Len(q)
        BY <1>1, <3>2
      <4> QED BY <1>1, <1>2, <4>1
    <3> QED BY <3>1, <3>2
  <2> QED BY <2>1
<1>3. CASE p[s] = z /\ \A i \in 1..Len(q) : ~IsResize(q[i], s)
  <2>0. 0 \in Nat /\ \A j \in (0+1)..Len(q) : ~IsResize(q[j], s)
    BY <1>3
  <2>1. \A j \in (0+1)..Len(r) : ~IsResize(r[j], s)
    BY <1>2, <2>0
  <2>2. \A j \in 1..Len(r) : ~IsResize(r[j], s)
    BY <2>1
  <2>3. Told(r, p, s, z)
    BY <1>3, <2>2 DEF Told
  <2> QED BY <2>3 DEF r
<1>4. ASSUME NEW i \in 1..Len(q), IsResize(q[i], s), q[i].size = z,
             \A j \in (i+1)..Len(q) : ~IsResize(q[j], s)
      PROVE  Told(r, p, s, z)
  <2>1. i \in 1..Len(r) /\ r[i] = q[i]
    BY <1>1
  <2> QED BY <1>2, <1>4, <2>1 DEF Told
<1> QED BY <1>3, <1>4 DEF Told, r

\* The daemon reads the first frame.
LEMMA ToldTail ==
  ASSUME NEW S, NEW q \in Seq(S), q # << >>, NEW p, NEW p2, NEW s, NEW z, Told(q, p, s, z),
         p2[s] = IF IsResize(Head(q), s) THEN Head(q).size ELSE p[s]
  PROVE  Told(Tail(q), p2, s, z)
<1> DEFINE r == Tail(q)
<1>1. /\ Len(q) \in Nat /\ Len(q) >= 1 /\ Head(q) = q[1]
      /\ Len(r) = Len(q) - 1 /\ \A i \in 1..Len(r) : r[i] = q[i+1]
  BY HeadTailProperties, EmptySeq
<1> HIDE DEF r
<1>2. ASSUME NEW k \in Nat, \A j \in (k+1)..Len(q) : ~IsResize(q[j], s)
      PROVE  \A j \in 1..Len(r) : j >= k => ~IsResize(r[j], s)
  <2>1. ASSUME NEW j \in 1..Len(r), j >= k PROVE ~IsResize(r[j], s)
    <3>1. j + 1 \in (k+1)..Len(q)
      BY <1>1, <2>1
    <3> QED BY <1>1, <1>2, <3>1
  <2> QED BY <2>1
<1>3. CASE p[s] = z /\ \A i \in 1..Len(q) : ~IsResize(q[i], s)
  <2>1. 1 \in 1..Len(q) /\ \A i \in 1..Len(r) : i + 1 \in 1..Len(q)
    BY <1>1
  <2>2. ~IsResize(Head(q), s) /\ \A i \in 1..Len(r) : ~IsResize(r[i], s)
    BY <1>1, <1>3, <2>1
  <2>3. Told(r, p2, s, z)
    BY <1>3, <2>2 DEF Told
  <2> QED BY <2>3 DEF r
<1>4. ASSUME NEW i \in 1..Len(q), IsResize(q[i], s), q[i].size = z,
             \A j \in (i+1)..Len(q) : ~IsResize(q[j], s)
      PROVE  Told(r, p2, s, z)
  <2>1. \A j \in 1..Len(r) : j >= i => ~IsResize(r[j], s)
    BY <1>2, <1>4
  <2>2. CASE i = 1
    <3>1. \A j \in 1..Len(r) : j >= i
      BY <2>2
    <3> QED BY <1>1, <1>4, <2>1, <2>2, <3>1 DEF Told
  <2>3. CASE i # 1
    <3>1. i - 1 \in 1..Len(r) /\ r[i-1] = q[i]
      BY <1>1, <2>3
    <3>2. \A j \in ((i-1)+1)..Len(r) : j \in 1..Len(r) /\ j >= i
      BY <1>1, <2>3
    <3> QED BY <1>4, <2>1, <3>1, <3>2 DEF Told
  <2> QED BY <2>2, <2>3
<1> QED BY <1>3, <1>4 DEF Told, r

LEMMA ToldEmpty ==
  ASSUME NEW p, NEW s, NEW z, Told(<< >>, p, s, z)
  PROVE  p[s] = z
BY DEF Told

-----------------------------------------------------------------------------
(* Frames asked for.                                                       *)

LEMMA PairedTail ==
  ASSUME NEW S, NEW q \in Seq(S), q # << >>, Paired(q)
  PROVE  Paired(Tail(q)) /\ (~Head(q).send => \E i \in 1..Len(Tail(q)) :
                               Tail(q)[i].sid = Head(q).sid /\ Tail(q)[i].send)
<1> DEFINE r == Tail(q)
<1>1. /\ Len(q) \in Nat /\ Len(q) >= 1 /\ Head(q) = q[1]
      /\ Len(r) = Len(q) - 1 /\ \A i \in 1..Len(r) : r[i] = q[i+1]
  BY HeadTailProperties, EmptySeq
<1> HIDE DEF r
<1>2. ASSUME NEW i \in 1..Len(r)
      PROVE  r[i].send \/ (i + 1 \in 1..Len(r) /\ r[i+1].sid = r[i].sid /\ r[i+1].send)
  <2>1. i + 1 \in 1..Len(q) /\ ((i + 1) + 1 \in 1..Len(q) => i + 1 \in 1..Len(r))
    BY <1>1
  <2> QED BY <1>1, <2>1 DEF Paired
<1>3. ASSUME ~Head(q).send
      PROVE  1 \in 1..Len(r) /\ r[1].sid = Head(q).sid /\ r[1].send
  <2>1. 1 \in 1..Len(q) /\ (1 + 1 \in 1..Len(q) => 1 \in 1..Len(r)) /\ 1 + 1 = 2
    BY <1>1
  <2> QED BY <1>1, <1>3, <2>1 DEF Paired
<1>4. Paired(r) /\ (~Head(q).send => \E i \in 1..Len(r) : r[i].sid = Head(q).sid /\ r[i].send)
  BY <1>2, <1>3 DEF Paired
<1> QED BY <1>4 DEF r

LEMMA PairedTell ==
  ASSUME NEW S, NEW q \in Seq(S), Paired(q), NEW s
  PROVE  /\ Paired(Append(q, [sid |-> s, send |-> TRUE]))
         /\ Paired(Append(Append(q, [sid |-> s, send |-> FALSE]), [sid |-> s, send |-> TRUE]))
<1> DEFINE a == [sid |-> s, send |-> FALSE]
           b == [sid |-> s, send |-> TRUE]
           r == Append(q, b)
           u == Append(q, a)
           v == Append(u, b)
<1>0. ~a.send /\ b.send /\ a.sid = s /\ b.sid = s
  OBVIOUS
<1>1. /\ Len(q) \in Nat /\ Len(r) = Len(q) + 1 /\ r[Len(q) + 1] = b
      /\ \A i \in 1..Len(q) : r[i] = q[i]
  BY AppendAt
<1>2. /\ Len(u) = Len(q) + 1 /\ u[Len(q) + 1] = a
      /\ \A i \in 1..Len(q) : u[i] = q[i]
  BY AppendAt
<1>3. u \in Seq(S \cup {a})
  <2>1. q \in Seq(S \cup {a})
    BY SeqMonotonic
  <2> QED BY <2>1, AppendProperties
<1>4. /\ Len(v) = Len(u) + 1 /\ v[Len(u) + 1] = b
      /\ \A i \in 1..Len(u) : v[i] = u[i]
  BY <1>3, AppendAt
<1> HIDE DEF a, b, r, u, v
<1>5. Paired(r)
  <2>1. ASSUME NEW i \in 1..Len(r)
        PROVE  r[i].send \/ (i + 1 \in 1..Len(r) /\ r[i+1].sid = r[i].sid /\ r[i+1].send)
    <3>1. CASE i = Len(q) + 1
      BY <1>0, <1>1, <3>1
    <3>2. CASE i # Len(q) + 1
      <4>1. i \in 1..Len(q) /\ (i + 1 \in 1..Len(q) => i + 1 \in 1..Len(r))
        BY <1>1, <3>2
      <4> QED BY <1>1, <4>1 DEF Paired
    <3> QED BY <3>1, <3>2
  <2> QED BY <2>1 DEF Paired
<1>6. Paired(v)
  <2>0. /\ Len(v) = Len(q) + 2 /\ v[Len(q) + 1] = a /\ v[Len(q) + 2] = b
        /\ \A i \in 1..Len(q) : v[i] = q[i]
    <3>1. Len(u) + 1 = Len(q) + 2 /\ Len(q) + 1 \in 1..Len(u) /\ \A i \in 1..Len(q) : i \in 1..Len(u)
      BY <1>1, <1>2
    <3> QED BY <1>2, <1>4, <3>1
  <2>1. ASSUME NEW i \in 1..Len(v)
        PROVE  v[i].send \/ (i + 1 \in 1..Len(v) /\ v[i+1].sid = v[i].sid /\ v[i+1].send)
    <3>1. CASE i = Len(q) + 1
      <4>1. i + 1 = Len(q) + 2 /\ i + 1 \in 1..Len(v)
        BY <1>1, <2>0, <3>1
      <4> QED BY <1>0, <2>0, <3>1, <4>1
    <3>2. CASE i = Len(q) + 2
      BY <1>0, <2>0, <3>2
    <3>3. CASE i # Len(q) + 1 /\ i # Len(q) + 2
      <4>1. i \in 1..Len(q) /\ (i + 1 \in 1..Len(q) => i + 1 \in 1..Len(v))
        BY <1>1, <2>0, <3>3
      <4> QED BY <2>0, <4>1 DEF Paired
    <3> QED BY <3>1, <3>2, <3>3
  <2> QED BY <2>1 DEF Paired
<1> QED BY <1>5, <1>6 DEF a, b, r, u, v

-----------------------------------------------------------------------------
(* Sizes: the steps.                                                       *)

LEMMA KeyedFacts ==
  ASSUME Keyed
  PROVE  /\ frames \in Seq(Frame) /\ toD \in Seq(ToD) /\ tfont \in [Session -> Font]
         /\ size \in [Session -> Size] /\ pty \in [Session -> Size]
         /\ list \subseteq Session /\ mounted \subseteq Session /\ live \subseteq Session
BY DEF Keyed, TypeOK

\* Whatever leaves the list, the terminals and the frames alone: a window that changes calls
\* the observer, another active session asks for a render, a link that comes back or a
\* session that is made for a list.
LEMMA SizedKept ==
  ASSUME Keyed, Sized,
         UNCHANGED <<list, mounted, frames, tfont, size>>,
         render => render', observe => observe',
         active' = active \/ render', win' = win \/ observe',
         Ends', link' /\ due' = "no" => link /\ due = "no" /\ live' \subseteq live,
         \A s \in Session : \A z : s \in live /\ link' /\ Told(toD, pty, s, z) => Told(toD', pty', s, z)
  PROVE  Sized'
<1>1. Made' /\ Ends' /\ Paired(frames')
  BY DEF Sized, Made
<1>2. Settled' => Settled /\ active' = active
  BY DEF Settled
<1>3. FitInv'
  BY <1>2 DEF Sized, FitInv
<1>4. ToldInv'
  <2>1. SUFFICES ASSUME Settled', link', due' = "no", active \in list, active \in live', active' = active
                 PROVE  Told(toD', pty', active, size[active])
    BY <1>2 DEF ToldInv
  <2>2. active \in Session /\ active \in live /\ Told(toD, pty, active, size[active])
    BY <1>2, <2>1, KeyedFacts DEF Sized, ToldInv
  <2> QED BY <2>1, <2>2
<1> QED BY <1>1, <1>3, <1>4 DEF Sized

\* A step after which a render is due.
LEMMA SizedRender ==
  ASSUME Sized, Ends', UNCHANGED frames, render'
  PROVE  Sized'
BY DEF Sized, Made, FitInv, ToldInv, Settled

LEMMA SizedWindow ==
  ASSUME Keyed, Sized, WindowChanges \/ SetFont \/ ModeButton \/ FocusLine
  PROVE  Sized'
<1>1. /\ UNCHANGED <<list, mounted, frames, tfont, size, render, active, ended, live, gone, link, due, toD, pty>>
      /\ observe' \in {observe, TRUE} /\ (win' = win \/ observe')
  BY DEF WindowChanges, SetFont, ModeButton, FocusLine, tabVars, termVars, loopVars, linkVars, hostVars
<1>2. Ends'
  BY <1>1 DEF Sized, Ends
<1>3. observe => observe'
  BY <1>1
<1>4. \A s, z : Told(toD, pty, s, z) => Told(toD', pty', s, z)
  BY <1>1
<1> QED BY <1>1, <1>2, <1>3, <1>4, SizedKept

LEMMA SentTells ==
  ASSUME Keyed, link, NEW s \in Session, NEW z,
         toD' = Sent([t |-> "resize", sid |-> s, size |-> z])
  PROVE  Told(toD', pty', s, z)
<1> DEFINE f == [t |-> "resize", sid |-> s, size |-> z]
<1>1. IsResize(f, s) /\ f.size = z /\ toD' = Append(toD, f)
  BY DEF IsResize, Sent
<1> HIDE DEF f
<1>2. toD \in Seq(ToD)
  BY KeyedFacts
<1>3. Told(Append(toD, f), pty', s, f.size)
  BY <1>1, <1>2, ToldNew
<1> QED BY <1>1, <1>3

LEMMA SizedObserved ==
  ASSUME Keyed, Sized, Observed
  PROVE  Sized'
<1>1. /\ UNCHANGED <<win, list, mounted, frames, tfont, render, active, ended, live, gone, link, due, pty>>
      /\ observe /\ observe' = FALSE
  BY DEF Observed, domVars, tabVars, linkVars, hostVars
<1>2. Made' /\ Ends' /\ Paired(frames') /\ (Settled' <=> Settled)
  BY <1>1 DEF Sized, Made, Ends, Settled
<1>3. CASE active \notin mounted \/ Fitted(active) = size[active]
  <2>1. UNCHANGED <<size, toD>>
    BY <1>3 DEF Observed
  <2>2. Settled /\ active \in list => active \in mounted
    BY DEF Sized, Made, Settled
  <2>3. FitInv'
    BY <1>1, <1>2, <1>3, <2>1, <2>2 DEF FitInv, Fitted
  <2>4. ToldInv'
    BY <1>1, <1>2, <2>1 DEF Sized, ToldInv
  <2> QED BY <1>2, <2>3, <2>4 DEF Sized
<1>4. CASE active \in mounted /\ Fitted(active) # size[active]
  <2>1. /\ size' = [size EXCEPT ![active] = Fitted(active)]
        /\ toD' = Sent([t |-> "resize", sid |-> active, size |-> size'[active]])
    BY <1>4 DEF Observed
  <2>2. active \in Session /\ size'[active] = Fitted(active)
    BY <1>4, <2>1, KeyedFacts
  <2>3. FitInv'
    BY <1>1, <2>2 DEF FitInv, Fitted
  <2>4. link => Told(toD', pty', active, size'[active])
    BY <2>1, <2>2, SentTells
  <2>5. ToldInv'
    BY <1>1, <2>4 DEF ToldInv
  <2> QED BY <1>2, <2>3, <2>5 DEF Sized
<1> QED BY <1>3, <1>4

LEMMA SizedAdjustFont ==
  ASSUME Keyed, Sized, AdjustFont
  PROVE  Sized'
<1>1. /\ UNCHANGED <<win, list, mounted, frames, render, observe, active, ended, live, gone, link, due, pty>>
      /\ tfont' = [s \in Session |-> IF s \in mounted THEN font' ELSE tfont[s]]
      /\ size' = [s \in Session |-> IF s \in mounted \cap list THEN <<win, font'>> ELSE size[s]]
      /\ toD' = IF active \in mounted
                THEN Sent([t |-> "resize", sid |-> active, size |-> size'[active]]) ELSE toD
  BY DEF AdjustFont, tabVars, loopVars, linkVars, hostVars
<1>2. Made' /\ Ends' /\ Paired(frames') /\ (Settled' <=> Settled)
  BY <1>1 DEF Sized, Made, Ends, Settled
<1>3. Settled /\ active \in list => active \in mounted /\ active \in Session
  BY KeyedFacts DEF Sized, Made, Settled
<1>4. FitInv'
  BY <1>1, <1>2, <1>3 DEF FitInv
<1>5. active \in mounted /\ link => Told(toD', pty', active, size'[active])
  BY <1>1, SentTells, KeyedFacts
<1>6. ToldInv'
  BY <1>1, <1>2, <1>3, <1>5 DEF ToldInv
<1> QED BY <1>2, <1>4, <1>6 DEF Sized

LEMMA AppendLast ==
  ASSUME NEW S, NEW q \in Seq(S), NEW a, NEW b
  PROVE  /\ q \o << >> \o <<b>> = Append(q, b)
         /\ q \o <<a>> \o <<b>> = Append(Append(q, a), b)
         /\ \E i \in 1..Len(Append(q, b)) : Append(q, b)[i] = b
<1>1. /\ Len(q) \in Nat /\ Len(Append(q, b)) = Len(q) + 1 /\ Append(q, b)[Len(q) + 1] = b
  BY AppendAt
<1>2. \E i \in 1..Len(Append(q, b)) : Append(q, b)[i] = b
  BY <1>1
<1>3. q \o << >> = q
  OBVIOUS
<1>4. q \o <<b>> = Append(q, b) /\ q \o <<a>> = Append(q, a)
  OBVIOUS
<1>5. Append(q, a) \o <<b>> = Append(Append(q, a), b)
  <2>1. q \in Seq(S \cup {a})
    BY SeqMonotonic
  <2>2. Append(q, a) \in Seq(S \cup {a})
    BY <2>1, AppendProperties
  <2> DEFINE r == Append(q, a)
  <2> HIDE DEF r
  <2>3. r \in Seq(S \cup {a}) => r \o <<b>> = Append(r, b)
    OBVIOUS
  <2> QED BY <2>2, <2>3 DEF r
<1> QED BY <1>2, <1>3, <1>4, <1>5

\* After a render the active session has a frame that fits it and tells its size.
LEMMA SizedRenders ==
  ASSUME Keyed, Sized, Render
  PROVE  Sized'
<1>1. /\ mounted' = mounted \cup list /\ frames' = frames \o Mounts(active) \o Effect(active)
      /\ UNCHANGED <<list, ended, live, gone>>
      /\ (~render' => active' = active)
  BY DEF Render, hostVars
<1>2. Made' /\ Ends'
  BY <1>1 DEF Sized, Made, Ends
<1> DEFINE a == [sid |-> active, send |-> FALSE]
           b == [sid |-> active, send |-> TRUE]
           q == IF active \in list \ mounted THEN Append(frames, a) ELSE frames
<1>0. frames \in Seq(Frame) /\ Paired(frames)
  BY KeyedFacts DEF Sized
<1>3. CASE active \in mounted'
  <2>1. Effect(active) = <<b>> /\ Mounts(active) = IF active \in list \ mounted THEN <<a>> ELSE << >>
    BY <1>3 DEF Effect, Mounts
  <2>2. frames' = Append(q, b)
    <3>1. CASE active \in list \ mounted
      <4>1. frames' = frames \o <<a>> \o <<b>> /\ q = Append(frames, a)
        BY <1>1, <2>1, <3>1
      <4> HIDE DEF a, b, q
      <4>2. frames \o <<a>> \o <<b>> = Append(Append(frames, a), b)
        BY <1>0, AppendLast
      <4> QED BY <4>1, <4>2
    <3>2. CASE active \notin list \ mounted
      BY <1>0, <1>1, <2>1, <3>2, AppendLast
    <3> QED BY <3>1, <3>2
  <2>3. Paired(frames')
    BY <1>0, <2>2, PairedTell
  <2>4. \E S : q \in Seq(S)
    <3>1. Append(frames, a) \in Seq(Frame \cup {a})
      <4>1. frames \in Seq(Frame \cup {a})
        BY <1>0, SeqMonotonic
      <4> QED BY <4>1, AppendProperties
    <3> QED BY <1>0, <3>1
  <2>5. \E i \in 1..Len(frames') : frames'[i] = b
    BY <2>2, <2>4, AppendLast
  <2>6. ~Settled'
    BY <1>1, <2>5 DEF Settled
  <2> QED BY <1>2, <2>3, <2>6 DEF Sized, FitInv, ToldInv
<1>4. CASE active \notin mounted'
  <2>1. Effect(active) = << >> /\ Mounts(active) = << >>
    BY <1>1, <1>4 DEF Effect, Mounts
  <2>2. frames' = frames
    BY <1>0, <1>1, <2>1
  <2>3. Settled' => active' \notin list'
    BY <1>1, <1>4 DEF Settled
  <2> QED BY <1>0, <1>2, <2>2, <2>3 DEF Sized, FitInv, ToldInv
<1> QED BY <1>3, <1>4

LEMMA SizedAnimate ==
  ASSUME Keyed, Sized, Animate
  PROVE  Sized'
<1> DEFINE f == Head(frames)
<1>1. /\ frames # << >> /\ frames' = Tail(frames)
      /\ size' = [size EXCEPT ![f.sid] = Fitted(f.sid)]
      /\ toD' = IF f.send /\ f.sid \notin ended
                THEN Sent([t |-> "resize", sid |-> f.sid, size |-> size'[f.sid]]) ELSE toD
      /\ UNCHANGED <<win, list, active, mounted, ended, tfont, render, observe, link, due, live, gone, pty>>
  BY DEF Animate, domVars, tabVars, linkVars, hostVars
<1>2. /\ Paired(frames') /\ f \in Frame
      /\ ~f.send => \E i \in 1..Len(frames') : frames'[i].sid = f.sid /\ frames'[i].send
  BY <1>1, KeyedFacts, PairedTail, HeadTailProperties DEF Sized
<1>3. \A i \in 1..Len(frames) : frames[i] = f \/ \E j \in 1..Len(frames') : frames'[j] = frames[i]
  <2>1. /\ Len(frames) \in Nat /\ f = frames[1] /\ Len(frames') = Len(frames) - 1
        /\ \A j \in 1..Len(frames') : frames'[j] = frames[j+1]
    BY <1>1, KeyedFacts, HeadTailProperties, LenProperties
  <2>2. ASSUME NEW i \in 1..Len(frames), i # 1
        PROVE  \E j \in 1..Len(frames') : frames'[j] = frames[i]
    <3>1. i - 1 \in 1..Len(frames') /\ (i - 1) + 1 = i
      BY <2>1, <2>2
    <3>2. frames'[i-1] = frames[i]
      BY <2>1, <3>1
    <3> QED BY <3>1, <3>2
  <2> QED BY <2>1, <2>2
<1> HIDE DEF f
<1>4. Made' /\ Ends'
  BY <1>1 DEF Sized, Made, Ends
<1>5. Settled' => f.send \/ f.sid # active
  BY <1>1, <1>2 DEF Settled
<1>6. Settled' => Settled \/ (f.send /\ f.sid = active)
  BY <1>1, <1>3 DEF Settled
<1>7. f.sid \in Session /\ size'[f.sid] = Fitted(f.sid)
  BY <1>1, <1>2, KeyedFacts DEF Frame
<1>8. CASE f.sid # active
  <2>1. size'[active] = size[active]
    BY <1>1, <1>7, <1>8, KeyedFacts
  <2>2. FitInv'
    BY <1>1, <1>6, <1>8, <2>1 DEF Sized, FitInv
  <2>3. ToldInv'
    <3>1. SUFFICES ASSUME Settled, link, due = "no", active \in list \cap live
                   PROVE  Told(toD', pty, active, size[active])
      BY <1>1, <1>6, <1>8, <2>1 DEF ToldInv
    <3>2. Told(toD, pty, active, size[active])
      BY <3>1 DEF Sized, ToldInv
    <3>3. ASSUME NEW z, toD' = Append(toD, [t |-> "resize", sid |-> f.sid, size |-> z])
          PROVE  Told(toD', pty, active, size[active])
      <4>1. ~IsResize([t |-> "resize", sid |-> f.sid, size |-> z], active)
        BY <1>8 DEF IsResize
      <4> QED BY <3>2, <3>3, <4>1, KeyedFacts, ToldOther
    <3> QED BY <1>1, <3>1, <3>2, <3>3 DEF Sent
  <2> QED BY <1>2, <1>4, <2>2, <2>3 DEF Sized
<1>9. CASE f.sid = active
  <2>1. FitInv'
    BY <1>1, <1>7, <1>9 DEF FitInv, Fitted
  <2>2. Settled' /\ active \in live => f.send /\ f.sid \notin ended
    BY <1>5, <1>9 DEF Sized, Ends
  <2>3. Settled' /\ link /\ active \in live => Told(toD', pty', active, size'[active])
    BY <1>1, <1>7, <1>9, <2>2, SentTells
  <2>4. ToldInv'
    BY <1>1, <2>3 DEF ToldInv
  <2> QED BY <1>2, <1>4, <2>1, <2>4 DEF Sized
<1> QED BY <1>8, <1>9

LEMMA SizedKeys ==
  ASSUME Keyed, Sized, Type \/ PauseKey \/ BarKey \/ SendLine
  PROVE  Sized'
<1>1. /\ UNCHANGED <<win, list, mounted, frames, tfont, size, render, observe, active, ended, live, gone,
                     link, due, pty>>
      /\ \/ toD' = toD
         \/ \E s, g : toD' = Append(toD, [t |-> "key", sid |-> s, from |-> g])
  BY DEF Type, PauseKey, BarKey, SendLine, Raw, Sent, domVars, tabVars, termVars, loopVars, linkVars, hostVars
<1>2. \A s, g, r : ~IsResize([t |-> "key", sid |-> s, from |-> g], r)
  BY DEF IsResize
<1>3. \A s \in Session : \A z : Told(toD, pty, s, z) => Told(toD', pty', s, z)
  BY <1>1, <1>2, KeyedFacts, ToldOther
<1>4. Ends'
  BY <1>1 DEF Sized, Ends
<1> QED BY <1>1, <1>3, <1>4, SizedKept

LEMMA SizedSessions ==
  ASSUME Keyed, Sized, \/ LinkUp \/ LinkLost \/ Listed \/ BootAttach \/ ClickTab \/ Create
                       \/ Exit \/ Exited \/ DaemonRecv \/ OtherViewer
  PROVE  Sized'
<1>1. CASE LinkUp \/ LinkLost \/ OtherViewer
  <2>1. /\ UNCHANGED <<win, list, mounted, frames, tfont, size, render, observe, active, ended, live>>
        /\ ~(link' /\ due' = "no") /\ gone' \subseteq gone /\ (link' => UNCHANGED <<toD, pty>>)
    BY <1>1 DEF LinkUp, LinkLost, OtherViewer, domVars, tabVars, termVars, loopVars, linkVars, hostVars
  <2>2. Ends'
    BY <2>1 DEF Sized, Ends
  <2> QED BY <2>1, <2>2, SizedKept
<1>2. CASE Listed
  <2>1. Ends' /\ UNCHANGED frames /\ render'
    BY <1>2 DEF Listed, Sized, Ends, hostVars
  <2> QED BY <2>1, SizedRender
<1>3. CASE BootAttach \/ ClickTab
  <2>1. PICK s \in Session : Show(s)
    BY <1>3, KeyedFacts DEF BootAttach, ClickTab, Keyed, TypeOK
  <2>2. UNCHANGED <<win, list, mounted, frames, tfont, size, observe, live, gone, link, due, toD, pty>>
    BY <1>3 DEF BootAttach, ClickTab, domVars, termVars, linkVars, hostVars
  <2>3. /\ (render => render') /\ (active' = active \/ render') /\ ended' \subseteq ended
    BY <2>1 DEF Show
  <2>4. Ends'
    BY <2>2, <2>3 DEF Sized, Ends
  <2> QED BY <2>2, <2>3, <2>4, SizedKept
<1>4. CASE Create
  <2>1. PICK s \in Session \ (live \cup list \cup mounted \cup gone \cup {active}) : live' = live \cup {s}
    BY <1>4 DEF Create
  <2>2. /\ UNCHANGED <<win, list, mounted, frames, tfont, size, render, observe, active, ended, gone, link>>
        /\ due' = "refetch"
    BY <1>4 DEF Create, domVars, tabVars, termVars, loopVars
  <2>3. Ends'
    BY <2>1, <2>2 DEF Sized, Ends, Keyed, TypeOK
  <2>4. Made' /\ Paired(frames') /\ FitInv' /\ ToldInv'
    BY <2>2 DEF Sized, Made, FitInv, ToldInv, Settled
  <2> QED BY <2>3, <2>4 DEF Sized
<1>5. CASE Exit
  <2>1. PICK s \in live : live' = live \ {s} /\ (gone' = gone \/ gone' = gone \cup {s})
    BY <1>5 DEF Exit
  <2>2. UNCHANGED <<win, list, mounted, frames, tfont, size, render, observe, active, ended, link, due, toD, pty>>
    BY <1>5 DEF Exit, domVars, tabVars, termVars, loopVars, linkVars
  <2>3. Ends'
    BY <2>1, <2>2 DEF Sized, Ends
  <2>4. live' \subseteq live
    BY <2>1
  <2> QED BY <2>2, <2>3, <2>4, SizedKept
<1>6. CASE Exited
  <2>1. PICK s \in gone : gone' = gone \ {s} /\ ended' \subseteq ended \cup {s}
    BY <1>6 DEF Exited
  <2>2. /\ UNCHANGED <<win, list, mounted, frames, tfont, size, render, observe, active, link, toD, live, pty>>
        /\ due' # "no"
    BY <1>6 DEF Exited, domVars, termVars, loopVars
  <2>3. Ends'
    BY <2>1, <2>2 DEF Sized, Ends
  <2> QED BY <2>2, <2>3, SizedKept
<1>7. CASE DaemonRecv
  <2>1. /\ UNCHANGED <<win, list, mounted, frames, tfont, size, render, observe, active, ended, live, gone, link, due>>
        /\ toD # << >> /\ toD' = Tail(toD)
        /\ pty' = IF Head(toD).t = "resize" /\ Head(toD).sid \in live
                  THEN [pty EXCEPT ![Head(toD).sid] = Head(toD).size] ELSE pty
    BY <1>7 DEF DaemonRecv, domVars, tabVars, termVars, loopVars, linkVars
  <2>2. \A s \in live : pty'[s] = IF IsResize(Head(toD), s) THEN Head(toD).size ELSE pty[s]
    BY <2>1, KeyedFacts DEF IsResize
  <2>3. \A s \in Session : \A z : s \in live /\ Told(toD, pty, s, z) => Told(toD', pty', s, z)
    BY <2>1, <2>2, KeyedFacts, ToldTail
  <2>4. Ends'
    BY <2>1 DEF Sized, Ends
  <2> QED BY <2>1, <2>3, <2>4, SizedKept
<1> QED BY <1>1, <1>2, <1>3, <1>4, <1>5, <1>6, <1>7

LEMMA SizedStep ==
  ASSUME Keyed, Sized, [Next]_vars
  PROVE  Sized'
<1>1. CASE UNCHANGED vars
  <2>1. UNCHANGED <<win, list, active, mounted, ended, tfont, size, render, observe, frames, link, due,
                    toD, live, gone, pty>>
    BY <1>1 DEF vars, domVars, tabVars, termVars, loopVars, linkVars, hostVars
  <2>2. Ends'
    BY <2>1 DEF Sized, Ends
  <2> QED BY <2>1, <2>2, SizedKept
<1> QED BY <1>1, SizedWindow, SizedObserved, SizedAdjustFont, SizedRenders, SizedAnimate, SizedKeys,
           SizedSessions DEF Next

LEMMA SizedInit ==
  ASSUME Init
  PROVE  Sized
<1>1. list = {} /\ ended = {} /\ mounted = {} /\ gone = {} /\ frames = << >>
  BY DEF Init
<1>2. Paired(frames)
  BY <1>1 DEF Paired
<1> QED BY <1>1, <1>2 DEF Sized, Made, Ends, FitInv, ToldInv

\* At rest the PTY of the active session is as large as its terminal in the window, whatever
\* was resized, adjusted, switched, listed or lost before, and whoever else sized it
\* (TerminalApp.tsx:147-161, 357-365, 386-399).
THEOREM SizeDoesFollow == Spec => []SizeFollows
<1>1. Spec => [](Keyed /\ Sized)
  BY InitKeyed, KeyedStep, SizedInit, SizedStep, PTL DEF Spec
<1>2. Keyed /\ Sized => SizeFollows
  <2>1. SUFFICES ASSUME Sized, Rest, active \in list \cap live
                 PROVE  pty[active] = <<win, tfont[active]>> /\ size[active] = pty[active]
    BY DEF SizeFollows
  <2>2. Settled
    <3>1. \A i \in 1..Len(frames) : FALSE
      BY <2>1 DEF Rest
    <3> QED BY <2>1, <3>1 DEF Rest, Settled
  <2>3. size[active] = <<win, tfont[active]>> /\ Told(<< >>, pty, active, size[active])
    BY <2>1, <2>2 DEF Sized, FitInv, ToldInv, Rest
  <2> QED BY <2>3, ToldEmpty
<1> QED BY <1>1, <1>2, PTL
=============================================================================
