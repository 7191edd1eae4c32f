----------------------------- MODULE TerminalInput -----------------------------
(***************************************************************************)
(* Keys and sizes of the terminals of the terminal page                    *)
(* (web/src/TerminalApp.tsx): which session a key goes to, and how the     *)
(* size of a session's PTY (daemon/src/session.rs) follows the window, the *)
(* font and the active tab.  What the page does with its sessions          *)
(* otherwise is TerminalApp; here an answer takes one step.                *)
(*                                                                         *)
(*  - React renders after the state changes: a listed session gets its     *)
(*    terminal (hostCallback) and the effect of [active, sessions] asks    *)
(*    for an animation frame; the browser calls frames, and the observer   *)
(*    of the window, later and in this order;                              *)
(*  - a hidden terminal keeps its box (visibility: hidden): it can be      *)
(*    fitted;                                                              *)
(*  - send() drops what it is given while the link is down, and a broken   *)
(*    link loses a suffix of what was sent;                                *)
(*  - while this page is away another viewer may size the PTYs.            *)
(*                                                                         *)
(* A size is the window and the font it was computed from.                 *)
(***************************************************************************)
EXTENDS Naturals, Sequences

CONSTANTS Session, None,
          Window,            \* sizes of the window
          MinFont, MaxFont,  \* 10 and 22: the clamp of adjustFont
          Slider,            \* the fonts of the settings page
          Unfit,             \* the size before any fit
          MaxActs            \* bound: what the user, the network and other viewers do

ASSUME FontsAssumption == /\ MinFont \in Nat /\ MaxFont \in Nat /\ MinFont <= MaxFont
                          /\ Slider \subseteq MinFont..MaxFont /\ MaxActs \in Nat
ASSUME NamesAssumption == None \notin Session /\ Unfit \notin Window \X (MinFont..MaxFont)

VARIABLES
  win, font,           \* the window; ra.termFontSize
  takeover,            \* keys are sent, not only watched
  list, active,        \* the sessions listed; the active one
  mounted, ended,      \* terminals; those marked ended
  tfont, size,         \* of a terminal: its font, what it was last fitted to
  focus,               \* the terminal that has the keyboard
  render, observe,     \* a render is due; the window's observer is to be called
  frames,              \* animation frames asked for
  link, due, rest,     \* the link; the list that is asked for; sessions to attach again
  toD,                 \* frames to the daemon
  live, gone, pty,     \* sessions that run; exits not yet told; sizes of the PTYs
  acts

domVars  == <<win, font, takeover>>
tabVars  == <<list, active, mounted, ended>>
termVars == <<tfont, size, focus>>
loopVars == <<render, observe, frames>>
linkVars == <<link, due, rest>>
hostVars == <<live, gone, pty>>
vars == <<domVars, tabVars, termVars, loopVars, linkVars, toD, hostVars, acts>>

Font  == MinFont..MaxFont
Size  == (Window \X Font) \cup {Unfit}
Frame == [sid : Session, send : BOOLEAN]
ToD   == [t : {"key"}, sid : Session, from : Session \cup {None}]
    \cup [t : {"resize"}, sid : Session, size : Size]

\* The font stays one that can be read, whichever page changes it.
TypeOK ==
  /\ win \in Window /\ font \in Font /\ takeover \in BOOLEAN
  /\ list \subseteq Session /\ active \in Session \cup {None}
  /\ mounted \subseteq Session /\ ended \subseteq mounted
  /\ tfont \in [Session -> Font] /\ size \in [Session -> Size] /\ focus \in mounted \cup {None}
  /\ render \in BOOLEAN /\ observe \in BOOLEAN /\ frames \in Seq(Frame)
  /\ link \in BOOLEAN /\ due \in {"no", "boot", "refetch"} /\ rest \subseteq Session
  /\ toD \in Seq(ToD) /\ live \subseteq Session /\ gone \subseteq Session
  /\ pty \in [Session -> Size] /\ acts \in 0..MaxActs

Init ==
  /\ win \in Window /\ font \in Slider /\ takeover \in BOOLEAN
  /\ list = {} /\ active = None /\ mounted = {} /\ ended = {}
  /\ tfont = [s \in Session |-> font] /\ size = [s \in Session |-> Unfit] /\ focus = None
  /\ render = FALSE /\ observe = FALSE /\ frames = << >>
  /\ link = FALSE /\ due = "no" /\ rest = {} /\ toD = << >>
  /\ live \in SUBSET Session /\ gone = {} /\ pty = [s \in Session |-> Unfit] /\ acts = 0

Act == acts < MaxActs /\ acts' = acts + 1

\* send().
Sent(f) == IF link THEN Append(toD, f) ELSE toD

-----------------------------------------------------------------------------
(* Sizes.                                                                  *)

\* fit(): a terminal whose tab is gone has no box to fit.
Fitted(s) == IF s \in list THEN <<win, tfont[s]>> ELSE size[s]

WindowChanges ==
  /\ Act /\ \E w \in Window \ {win} : win' = w
  /\ observe' = TRUE
  /\ UNCHANGED <<font, takeover, tabVars, termVars, render, frames, linkVars, toD, hostVars>>

\* The ResizeObserver: the active terminal is fitted, a new size is sent.
Observed ==
  /\ observe /\ observe' = FALSE
  /\ IF active \notin mounted \/ Fitted(active) = size[active] THEN UNCHANGED <<size, toD>>
     ELSE /\ size' = [size EXCEPT ![active] = Fitted(active)]
          /\ toD' = Sent([t |-> "resize", sid |-> active, size |-> size'[active]])
  /\ UNCHANGED <<domVars, tabVars, tfont, focus, render, frames, linkVars, hostVars, acts>>

\* adjustFont: all terminals at once, the active session is told.
Unclamped(n) == n
Clamped(n)   == IF n > MaxFont THEN MaxFont ELSE IF n < MinFont THEN MinFont ELSE n

AdjustFont ==
  /\ Act /\ \E n \in {font - 1, font + 1} : font' = Clamped(n)
  /\ tfont' = [s \in Session |-> IF s \in mounted THEN font' ELSE tfont[s]]
  /\ size' = [s \in Session |-> IF s \in mounted \cap list THEN <<win, font'>> ELSE size[s]]
  /\ toD' = IF active \in mounted THEN Sent([t |-> "resize", sid |-> active, size |-> size'[active]])
            ELSE toD
  /\ UNCHANGED <<win, takeover, tabVars, focus, loopVars, linkVars, hostVars>>

\* The settings page, open in another tab: for terminals still to be made.
SetFont ==
  /\ Act /\ \E n \in Slider \ {font} : font' = n
  /\ UNCHANGED <<win, takeover, tabVars, termVars, loopVars, linkVars, toD, hostVars>>

\* A render: new terminals, then the effects: a frame for the active session, and a step
\* off an active session that is no longer listed.
Mounts(s) == IF s = active /\ s \in list \ mounted THEN <<[sid |-> s, send |-> FALSE]>> ELSE << >>
Effect(s) == IF s \in mounted' THEN <<[sid |-> s, send |-> TRUE]>> ELSE << >>
Render ==
  /\ render
  /\ mounted' = mounted \cup list
  /\ tfont' = [s \in Session |-> IF s \in list \ mounted THEN font ELSE tfont[s]]
  /\ frames' = frames \o Mounts(active) \o Effect(active)
  /\ IF active # None /\ list # {} /\ active \notin list
     THEN render' = TRUE /\ \E s \in list : active' = s
     ELSE render' = FALSE /\ UNCHANGED active
  /\ UNCHANGED <<domVars, list, ended, size, focus, observe, linkVars, toD, hostVars, acts>>

\* A frame: fit, focus, and the size to the daemon.
Animate ==
  /\ frames # << >> /\ frames' = Tail(frames)
  /\ LET f == Head(frames) IN
       /\ size' = [size EXCEPT ![f.sid] = Fitted(f.sid)] /\ focus' = f.sid
       /\ toD' = IF f.send /\ f.sid \notin ended
                 THEN Sent([t |-> "resize", sid |-> f.sid, size |-> size'[f.sid]]) ELSE toD
  /\ UNCHANGED <<domVars, tabVars, tfont, render, observe, linkVars, hostVars, acts>>

-----------------------------------------------------------------------------
(* Keys.                                                                   *)

\* onData of the terminal that has the keyboard.  Mutant: to the active session.
TypeToActive ==
  /\ focus # None /\ Act
  /\ toD' = IF takeover /\ active # None /\ focus \notin ended
            THEN Sent([t |-> "key", sid |-> active, from |-> focus]) ELSE toD
  /\ UNCHANGED <<domVars, tabVars, termVars, loopVars, linkVars, hostVars>>
Type ==
  /\ focus # None /\ Act
  /\ toD' = IF takeover /\ active = focus /\ focus \notin ended
            THEN Sent([t |-> "key", sid |-> focus, from |-> focus]) ELSE toD
  /\ UNCHANGED <<domVars, tabVars, termVars, loopVars, linkVars, hostVars>>

\* sendRaw: to the active session, watched or taken over.
Raw == active # None /\ Act /\ toD' = Sent([t |-> "key", sid |-> active, from |-> None])

\* The pause button of the tabs; the keys of the bar of a touch screen; its line.
PauseKey ==
  /\ link /\ Raw /\ UNCHANGED <<domVars, tabVars, termVars, loopVars, linkVars, hostVars>>

BarKey ==
  /\ Raw /\ UNCHANGED <<domVars, tabVars, termVars, loopVars, linkVars, hostVars>>

SendLine ==
  /\ focus = None /\ Raw
  /\ UNCHANGED <<domVars, tabVars, termVars, loopVars, linkVars, hostVars>>

\* The mode button; the line takes over, and the keyboard, when it is entered.
ModeButton ==
  /\ Act /\ takeover' = ~takeover
  /\ UNCHANGED <<win, font, tabVars, termVars, loopVars, linkVars, toD, hostVars>>

FocusLine ==
  /\ Act /\ takeover' = TRUE /\ focus' = None
  /\ UNCHANGED <<win, font, tabVars, tfont, size, loopVars, linkVars, toD, hostVars>>

-----------------------------------------------------------------------------
(* The sessions and the link, as far as sizes and keys depend on them.     *)

LinkUp ==
  /\ ~link /\ link' = TRUE /\ due' = "boot"
  /\ UNCHANGED <<domVars, tabVars, termVars, loopVars, rest, toD, hostVars, acts>>

LinkLost ==
  /\ link /\ Act /\ link' = FALSE /\ due' = "no" /\ rest' = {} /\ gone' = {}
  /\ \E n \in 0..Len(toD) : toD' = SubSeq(toD, 1, n)
  /\ UNCHANGED <<domVars, tabVars, termVars, loopVars, live, pty>>

\* setSessions: a new array, so that the effect runs again.  Mutant: only when it differs.
ListedSame ==
  /\ due # "no" /\ due' = "no"
  /\ list' = live /\ render' = (render \/ list' # list)
  /\ rest' = IF due = "boot" THEN live ELSE rest
  /\ UNCHANGED <<domVars, active, mounted, ended, termVars, observe, frames, link, toD, hostVars, acts>>
Listed ==
  /\ due # "no" /\ due' = "no"
  /\ list' = live /\ render' = TRUE
  /\ rest' = IF due = "boot" THEN live ELSE rest
  /\ UNCHANGED <<domVars, active, mounted, ended, termVars, observe, frames, link, toD, hostVars, acts>>

\* session.attached.
Show(s) ==
  IF s \notin live THEN UNCHANGED <<active, ended, render>>
  ELSE active' = s /\ ended' = ended \ {s} /\ render' = (render \/ active # s)

BootAttach ==
  /\ \E s \in rest : Show(s) /\ rest' = rest \ {s}
  /\ UNCHANGED <<domVars, list, mounted, termVars, observe, frames, link, due, toD, hostVars, acts>>

ClickTab ==
  /\ link /\ Act /\ \E s \in list \ {active} : Show(s)
  /\ UNCHANGED <<domVars, list, mounted, termVars, observe, frames, linkVars, toD, hostVars>>

\* createSession: as large as the active terminal.  An id that nothing knows is a new one.
Create ==
  /\ link /\ due = "no" /\ Act
  /\ \E s \in Session \ (live \cup list \cup mounted \cup gone \cup {active}) :
       /\ live' = live \cup {s}
       /\ pty' = [pty EXCEPT ![s] = IF active \in mounted THEN size[active] ELSE Unfit]
       /\ rest' = rest \cup {s}
  /\ due' = "refetch"
  /\ UNCHANGED <<domVars, tabVars, termVars, loopVars, link, toD, gone>>

Exit ==
  /\ Act /\ \E s \in live : live' = live \ {s} /\ gone' = IF link THEN gone \cup {s} ELSE gone
  /\ UNCHANGED <<domVars, tabVars, termVars, loopVars, linkVars, toD, pty>>

\* onExited: the terminal is marked, the list fetched again.
Exited ==
  /\ link /\ \E s \in gone : /\ gone' = gone \ {s}
                             /\ ended' = IF s \in mounted THEN ended \cup {s} ELSE ended
  /\ due' = IF due = "no" THEN "refetch" ELSE due
  /\ UNCHANGED <<domVars, list, active, mounted, termVars, loopVars, link, rest, toD, live, pty, acts>>

\* The host: Resize and Input of a session that is gone have no effect.
DaemonRecv ==
  /\ toD # << >> /\ toD' = Tail(toD)
  /\ LET f == Head(toD) IN
       pty' = IF f.t = "resize" /\ f.sid \in live THEN [pty EXCEPT ![f.sid] = f.size] ELSE pty
  /\ UNCHANGED <<domVars, tabVars, termVars, loopVars, linkVars, live, gone, acts>>

OtherViewer ==
  /\ ~link /\ toD = << >> /\ Act
  /\ \E s \in live, w \in Window, n \in Slider : pty' = [pty EXCEPT ![s] = <<w, n>>]
  /\ UNCHANGED <<domVars, tabVars, termVars, loopVars, linkVars, toD, live, gone>>

-----------------------------------------------------------------------------
Next ==
  \/ WindowChanges \/ Observed \/ AdjustFont \/ SetFont \/ Render \/ Animate
  \/ Type \/ PauseKey \/ BarKey \/ SendLine \/ ModeButton \/ FocusLine
  \/ LinkUp \/ LinkLost \/ Listed \/ BootAttach \/ ClickTab \/ Create \/ Exit \/ Exited \/ DaemonRecv \/ OtherViewer

Spec == Init /\ [][Next]_vars

-----------------------------------------------------------------------------
(* Properties.                                                             *)

\* At rest the PTY of the active session has the size its terminal has in the window, with
\* its font, whatever was resized, adjusted or switched while the link was down, a render
\* was due or another viewer was connected (TerminalApp.tsx:147-161, 357-365, 386-399).
Rest == /\ link /\ due = "no" /\ rest = {} /\ gone = {} /\ toD = << >>
        /\ ~render /\ ~observe /\ frames = << >>
SizeFollows ==
  Rest /\ active \in list \cap live => pty[active] = <<win, tfont[active]>> /\ size[active] = pty[active]

\* A key typed in a terminal never reaches another session, although the keyboard follows
\* the active tab only an animation frame later (TerminalApp.tsx:437-454).
InputHome ==
  \A i \in 1..Len(toD) : toD[i].t = "key" /\ toD[i].from # None => toD[i].sid = toD[i].from
=============================================================================
