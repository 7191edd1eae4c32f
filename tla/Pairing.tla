------------------------------- MODULE Pairing -------------------------------
(***************************************************************************)
(* Choosing a device to connect to (web/src/Connect.tsx, lib/relays.ts,    *)
(* lib/target.ts, App.tsx): the connect form of each open page, the lists  *)
(* of relays and of paired devices that all pages of a browser share in    *)
(* localStorage, and the hash route that mounts a terminal for the address *)
(* (the terminal's connection is WebConnection).                           *)
(*                                                                         *)
(*  - a page runs one handler at a time, pages run side by side; a handler *)
(*    reads and writes localStorage in one go, but the form shows what it  *)
(*    read when it was opened or last changed the list itself;             *)
(*  - location.assign changes the hash at once, React renders the route    *)
(*    when hashchange arrives (routed).                                    *)
(*                                                                         *)
(* A relay address stands for all its spellings: normalizeClientRelay has  *)
(* been applied.  A link is the relay, device and token of an address.     *)
(***************************************************************************)
EXTENDS Naturals, Sequences

CONSTANTS Tab,         \* pages of one browser
          Relay,       \* relays; a relay serves a site of its own
          Site,        \* the relay that serves the pages
          Device, Token,
          Works,       \* the links whose token the device accepts
          Seeds,       \* the relays the local daemon knows (a desktop page), its active one first
          None,        \* an empty field, no relay, no terminal
          MaxRelays,   \* slice(0, 8) of relays.ts
          MaxSaved,    \* MAX_SAVED of Connect.tsx
          MaxActs      \* bound: what the user does

Link == [relay : Relay, dev : Device, tok : Token]

ASSUME WorksAssumption  == Works \subseteq Link
ASSUME RelaysAssumption == Site \in Relay /\ Seeds \in Seq(Relay)
ASSUME LimitsAssumption == MaxRelays \in Nat \ {0} /\ MaxSaved \in Nat \ {0} /\ MaxActs \in Nat

VARIABLES
  conns,               \* ra.connections, the latest first
  relays, last,        \* ra.clientRelays, the latest first; ra.lastRelay
  loc, routed,         \* the link in a page's address; the route has been rendered for it
  term, saved,         \* the target of the mounted terminal; savedConnRef: it has been ready
  form,                \* the connect form of each page
  acts

storage == <<conns, relays, last>>
pages   == <<loc, routed, term, saved>>
vars    == <<storage, pages, form, acts>>

Conn == [url : Link, dev : Device]
Form == [dev : Device \cup {None}, tok : Token \cup {None},
         relay : Relay \cup {None}, selected : Relay \cup {None},   \* typed or pasted; picked
         shown : Seq(Relay), recents : Seq(Conn),                   \* the lists as last read
         adding : BOOLEAN]

Distinct(s, Of(_)) == \A i, j \in 1..Len(s) : Of(s[i]) = Of(s[j]) => i = j
Itself(r) == r
Url(c)    == c.url

\* No address is listed twice: it is the key React tells the rows by.
TypeOK ==
  /\ conns \in Seq(Conn) /\ Len(conns) <= MaxSaved /\ Distinct(conns, Url)
  /\ relays \in Seq(Relay) /\ Len(relays) <= MaxRelays /\ Distinct(relays, Itself)
  /\ last \in Relay \cup {None}
  /\ loc \in [Tab -> Link \cup {None}] /\ routed \in [Tab -> BOOLEAN]
  /\ term \in [Tab -> Link \cup {None}]
  /\ saved \in [Tab -> BOOLEAN]
  /\ form \in [Tab -> Form \cup {None}] /\ acts \in 0..MaxActs

\* The lists that earlier visits may have left.
Lists(S, n, Of(_)) == {s \in UNION {[1..k -> S] : k \in 0..n} : Distinct(s, Of)}

Init ==
  /\ conns \in Lists({[url |-> l, dev |-> l.dev] : l \in Works}, MaxSaved, Url)
  /\ relays \in Lists(Relay, MaxRelays, Itself)
  /\ last = IF relays = << >> THEN None ELSE relays[1]
  /\ loc = [t \in Tab |-> None] /\ routed = [t \in Tab |-> TRUE]
  /\ term = loc /\ saved = [t \in Tab |-> FALSE]
  /\ form = [t \in Tab |-> None] /\ acts = 0

Act == acts < MaxActs /\ acts' = acts + 1

-----------------------------------------------------------------------------
(* The lists in localStorage.                                              *)

Listed(s)   == {s[i] : i \in 1..Len(s)}
Clip(s, n)  == SubSeq(s, 1, IF Len(s) < n THEN Len(s) ELSE n)

\* Array.filter: s without what is in X.
Drop(s, X) ==
  LET kept[n \in 0..Len(s)] ==
        IF n = 0 THEN << >> ELSE IF s[n] \in X THEN kept[n - 1] ELSE Append(kept[n - 1], s[n])
  IN  kept[Len(s)]

Without(s, r) == Drop(s, {r})

AddedTwice(s, r) == Clip(<<r>> \o s, MaxRelays)

\* addClientRelay: to the front, over the list as it is now.
Added(s, r) == Clip(<<r>> \o Without(s, r), MaxRelays)

\* saveConn.
SameUrl(s, c)   == {x \in Listed(s) : x.url = c.url}
SavedWith(s, c) == Clip(<<c>> \o Drop(s, SameUrl(s, c)), MaxSaved)

-----------------------------------------------------------------------------
(* The form.                                                               *)

\* Opening it on a desktop page imports the daemon's relays; then a relay is selected.
Import(m, r) == IF r \in Listed(m.list) THEN m ELSE [list |-> Added(m.list, r), last |-> r]
Imported(m, seeds) ==
  LET after[n \in 0..Len(seeds)] == IF n = 0 THEN m ELSE Import(after[n - 1], seeds[n])
  IN  after[Len(seeds)]
FirstPick(s, l, seeds) ==
  IF l \in Listed(s) THEN l
  ELSE IF seeds # << >> /\ seeds[1] \in Listed(s) THEN seeds[1]
  ELSE IF s # << >> THEN s[1] ELSE l

\* The devices page passes the relays of its daemon, when it has one.
Offered == {<< >>, Seeds}

OpenForm(t) ==
  /\ form[t] = None /\ Act
  /\ \E seeds \in Offered :
       LET m == Imported([list |-> relays, last |-> last], seeds) IN
       /\ relays' = m.list /\ last' = m.last
       /\ form' = [form EXCEPT ![t] =
            [dev |-> None, tok |-> None, relay |-> None,
             selected |-> FirstPick(m.list, m.last, seeds), shown |-> m.list, recents |-> conns,
             adding |-> (m.list = << >>)]]
  /\ UNCHANGED <<conns, pages>>

Edit(t, f) ==
  /\ form' = [form EXCEPT ![t] = f] /\ UNCHANGED pages

CloseForm(t) ==
  /\ form[t] # None /\ Edit(t, None) /\ UNCHANGED <<storage, acts>>

\* parsePairText: the relay of a pasted link is the site it leads to, unless that is the
\* page's own.
RelayOf(l) == IF l.relay = Site THEN None ELSE l.relay

\* onPaste.
Paste(t, l) ==
  /\ form[t] # None /\ Act
  /\ IF RelayOf(l) = None
     THEN /\ Edit(t, [form[t] EXCEPT !.dev = l.dev, !.tok = l.tok]) /\ UNCHANGED storage
     ELSE /\ relays' = Added(relays, RelayOf(l)) /\ last' = RelayOf(l) /\ UNCHANGED conns
          /\ Edit(t, [form[t] EXCEPT !.dev = l.dev, !.tok = l.tok, !.relay = RelayOf(l),
                                     !.shown = relays', !.adding = FALSE])

\* The fields for the device and its token, and the one for a new relay.
FillIn(t, d, k) ==
  /\ form[t] # None /\ Act /\ Edit(t, [form[t] EXCEPT !.dev = d, !.tok = k]) /\ UNCHANGED storage

ShowsInput(f)  == f.shown = << >> \/ f.adding

TypeRelay(t, r) ==
  /\ form[t] # None /\ ShowsInput(form[t]) /\ Act
  /\ Edit(t, [form[t] EXCEPT !.relay = r]) /\ UNCHANGED storage

CancelInput(t) ==
  /\ form[t] # None /\ ShowsInput(form[t]) /\ form[t].shown # << >>
  /\ Edit(t, [form[t] EXCEPT !.adding = FALSE, !.relay = None]) /\ UNCHANGED <<storage, acts>>

\* The picker: a relay picked, one to be added, the picked one removed.
PickRelay(t) ==
  /\ form[t] # None /\ ~ShowsInput(form[t]) /\ Act /\ UNCHANGED storage
  /\ \E r \in Listed(form[t].shown) : Edit(t, [form[t] EXCEPT !.selected = r, !.relay = None])

AddAnother(t) ==
  /\ form[t] # None /\ ~ShowsInput(form[t]) /\ UNCHANGED <<storage, acts>>
  /\ Edit(t, [form[t] EXCEPT !.adding = TRUE, !.relay = None])

Remaining(t) == Without(relays, form[t].selected)
RemoveRelay(t) ==
  /\ form[t] # None /\ ~ShowsInput(form[t]) /\ Len(form[t].shown) > 1 /\ Act
  /\ relays' = Remaining(t) /\ UNCHANGED <<conns, last>>
  /\ Edit(t, IF relays' # << >> THEN [form[t] EXCEPT !.shown = relays', !.selected = relays'[1]]
             ELSE [form[t] EXCEPT !.shown = << >>, !.selected = None, !.adding = TRUE])

\* connect(): the relay of the input or of a pasted link, or else the picked one.
Via(f)  == IF f.relay # None THEN f.relay ELSE f.selected
Goto(t, l) ==
  /\ loc' = [loc EXCEPT ![t] = l] /\ routed' = [routed EXCEPT ![t] = (loc[t] = l /\ @)]
  /\ UNCHANGED <<term, saved>>

Connect(t) ==
  LET f == form[t] IN
  /\ f # None /\ f.dev # None /\ f.tok # None /\ Via(f) # None /\ Act
  /\ relays' = IF f.relay # None THEN Added(relays, f.relay) ELSE relays
  /\ last' = Via(f) /\ UNCHANGED conns
  /\ form' = IF f.relay # None
             THEN [form EXCEPT ![t].shown = relays', ![t].adding = FALSE] ELSE form
  /\ Goto(t, [relay |-> Via(f), dev |-> f.dev, tok |-> f.tok])

\* A paired device: connected to again, or removed from the list.
Recents(t) == IF form[t] = None THEN {} ELSE Listed(form[t].recents)
GoRecent(t) ==
  /\ Act /\ \E c \in Recents(t) : Goto(t, c.url) /\ UNCHANGED <<storage, form>>

RemoveShown(t, c)   == Drop(form[t].recents, SameUrl(form[t].recents, c))
ConnsWithout(t, c)  == Drop(conns, SameUrl(conns, c))
RemoveRecent(t, c) ==
  /\ c \in Recents(t) /\ Act
  /\ conns' = ConnsWithout(t, c) /\ UNCHANGED <<relays, last>>
  /\ Edit(t, [form[t] EXCEPT !.recents = conns'])

\* The relay page of a panel without a daemon keeps the same list, and shows it as it was
\* when the page was opened or last changed it: it may remove any relay it once listed.
OnRelayPage(t) == term[t] = None /\ form[t] = None

ManagerAdd(t, r) ==
  /\ OnRelayPage(t) /\ Act /\ relays' = Added(relays, r) /\ last' = r
  /\ UNCHANGED <<conns, pages, form>>

ManagerRemove(t, r) ==
  /\ OnRelayPage(t) /\ Act /\ relays' = Without(relays, r)
  /\ UNCHANGED <<conns, last, pages, form>>

-----------------------------------------------------------------------------
(* The route and the terminal.                                             *)

\* hashchange: the terminal stays when its key, the relay and the device, does.
KeyOfDevice(l) == IF l = None THEN << >> ELSE <<l.dev>>
KeyOf(l) == IF l = None THEN << >> ELSE <<l.relay, l.dev>>

Route(t) ==
  /\ ~routed[t] /\ routed' = [routed EXCEPT ![t] = TRUE] /\ UNCHANGED <<storage, loc, acts>>
  /\ IF KeyOf(loc[t]) = KeyOf(term[t]) THEN UNCHANGED <<term, saved, form>>
     ELSE /\ term' = [term EXCEPT ![t] = loc[t]]
          /\ saved' = [saved EXCEPT ![t] = FALSE]
          /\ form' = [form EXCEPT ![t] = None]

\* Back to the panel.
Leave(t) ==
  /\ loc[t] # None /\ Act /\ Goto(t, None) /\ UNCHANGED <<storage, form>>

\* onStatus("ready"), the first time: the pairing is remembered, under the address the
\* page has now.
Ready(t) ==
  /\ term[t] \in Works /\ ~saved[t]
  /\ saved' = [saved EXCEPT ![t] = TRUE]
  /\ conns' = IF loc[t] = None THEN conns
              ELSE SavedWith(conns, [url |-> loc[t], dev |-> term[t].dev])
  /\ UNCHANGED <<relays, last, loc, routed, term, form, acts>>

-----------------------------------------------------------------------------
Page(t) ==
  \/ OpenForm(t) \/ CloseForm(t) \/ CancelInput(t) \/ PickRelay(t)
  \/ AddAnother(t) \/ RemoveRelay(t) \/ Connect(t) \/ GoRecent(t)
  \/ \E c \in Recents(t) : RemoveRecent(t, c)
  \/ \E l \in Link : Paste(t, l)
  \/ \E d \in Device, k \in Token : FillIn(t, d, k)
  \/ \E r \in Relay \cup {None} : TypeRelay(t, r)
  \/ \E r \in Relay : ManagerAdd(t, r) \/ ManagerRemove(t, r)
  \/ Route(t) \/ Leave(t) \/ Ready(t)

Next == \E t \in Tab : Page(t)

Spec == Init /\ [][Next]_vars

-----------------------------------------------------------------------------
(* Properties.                                                             *)

Lost(s)   == Listed(s) \ Listed(s')
Gained(s) == Listed(s') \ Listed(s)

\* A paired device is forgotten only when the user removes it, or when another one is saved
\* and it was the oldest of a full list; one that was removed comes back only by a new
\* connection, whatever an older form in another page still shows (Connect.tsx:35-43, 202-203).
\* A relay is lost only when a page removes it, or when others come and it was among the
\* oldest of the list (relays.ts:21-39, Connect.tsx:259-267); an older one stays only if the
\* form, as it opens, imports it again after the import of another pushed it out.
ListsChange ==
  [][/\ \A c \in Lost(conns) :
          \/ \E t \in Tab : \E d \in Recents(t) : RemoveRecent(t, d) /\ d.url = c.url
          \/ c = conns[Len(conns)] /\ Len(conns) = MaxSaved /\ Gained(conns) # {}
          \/ \E d \in Gained(conns) : d.url = c.url
     /\ \A c \in Gained(conns) : \E t \in Tab : c.url = loc[t] /\ saved'[t] /\ ~saved[t]
     /\ \A r \in Lost(relays) :
          \/ \E t \in Tab : ManagerRemove(t, r) \/ (RemoveRelay(t) /\ form[t].selected = r)
          \/ Len(relays') = MaxRelays /\ Gained(relays) # {} /\ \A q \in Listed(relays) \cap Listed(relays') :
               \/ \E i, j \in 1..Len(relays) : i < j /\ relays[i] = q /\ relays[j] = r
               \/ q \in Listed(Seeds) /\ \E t \in Tab : OpenForm(t)]_vars

\* A page whose hashchange events have been handled shows the device its address names:
\* connecting, a paired device and the way back all switch the view (App.tsx:55-64).
RoutedRight ==
  \A t \in Tab : routed[t] =>
    /\ loc[t] = None <=> term[t] = None
    /\ loc[t] # None => loc[t].relay = term[t].relay /\ loc[t].dev = term[t].dev

=============================================================================
