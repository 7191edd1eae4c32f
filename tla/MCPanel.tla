------------------------------- MODULE MCPanel -------------------------------
(* Panel for TLC: relays, tasks, requests and polls are model values.       *)
EXTENDS Panel, TLC
Symmetric == Permutations(Relay) \cup Permutations(Task) \cup Permutations(Handler)

\* What no step reads again: the address and the copy of a request that is done, the copy of
\* one that has saved its last time, and what is kept of a list that two requests overwrote.
Saved(r) == r.step = "done" \/ (r.step = "saved" /\ r.op \in {"connect", "disconnect"})
                            \/ (r.step = "stopped" /\ r.op = "disconnect")
Rest(r)  == IF r = None \/ ~Saved(r) THEN r
            ELSE IF r.step = "done" THEN <<"done", r.page, r.ok, r.mine>> ELSE [r EXCEPT !.copy = Blank]
Live == <<daemon, [h \in Handler |-> Rest(req[h])], browser, overlapped, acts,
          IF overlapped THEN {} ELSE kept>>
=============================================================================
