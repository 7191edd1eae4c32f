--------------------------- MODULE RequestContract ---------------------------
(***************************************************************************)
(* What DaemonConnection.request promises the pages of the web client      *)
(* (web/src/lib/daemon.ts): a request is issued once, the daemon serves it *)
(* at most once, the promise resolves at most once and only with the       *)
(* answer the daemon gave to this request; a promise that was abandoned    *)
(* with its connection never resolves any more.                            *)
(***************************************************************************)
EXTENDS Naturals

CONSTANT Req           \* request ids

VARIABLES issued,      \* requests made so far
          open,        \* requests whose promise may still resolve
          served,      \* requests the daemon has carried out
          resolved     \* requests whose promise has resolved

contract == <<issued, open, served, resolved>>

Init == issued = {} /\ open = {} /\ served = {} /\ resolved = {}

Issue(r) ==
  /\ r \notin issued
  /\ issued' = issued \cup {r} /\ open' = open \cup {r}
  /\ UNCHANGED <<served, resolved>>

Serve(r) ==
  /\ r \in issued \ served /\ served' = served \cup {r}
  /\ UNCHANGED <<issued, open, resolved>>

Resolve(r) ==
  /\ r \in open \cap served
  /\ open' = open \ {r} /\ resolved' = resolved \cup {r}
  /\ UNCHANGED <<issued, served>>

\* The connection is lost with every answer that was still to come.
Abandon == open' = {} /\ UNCHANGED <<issued, served, resolved>>

Next == Abandon \/ \E r \in Req : Issue(r) \/ Serve(r) \/ Resolve(r)

Spec == Init /\ [][Next]_contract
=============================================================================
