---------------------------- MODULE MCRelayHub ----------------------------
(***************************************************************************)
(* TLC instances of RelayHub.  Connections come and go and peers send for  *)
(* ever; a run bounds both: MaxAccepts connections in all, MaxFrames       *)
(* frames read after the handshakes.                                       *)
(***************************************************************************)
EXTENDS RelayHub, TLC

CONSTANTS MaxAccepts, MaxFrames
VARIABLES accepts, frames

budget == <<accepts, frames>>

MCInit == Init /\ accepts = 0 /\ frames = 0

MCAccept(c) == accepts < MaxAccepts /\ Accept(c) /\ accepts' = accepts + 1 /\ UNCHANGED frames

MCRead(c) ==
  /\ frames < MaxFrames
  /\ ReadPing(c) \/ ReadKick(c) \/ ReadPayload(c)
  /\ frames' = frames + 1 /\ UNCHANGED accepts

MCOther(c) ==
  /\ \/ RejectHello(c) \/ ReadFail(c) \/ PeerClose(c)
     \/ \E d \in Device : HelloDaemon(c, d) \/ HelloClient(c, d)
     \/ ReadPumpStep(c) \/ WritePumpStep(c)
  /\ UNCHANGED budget

\* Every connection has come and gone: the bounded system may rest, and only then.
MCRest ==
  /\ accepts = MaxAccepts
  /\ \A c \in Conn : rp[c] \in {"done", "dead"} /\ sock[c] = "closed"
  /\ UNCHANGED <<vars, budget>>

MCNext == MCRest \/ \E c \in Conn : MCAccept(c) \/ MCRead(c) \/ MCOther(c)

MCSpec     == MCInit /\ [][MCNext]_<<vars, budget>>
MCFairSpec == MCSpec /\ Fairness

\* Two states differ in nothing that matters when they differ in what a finished
\* connection was or in a room object that nobody can reach: Accept and HelloDaemon
\* overwrite both before they are read.
Finished(c) == rp[c] \in {"done", "dead"} /\ queue[c] = << >>

Live ==
  <<rooms, queue, closed, rp, ref, victims, wp, sock, budget,
    [r \in Room |-> IF Held(r) THEN <<daemon[r], clients[r]>> ELSE << >>],
    [c \in Conn |-> IF Finished(c) THEN << >> ELSE <<dev[c], role[c]>>]>>

Interchangeable == Permutations(Conn) \cup Permutations(Room)
=============================================================================
