---------------------------- MODULE MCPtySession ----------------------------
(* TLC instances of PtySession: the cfg files give the bounds their values. *)
EXTENDS PtySession, TLC
=============================================================================
