--------------------------- MODULE MCWebConnection ---------------------------
(* WebConnection for TLC: socket slots and key pairs are model values.      *)
(* (Next takes a key pair with CHOOSE, so key pairs are no symmetry set.)   *)
EXTENDS WebConnection, TLC
=============================================================================
