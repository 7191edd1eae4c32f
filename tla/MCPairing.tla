------------------------------ MODULE MCPairing ------------------------------
(* Pairing for TLC: three relays, one of which serves the pages and two of  *)
(* which the local daemon knows, and a device with one token, which is      *)
(* registered at each of them.                                              *)
EXTENDS Pairing, TLC

CONSTANTS t1, t2, site, r1, r2, d1, k1

MCWorks == {[relay |-> r, dev |-> d1, tok |-> k1] : r \in Relay}
MCSeeds == <<r2, r1>>
TabSymmetry == Permutations(Tab)
=============================================================================
