------------------------------ MODULE MCHostLink ------------------------------
(* HostLink for TLC: requests, connections and hosts are model values.      *)
EXTENDS HostLink, TLC
=============================================================================
