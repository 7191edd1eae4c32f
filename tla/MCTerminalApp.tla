---------------------------- MODULE MCTerminalApp ----------------------------
(* TerminalApp for TLC: session ids are model values, request ids numbers.  *)
EXTENDS TerminalApp, TLC
Symmetric == Permutations(Session)
=============================================================================
