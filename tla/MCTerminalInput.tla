---------------------------- MODULE MCTerminalInput ----------------------------
(* TerminalInput for TLC: sessions and window sizes are model values.       *)
EXTENDS TerminalInput, TLC
SessionSymmetry == Permutations(Session) \cup Permutations(Window)
=============================================================================
