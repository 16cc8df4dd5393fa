-------------------------- MODULE MCSessionControl --------------------------
(* Small instances of SessionControl for TLC.                              *)
EXTENDS SessionControl, TLC

UpdateSymmetry == Permutations(Prompts) \cup Permutations(Cancels)
=============================================================================
