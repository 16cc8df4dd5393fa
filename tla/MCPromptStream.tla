--------------------------- MODULE MCPromptStream ---------------------------
(* Small instances of PromptStream for TLC.                                *)
EXTENDS PromptStream, TLC

RunSymmetry == Permutations(Prompts) \cup Permutations(RunIDs)
=============================================================================
