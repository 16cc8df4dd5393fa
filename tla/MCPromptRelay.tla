--------------------------- MODULE MCPromptRelay ---------------------------
(* Small instances of PromptRelay for TLC.                                 *)
EXTENDS PromptRelay
=============================================================================
