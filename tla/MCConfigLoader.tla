--------------------------- MODULE MCConfigLoader ---------------------------
(* A small instance of ConfigLoader for TLC.                               *)
EXTENDS ConfigLoader
=============================================================================
