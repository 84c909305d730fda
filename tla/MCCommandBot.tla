--------------------------- MODULE MCCommandBot ---------------------------
(* CommandBot with small constants for TLC. *)
EXTENDS CommandBot
===========================================================================
