------------------------------- MODULE MCHost -------------------------------
(* Small instances of Host for TLC; the constants are in the configurations. *)
EXTENDS Host
=============================================================================
