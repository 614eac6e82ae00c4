----------------------------- MODULE MCJsonMode -----------------------------
(* Small instances of JsonMode for TLC: the constants are numbers and flags. *)
EXTENDS JsonMode
=============================================================================
