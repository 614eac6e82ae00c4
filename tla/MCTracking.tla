----------------------------- MODULE MCTracking -----------------------------
(* Small instances of Tracking for TLC. *)
EXTENDS Tracking
=============================================================================
