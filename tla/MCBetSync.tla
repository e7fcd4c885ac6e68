----------------------------- MODULE MCBetSync -----------------------------
(* Instances of BetSync for TLC. *)
EXTENDS BetSync
=============================================================================
