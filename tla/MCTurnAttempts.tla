---------------------------- MODULE MCTurnAttempts ----------------------------
(* A small instance of TurnAttempts for TLC; its constants are in the cfg. *)
EXTENDS TurnAttempts, TLC
=============================================================================
