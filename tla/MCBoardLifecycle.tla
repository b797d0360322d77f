-------------------------- MODULE MCBoardLifecycle --------------------------
(* An instance of BoardLifecycle for TLC.                                  *)
EXTENDS BoardLifecycle

CONSTANTS f1, f2
=============================================================================
