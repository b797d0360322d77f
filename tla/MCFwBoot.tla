------------------------------ MODULE MCFwBoot ------------------------------
(* An instance of FwBoot for TLC.                                          *)
EXTENDS FwBoot

(* Two files that fill a channel and half of the next.                     *)
MCTwoChannels == {<<2, 4>>}
=============================================================================
