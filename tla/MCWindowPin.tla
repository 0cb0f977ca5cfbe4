---------------------------- MODULE MCWindowPin ----------------------------
(* A small instance of WindowPin for TLC.  Its run checks liveness, so it uses *)
(* no symmetry.                                                                *)
EXTENDS WindowPin
=============================================================================
