----------------------------- MODULE MCService -----------------------------
(* Service with the constants of MCService.cfg. *)
EXTENDS Service
=============================================================================
