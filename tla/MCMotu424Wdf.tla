----------------------------- MODULE MCMotu424Wdf -----------------------------
(* Motu424Test, and with it Motu424Wdf, with the resources of BAR2 for TLC. *)
EXTENDS Motu424Test

EitherKind == {"memory", "port"}
===============================================================================
