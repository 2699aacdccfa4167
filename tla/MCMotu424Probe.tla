---------------------------- MODULE MCMotu424Probe ----------------------------
(* Motu424Probe with a bound for TLC: see the configurations probe*.cfg. *)
EXTENDS Motu424Probe
===============================================================================
