------------------------- MODULE MCMotu424Prototype ---------------------------
(* Values of the constants of Motu424Prototype for TLC. *)
EXTENDS Motu424Prototype

TwoSizes == {1, 2}
===============================================================================
