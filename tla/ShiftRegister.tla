---------------------------- MODULE ShiftRegister -----------------------------
(***************************************************************************)
(* What loading the FPGA promises: its configuration register takes the    *)
(* bits of a stream one after the other, each once, in order, to the last. *)
(***************************************************************************)
EXTENDS Naturals, Sequences

VARIABLES
  stream,   \* the bits to load
  shifted   \* the bits taken so far

Init == shifted = << >> /\ stream \in Seq({0, 1})

Shift ==
  /\ Len(shifted) < Len(stream)
  /\ shifted' = Append(shifted, stream[Len(shifted) + 1])
  /\ UNCHANGED stream

SafeSpec == Init /\ [][Shift]_<<stream, shifted>>

Spec == SafeSpec /\ WF_<<stream, shifted>>(Shift)
===============================================================================
