---------------------------- MODULE MCMotu424Position --------------------------
(* Values of the constants of Motu424Position for TLC, and the frontend with  *)
(* its data callbacks as an implementation of AudioEngine.                    *)
EXTENDS Motu424Position, Motu424PcmEngine

OnlyPlayback == {"playback"}
AllOps == Ops
CleanBoot == SUBSET {"FPGA_RESET"}

(* Not valid, a frame of the buffer, the buffer's end, and out of it. *)
SomeCounters == {0, 2, 5, 99}
===============================================================================
