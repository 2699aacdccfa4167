----------------------------- MODULE MCMotu424Pcm -----------------------------
(* Values of the constants of Motu424Pcm for TLC. *)
EXTENDS Motu424PcmEngine

OnlyPlayback == {"playback"}
Duplex == {"playback", "capture"}

AllOps == Ops
StartAndStop == {"PREPARE", "START", "STOP"}

(* What PORT_CONF holds when the card is registered: after motu424_hw_stop  *)
(* or a reset of the card the flags of the engine are clear; after a crash  *)
(* while a substream ran they may be set, for nothing in motu424_full_init  *)
(* writes the register.                                                     *)
CleanBoot == SUBSET {"FPGA_RESET"}
ResetBoot == {{}}
CrashBoot == {{}, {"DMA_EN", "RUN"}, {"DMA_EN", "RUN", "DMA_RD", "START"}}
===============================================================================
