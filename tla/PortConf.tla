------------------------------- MODULE PortConf -------------------------------
(***************************************************************************)
(* The port-configuration register (BAR1 + 0x00) of the PCI-424 as the set *)
(* of the flags that are 1 in it, and the values the driver computes for   *)
(* it.  The bits the driver does not name are never changed by it and are  *)
(* left out.                                                               *)
(***************************************************************************)

(* The named bits: motu424_hw.h, MOTU_PORT_CONF_*. *)
Flags == {"DMA_EN", "FPGA_RESET", "RUN", "DMA_RD", "START"}

(* Mutant: the bit numbers of the register's documentation (0, 1 and 2). *)
StartedConf_DocumentedBits(conf, stream) == conf \cup {"bit 0", "bit 1", "bit 2"}

(* val |= DMA_EN | RUN, then DMA_RD set for playback, cleared for capture. *)
StartedConf(conf, stream) ==
  IF stream = "playback" THEN conf \cup {"DMA_EN", "RUN", "DMA_RD"}
                         ELSE (conf \cup {"DMA_EN", "RUN"}) \ {"DMA_RD"}

(* Mutant: a stop that only disables DMA, as a pause does. *)
StoppedConf_OnlyDma(conf) == conf \ {"DMA_EN"}

(* val &= ~(DMA_EN | RUN | DMA_RD | START). *)
StoppedConf(conf) == conf \ {"DMA_EN", "RUN", "DMA_RD", "START"}

PausedConf(conf)   == conf \ {"DMA_EN"}
ReleasedConf(conf) == conf \cup {"DMA_EN"}

(* The audio engine moves frames, and counts periods, when both are set.   *)
EngineOn(conf) == {"DMA_EN", "RUN"} \subseteq conf
===============================================================================
