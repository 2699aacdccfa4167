----------------------------- MODULE Motu424Golden -----------------------------
(***************************************************************************)
(* The register writes of source/tools/golden, taken from a trace of the   *)
(* original driver: golden_dsp.c and golden_dsp_patch.c are the program of *)
(* the DSP, golden_sequence.c sends most of it again, with the addresses   *)
(* of the DMA buffer in its three pointer words, and then configures it.   *)
(*                                                                         *)
(* The memory of the DSP is told apart by region.  A region holds "zero",  *)
(* "golden" (the traced words), "junk", or an address in the buffer the    *)
(* program asked for ("dma").                                              *)
(***************************************************************************)
EXTENDS Sequences

Mem(region, value) == [do |-> "mem", region |-> region, value |-> value]
Golden(region) == Mem(region, "golden")
Pointer(region) == Mem(region, "dma")

(* golden_dsp.c: 0x0 - 0xb44 *)
DspVector == Golden("vector")
DspKernel == Golden("kernel")
golden_dsp == <<DspVector, DspKernel>>

(* golden_dsp_patch.c: 0xb48 - 0x6e70 without 0x259c, 0x5bb4 and 0x5bcc; the *)
(* last line goes to the vector, where golden_sequence.c has the FPGA port.  *)
PatchText1 == Golden("text1")
PatchText2 == Golden("text2")
PatchRouting == Golden("routing")
PatchText3 == Golden("text3")
PatchText4 == Golden("text4")
PatchText5 == Golden("text5")
PatchRate == Golden("rate")
PatchText6 == Golden("text6")
PatchVector == Mem("vector", "zero")
golden_dsp_patch ==
  <<PatchText1, PatchText2, PatchRouting, PatchText3, PatchText4, PatchText5,
    PatchRate, PatchText6, PatchVector>>

(* golden_sequence.c *)
SeqText1 == Golden("text1")
SeqPointer1 == Pointer("pointer1")
SeqText2 == Golden("text2")
SeqRouting == Golden("routing")
SeqText3 == Golden("text3")
SeqPointer2 == Pointer("pointer2")
SeqText4 == Golden("text4")
SeqPointer3 == Pointer("pointer3")
SeqText5 == Golden("text5")
SeqRate == Golden("rate")
SeqText6 == Golden("text6")
SeqStart == [do |-> "start"]
SeqLevels == Golden("levels")
SeqClock == Golden("clock")
SeqBuffers == Pointer("buffers")
SeqSlots == Golden("slots")
SeqRun == Golden("run")
golden_sequence ==
  <<SeqText1, SeqPointer1, SeqText2, SeqRouting, SeqText3, SeqPointer2, SeqText4,
    SeqPointer3, SeqText5, SeqRate, SeqText6, SeqStart, SeqLevels, SeqClock, SeqBuffers,
    SeqSlots, SeqRun>>

Pointers == {"pointer1", "pointer2", "pointer3"}
ProgramRegions ==
  {"kernel", "text1", "text2", "text3", "text4", "text5", "text6", "routing", "rate"}
Settings == {"levels", "clock", "buffers", "slots", "run"}
Regions == {"vector"} \cup ProgramRegions \cup Pointers \cup Settings
===============================================================================
