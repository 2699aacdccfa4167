------------------------------ MODULE Motu424Fpga -----------------------------
(***************************************************************************)
(* motu424_load_fpga (source/shared/motu424_fpga.c): the bitstream, written *)
(* bit by bit to one register of BAR1 whose bit 5 is the serial data line   *)
(* and whose bit 7 is the clock of the FPGA's configuration port.           *)
(*                                                                          *)
(* A byte is the function of its eight bits, 0 being the least significant. *)
(* Bit 6 of the register, always 1 in the loop, is left out.  The FPGA is   *)
(* not in the repository: it is taken to shift the data line in whenever    *)
(* the clock rises while it is in configuration mode.                       *)
(***************************************************************************)
EXTENDS Integers, Sequences

CONSTANT Images  \* the firmware images that may be given: sequences of bytes

Bits == 0..7
Byte == [Bits -> {0, 1}]

ASSUME ImagesAssumption == Images \subseteq Seq(Byte)

VARIABLES
  image,    \* fw_data and fw_size
  pc,       \* the next register write
  i, bit,   \* the loops over the bytes and over the bits of a byte
  valPrev,  \* the data bit of val_prev
  data, clk,\* the data and the clock line (BAR1 0x300008)
  mode,     \* the FPGA: "user", "config" or "loaded"
  shifted   \* what the FPGA has shifted in

vars == <<image, pc, i, bit, valPrev, data, clk, mode, shifted>>

Locations == {"reset", "clear", "prev", "current", "pulse", "finish", "done",
              "refused"}

TypeOK ==
  /\ image \in Images
  /\ pc \in Locations
  /\ i \in 0..Len(image)
  /\ bit \in Bits
  /\ valPrev \in {0, 1} /\ data \in {0, 1} /\ clk \in {0, 1}
  /\ mode \in {"user", "config", "loaded"}
  /\ shifted \in Seq({0, 1})

Init ==
  /\ image \in Images
  /\ pc = "reset"
  /\ i = 0 /\ bit = 0
  /\ valPrev = 0
  /\ data \in {0, 1} /\ clk \in {0, 1}
  /\ mode \in {"user", "loaded"}
  /\ shifted = << >>

(* A write of the register: the FPGA acts on the rising edge of the clock. *)
Drive(d, c) ==
  /\ data' = d /\ clk' = c
  /\ shifted' = IF mode = "config" /\ clk = 0 /\ c = 1 THEN Append(shifted, d)
                                                       ELSE shifted

(* An empty image is refused; BAR2 0x4 = 1 starts the configuration. *)
Reset ==
  /\ pc = "reset"
  /\ IF image = << >>
       THEN pc' = "refused" /\ UNCHANGED mode
       ELSE pc' = "clear" /\ mode' = "config"
  /\ UNCHANGED <<image, i, bit, valPrev, data, clk, shifted>>

(* The pre-configuration registers, and 0 on every line. *)
Clear ==
  /\ pc = "clear"
  /\ Drive(0, 0)
  /\ pc' = "prev"
  /\ UNCHANGED <<image, i, bit, valPrev, mode>>

(* Mutant: bits taken from the most significant down. *)
DataBit_MsbFirst(n, b) == image[n + 1][7 - b]

(* byte & (1 << bit) *)
DataBit(n, b) == image[n + 1][b]

(* Mutant: val_prev is not written, the data changes under the high clock. *)
WritePrev_Skipped ==
  /\ pc = "prev"
  /\ pc' = "current"
  /\ UNCHANGED <<image, i, bit, valPrev, data, clk, mode, shifted>>

WritePrev ==
  /\ pc = "prev"
  /\ Drive(valPrev, 0)
  /\ pc' = "current"
  /\ UNCHANGED <<image, i, bit, valPrev, mode>>

WriteCurrent ==
  /\ pc = "current"
  /\ Drive(DataBit(i, bit), 0)
  /\ pc' = "pulse"
  /\ UNCHANGED <<image, i, bit, valPrev, mode>>

(* Mutants: the inner loop stops one bit short; the outer one byte short.   *)
Advance_SevenBits ==
  IF bit < 6
    THEN bit' = bit + 1 /\ i' = i /\ pc' = "prev"
    ELSE /\ bit' = 0 /\ i' = i + 1
         /\ pc' = IF i + 1 < Len(image) THEN "prev" ELSE "finish"

Advance_ByteShort ==
  IF bit < 7
    THEN bit' = bit + 1 /\ i' = i /\ pc' = "prev"
    ELSE /\ bit' = 0 /\ i' = i + 1
         /\ pc' = IF i + 2 < Len(image) THEN "prev" ELSE "finish"

(* bit++, and i++ after the last bit. *)
Advance ==
  IF bit < 7
    THEN bit' = bit + 1 /\ i' = i /\ pc' = "prev"
    ELSE /\ bit' = 0 /\ i' = i + 1
         /\ pc' = IF i + 1 < Len(image) THEN "prev" ELSE "finish"

WritePulse ==
  /\ pc = "pulse"
  /\ Drive(DataBit(i, bit), 1)
  /\ valPrev' = DataBit(i, bit)
  /\ Advance
  /\ UNCHANGED <<image, mode>>

(* 0x300004 = 0xC0 and BAR2 0x8 = 0 end the configuration; the status that  *)
(* is read then is only logged.                                             *)
Finish ==
  /\ pc = "finish"
  /\ mode' = "loaded"
  /\ pc' = "done"
  /\ UNCHANGED <<image, i, bit, valPrev, data, clk, shifted>>

Terminated == pc \in {"done", "refused"} /\ UNCHANGED vars

Step ==
  Reset \/ Clear \/ WritePrev \/ WriteCurrent \/ WritePulse \/ Finish

Next == Step \/ Terminated

(* The function runs to completion on the CPU that called it. *)
Spec == Init /\ [][Next]_vars /\ WF_vars(Step)

-------------------------------------------------------------------------------
(* Number of bits of the stream, and its n-th bit from 0: least significant *)
(* bit of the first byte first.                                             *)
StreamLength == 8 * Len(image)
StreamBit(n) == image[(n \div 8) + 1][n % 8]

(* The FPGA has at every moment shifted in exactly the bits the loops have  *)
(* passed, in stream order: no bit lost, doubled or turned round.           *)
(* (the three writes per bit, the loop bounds and the bit order)            *)
ShiftedIsPrefix ==
  /\ Len(shifted) = 8 * i + bit
  /\ \A n \in 1..Len(shifted) : shifted[n] = StreamBit(n - 1)

(* The FPGA is taken out of configuration mode with the whole image and     *)
(* nothing else in it.  (the loop bounds, and the order of the last writes) *)
LoadedIsComplete ==
  mode = "loaded" /\ pc # "reset" /\ pc # "refused" => Len(shifted) = StreamLength

(* Set-up and hold: in configuration mode the data line changes only while  *)
(* the clock is low before and after the write, so never together with an   *)
(* edge.  (why val_prev is written again before each bit)                   *)
DataStableAtEdges ==
  [][mode = "config" /\ pc # "clear" /\ data' # data
       => clk = 0 /\ clk' = 0]_vars

(* Loading is a shift register taking the stream, and comes to its end.     *)
Register == INSTANCE ShiftRegister
  WITH stream <- [n \in 1..StreamLength |-> StreamBit(n - 1)]
ImplementsRegister == Register!Spec
===============================================================================
