-------------------------- MODULE Motu424FpgaProofs ---------------------------
(***************************************************************************)
(* Theorems about Motu424Fpga, for images of every length and content.     *)
(***************************************************************************)
EXTENDS Motu424Fpga, TLAPS

(* Where the loops stand at each write, and what is on the lines there: the *)
(* clock is low before each pulse, with the data of the bit already set.    *)
LoopInv ==
  /\ pc \in {"reset", "clear", "refused"} => i = 0 /\ bit = 0 /\ valPrev = 0
  /\ pc \in {"prev", "current", "pulse"} => i < Len(image)
  /\ pc \in {"finish", "done"} => i = Len(image) /\ bit = 0
  /\ pc = "clear" => image # << >>
  /\ pc \in {"clear", "prev", "current", "pulse", "finish"} => mode = "config"
  /\ pc \in {"prev", "current"} => data = valPrev
  /\ pc \in {"current", "pulse"} => clk = 0
  /\ pc = "pulse" => data = DataBit(i, bit)

IInv == TypeOK /\ LoopInv /\ ShiftedIsPrefix

(* Bit b of byte n is bit 8n + b of the stream. *)
LEMMA StreamBitOfByte ==
  ASSUME NEW n \in Nat, NEW b \in Bits
  PROVE  StreamBit(8 * n + b) = DataBit(n, b)
<1>1. (8 * n + b) \div 8 = n /\ (8 * n + b) % 8 = b
      BY DEF Bits
<1> QED BY <1>1 DEF StreamBit, DataBit

(* A bit of the image is a bit. *)
LEMMA DataBitType ==
  ASSUME TypeOK, i < Len(image)
  PROVE  DataBit(i, bit) \in {0, 1}
<1>1. image \in Seq(Byte) /\ i + 1 \in 1..Len(image)
      BY ImagesAssumption DEF TypeOK
<1>2. image[i + 1] \in Byte
      BY <1>1
<1> QED BY <1>2 DEF DataBit, Byte, TypeOK

LEMMA LoadInit == Init => IInv
<1> SUFFICES ASSUME Init PROVE IInv
    OBVIOUS
<1>1. image \in Seq(Byte) /\ Len(image) \in Nat
      BY ImagesAssumption DEF Init
<1> QED BY <1>1 DEF Init, IInv, TypeOK, LoopInv, ShiftedIsPrefix, Locations, Bits

LEMMA LoadStep == IInv /\ [Next]_vars => IInv'
<1> SUFFICES ASSUME IInv, [Next]_vars PROVE IInv'
    OBVIOUS
<1>a. /\ image \in Seq(Byte) /\ Len(image) \in Nat
      /\ i \in Nat /\ i <= Len(image) /\ bit \in Bits
      /\ image = << >> <=> Len(image) = 0
      BY ImagesAssumption DEF IInv, TypeOK
<1>1. CASE Reset
      BY <1>1, <1>a DEF Reset, IInv, TypeOK, LoopInv, ShiftedIsPrefix, StreamBit,
                  Locations
<1>2. CASE Clear
      BY <1>2, <1>a DEF Clear, Drive, IInv, TypeOK, LoopInv, ShiftedIsPrefix,
                  StreamBit, Locations
<1>3. CASE WritePrev
      BY <1>3, <1>a DEF WritePrev, Drive, IInv, TypeOK, LoopInv, ShiftedIsPrefix,
                  StreamBit, Locations
<1>4. CASE WriteCurrent
  <2>1. DataBit(i, bit) \in {0, 1} /\ DataBit(i, bit)' = DataBit(i, bit)
        BY <1>4, DataBitType DEF WriteCurrent, IInv, LoopInv, DataBit
  <2> QED BY <1>4, <1>a, <2>1 DEF WriteCurrent, Drive, IInv, TypeOK, LoopInv,
                  ShiftedIsPrefix, StreamBit, Locations
<1>5. CASE WritePulse
  <2>1. pc = "pulse" /\ clk = 0 /\ mode = "config" /\ i < Len(image)
        BY <1>5 DEF WritePulse, IInv, LoopInv
  <2>2. shifted' = Append(shifted, DataBit(i, bit))
        BY <1>5, <2>1 DEF WritePulse, Drive
  <2>3. DataBit(i, bit) \in {0, 1}
        BY <2>1, DataBitType DEF IInv
  <2>4. 8 * i' + bit' = 8 * i + bit + 1 /\ i' \in 0..Len(image) /\ bit' \in Bits
    <3>1. Advance
          BY <1>5 DEF WritePulse
    <3>2. CASE bit < 7
          BY <3>1, <3>2, <2>1, <1>a DEF Advance, Bits
    <3>3. CASE bit = 7
          BY <3>1, <3>3, <2>1, <1>a DEF Advance, Bits
    <3> QED BY <3>2, <3>3, <1>a DEF Bits
  <2>5. ShiftedIsPrefix'
    <3>1. shifted \in Seq({0, 1}) /\ Len(shifted) = 8 * i + bit
          BY DEF IInv, TypeOK, ShiftedIsPrefix
    <3>2. Len(shifted') = 8 * i' + bit'
      <4>1. Len(shifted') = Len(shifted) + 1
            BY <2>2, <2>3, <3>1
      <4> QED BY <4>1, <2>4, <3>1
    <3>3. ASSUME NEW n \in 1..Len(shifted') PROVE shifted'[n] = StreamBit(n - 1)'
      <4>1. StreamBit(n - 1)' = StreamBit(n - 1)
            BY <1>5 DEF WritePulse, StreamBit
      <4>2. CASE n \in 1..Len(shifted)
            BY <2>2, <2>3, <3>1, <4>1, <4>2 DEF IInv, ShiftedIsPrefix
      <4>3. CASE n = Len(shifted) + 1
        <5>1. n - 1 = 8 * i + bit
              BY <4>3, <3>1, <1>a DEF Bits
        <5>2. StreamBit(n - 1) = DataBit(i, bit)
              BY <5>1, StreamBitOfByte, <1>a
        <5> QED BY <2>2, <2>3, <3>1, <4>1, <4>3, <5>2
      <4> QED BY <4>2, <4>3, <3>1, <2>2, <2>3
    <3> QED BY <3>2, <3>3 DEF ShiftedIsPrefix
  <2>6. shifted' \in Seq({0, 1})
        BY <2>2, <2>3 DEF IInv, TypeOK
  <2>7. TypeOK'
        BY <1>5, <2>3, <2>4, <2>6 DEF WritePulse, Drive, Advance, IInv, TypeOK,
                  Locations
  <2>8. LoopInv'
        BY <1>5, <2>1, <1>a DEF WritePulse, Drive, Advance, IInv, LoopInv, Bits
  <2> QED BY <2>5, <2>7, <2>8 DEF IInv
<1>6. CASE Finish
      BY <1>6, <1>a DEF Finish, IInv, TypeOK, LoopInv, ShiftedIsPrefix, StreamBit,
                  Locations
<1>7. CASE UNCHANGED vars
      BY <1>7 DEF vars, IInv, TypeOK, LoopInv, ShiftedIsPrefix, StreamBit, DataBit
<1> QED BY <1>1, <1>2, <1>3, <1>4, <1>5, <1>6, <1>7 DEF Next, Step, Terminated

LEMMA LoadCorrect == Spec => []IInv
BY LoadInit, LoadStep, PTL DEF Spec

(* For every image, at every moment the FPGA has shifted in exactly the     *)
(* bits the loops have passed, least significant bit of each byte first.    *)
THEOREM EveryBitOnce == Spec => []ShiftedIsPrefix
<1>1. IInv => ShiftedIsPrefix
      BY DEF IInv
<1> QED BY <1>1, LoadCorrect, PTL

(* For every image, the FPGA leaves configuration mode with all of it. *)
THEOREM WholeImage == Spec => []LoadedIsComplete
<1>1. IInv => LoadedIsComplete
  <2> SUFFICES ASSUME IInv, mode = "loaded", pc # "reset", pc # "refused"
               PROVE  Len(shifted) = StreamLength
      BY DEF LoadedIsComplete
  <2>1. pc \in {"finish", "done"}
        BY DEF IInv, TypeOK, LoopInv, Locations
  <2>2. i = Len(image) /\ bit = 0
        BY <2>1 DEF IInv, LoopInv
  <2>3. Len(image) \in Nat
        BY ImagesAssumption DEF IInv, TypeOK
  <2> QED BY <2>2, <2>3 DEF IInv, ShiftedIsPrefix, StreamLength
<1> QED BY <1>1, LoadCorrect, PTL

(* For every image, the data line never changes with an edge of the clock.  *)
THEOREM SetupAndHold == Spec => DataStableAtEdges
<1>1. IInv /\ [Next]_vars =>
        [mode = "config" /\ pc # "clear" /\ data' # data
           => clk = 0 /\ clk' = 0]_vars
  <2> SUFFICES ASSUME IInv, Next, mode = "config", pc # "clear", data' # data
               PROVE  clk = 0 /\ clk' = 0
      BY DEF vars
  <2>1. CASE WriteCurrent
        BY <2>1 DEF WriteCurrent, Drive, IInv, LoopInv
  <2>2. CASE WritePrev
        BY <2>2 DEF WritePrev, Drive, IInv, LoopInv
  <2>3. CASE WritePulse
        BY <2>3 DEF WritePulse, Drive, IInv, LoopInv
  <2> QED BY <2>1, <2>2, <2>3 DEF Next, Step, Reset, Clear, Finish, Terminated, vars
<1> QED BY <1>1, LoadCorrect, PTL DEF Spec, DataStableAtEdges

(* For every image, every variable of the loader keeps its type: the loops  *)
(* end at the image's length and at bit 7.  (motu424_load_fpga)             *)
THEOREM LoaderTypes == Spec => []TypeOK
<1>1. IInv => TypeOK
      BY DEF IInv
<1> QED BY <1>1, LoadCorrect, PTL

-------------------------------------------------------------------------------
(* Loading implements ShiftRegister.                                        *)

StreamOf == [n \in 1..StreamLength |-> StreamBit(n - 1)]

(* The stream of an image is a sequence of bits, eight for each byte. *)
LEMMA StreamType ==
  ASSUME image \in Seq(Byte)
  PROVE  StreamOf \in Seq({0, 1}) /\ Len(StreamOf) = StreamLength
<1>1. Len(image) \in Nat /\ StreamLength \in Nat
      BY DEF StreamLength
<1>2. ASSUME NEW n \in 1..StreamLength PROVE StreamBit(n - 1) \in {0, 1}
  <2>1. (n - 1) \div 8 \in 0..(Len(image) - 1) /\ (n - 1) % 8 \in Bits
        BY <1>1, <1>2 DEF StreamLength, Bits
  <2>2. image[((n - 1) \div 8) + 1] \in Byte
        BY <1>1, <2>1
  <2> QED BY <2>1, <2>2 DEF StreamBit, Byte
<1> QED BY <1>1, <1>2 DEF StreamOf

(* A step takes the next bit of the stream, or leaves the register alone.   *)
LEMMA RegisterStep ==
  IInv /\ [Next]_vars => [Register!Shift]_<<StreamOf, shifted>>
<1> SUFFICES ASSUME IInv, [Next]_vars
             PROVE  Register!Shift \/ UNCHANGED <<StreamOf, shifted>>
    BY DEF StreamOf
<1>a. image \in Seq(Byte) /\ Len(image) \in Nat /\ i \in Nat /\ bit \in Bits
      BY ImagesAssumption DEF IInv, TypeOK
<1>1. image' = image
      BY DEF Next, Step, Reset, Clear, WritePrev, WriteCurrent, WritePulse, Finish,
             Terminated, vars
<1>2. StreamOf' = StreamOf
      BY <1>1 DEF StreamOf, StreamLength, StreamBit
<1>3. CASE WritePulse
  <2>1. /\ i < Len(image) /\ Len(shifted) = 8 * i + bit
        /\ shifted' = Append(shifted, DataBit(i, bit))
        BY <1>3 DEF WritePulse, Drive, IInv, LoopInv, ShiftedIsPrefix
  <2>2. Len(shifted) < StreamLength /\ Len(shifted) + 1 \in 1..StreamLength
        BY <1>a, <2>1 DEF StreamLength, Bits
  <2>3. StreamOf[Len(shifted) + 1] = DataBit(i, bit)
    <3>1. StreamOf[Len(shifted) + 1] = StreamBit(8 * i + bit)
          BY <1>a, <2>1, <2>2 DEF StreamOf, Bits
    <3> QED BY <1>a, <3>1, StreamBitOfByte
  <2> QED BY <1>2, <1>a, <2>1, <2>2, <2>3, StreamType DEF Register!Shift, StreamOf
<1>4. CASE Clear \/ WritePrev \/ WriteCurrent
      BY <1>2, <1>4 DEF Clear, WritePrev, WriteCurrent, Drive
<1> QED BY <1>2, <1>3, <1>4
        DEF Next, Step, Reset, Finish, Terminated, vars

(* For every image, the FPGA takes the bits of its stream one after the     *)
(* other, each once, in order, and none after the last.  That it comes to   *)
(* the last is the fairness of ShiftRegister!Spec, and is model-checked.    *)
(* (motu424_load_fpga: the three writes per bit inside the two loops)       *)
THEOREM LoadsLikeRegister == Spec => Register!SafeSpec
<1>1. Init => Register!Init
  <2>1. Init => image \in Seq(Byte)
        BY ImagesAssumption DEF Init
  <2> QED BY <2>1, StreamType DEF Init, Register!Init, StreamOf
<1>2. IInv /\ [Next]_vars => [Register!Shift]_<<StreamOf, shifted>>
      BY RegisterStep
<1> QED BY <1>1, <1>2, LoadCorrect, PTL DEF Spec, Register!SafeSpec, StreamOf
===============================================================================
