-------------------------- MODULE Motu424InitProofs ---------------------------
(***************************************************************************)
(* Theorems about Motu424Init, for sequences of every length and content,  *)
(* memories of every size and every address of the buffer.                 *)
(***************************************************************************)
EXTENDS Motu424Init, TLAPS

(* Arithmetic of the halves of a word. *)
LEMMA InHalf == ASSUME NEW x \in Int, 0 <= x, x <= 65535 PROVE x \in Half
BY DEF Half

LEMMA OfHalf == ASSUME NEW x \in Half PROVE x \in Int /\ 0 <= x /\ x <= 65535
BY DEF Half

LEMMA OrOffset ==
  ASSUME NEW x \in Half, NEW y \in Half
  PROVE  (4096 * (x \div 4096)) + (y % 4096) \in Half
<1>1. x \in Int /\ 0 <= x /\ x <= 65535
      BY OfHalf
<1>2. x \div 4096 \in Int /\ 0 <= x \div 4096 /\ x \div 4096 <= 15
      BY <1>1
<1>3. y % 4096 \in Int /\ 0 <= y % 4096 /\ y % 4096 <= 4095
      BY OfHalf
<1>4. /\ 4096 * (x \div 4096) \in Int
      /\ 0 <= 4096 * (x \div 4096) /\ 4096 * (x \div 4096) <= 61440
      BY <1>2
<1> QED BY <1>3, <1>4, InHalf

LEMMA Modulo == ASSUME NEW x \in Int PROVE x % 65536 \in Half
BY DEF Half

LEMMA NoCarry ==
  ASSUME NEW x \in Half PROVE x % 65536 = x /\ x \div 65536 = 0
<1>1. x \in Int /\ 0 <= x /\ x < 65536
      BY OfHalf
<1>2. x % 65536 = x
      BY <1>1
<1>3. x \div 65536 = 0
      BY <1>1
<1> QED BY <1>2, <1>3

LEMMA PageOffset ==
  ASSUME NEW y \in Half
  PROVE  y % 4096 \in Half /\ 8192 + (y % 4096) \in Half
<1>1. y % 4096 \in Int /\ 0 <= y % 4096 /\ y % 4096 <= 4095
      BY OfHalf
<1> QED BY <1>1, InHalf

(* The translation of a word is a word. *)
LEMMA TranslateType ==
  ASSUME NEW dm \in Word, NEW v \in Word
  PROVE  Translate(dm, v) \in Word
<1>1. v.hi \in Half /\ v.lo \in Half /\ dm.hi \in Half /\ dm.lo \in Half
      BY DEF Word
<1>2. CASE IsMagic1(v)
  <2>1. (4096 * (dm.lo \div 4096)) + (v.lo % 4096) \in Half
        BY <1>1, OrOffset
  <2> QED BY <1>1, <1>2, <2>1 DEF Translate, Word
<1>3. CASE IsMagic5(v) /\ ~IsMagic1(v)
  <2>1. /\ (dm.hi + 34 + (dm.lo + (8192 + (v.lo % 4096))) \div 65536) % 65536 \in Half
        /\ (dm.lo + (8192 + (v.lo % 4096))) % 65536 \in Half
        BY <1>1, Modulo, OfHalf
  <2> QED BY <1>1, <1>3, <2>1 DEF Translate, Word, Plus
<1>4. CASE ~IsMagic1(v) /\ ~IsMagic5(v)
      BY <1>1, <1>4 DEF Translate, Word
<1> QED BY <1>2, <1>3, <1>4

(* With a buffer aligned to 64 KB, or-ing the offset in is adding it. *)
LEMMA TranslateRelocates ==
  ASSUME NEW dm \in Word, NEW v \in Word, Aligned(dm)
  PROVE  Translate(dm, v) = Relocated(dm, v)
<1>1. v.hi \in Half /\ v.lo \in Half /\ dm.hi \in Half /\ dm.lo = 0
      BY DEF Word, Aligned
<1>2. CASE IsMagic1(v)
  <2> DEFINE o == v.lo % 4096
  <2>1. o \in Half
        BY <1>1, PageOffset
  <2>2. (4096 * (dm.lo \div 4096)) + o = o /\ dm.lo + o = o
        BY <1>1, <2>1, OfHalf
  <2>3. o % 65536 = o /\ o \div 65536 = 0
        BY <2>1, NoCarry
  <2>4. (dm.hi + 0 + 0) % 65536 = dm.hi
        BY <1>1, NoCarry, OfHalf
  <2>5. Plus(dm, 0, o) = [hi |-> dm.hi, lo |-> o]
        BY <2>2, <2>3, <2>4 DEF Plus
  <2> QED BY <1>2, <2>2, <2>5 DEF Translate, Relocated
<1>3. CASE IsMagic4(v) /\ ~IsMagic1(v) /\ ~IsMagic2(v) /\ ~IsMagic3(v)
  <2>1. dm.lo + v.lo = v.lo
        BY <1>1, OfHalf
  <2>2. v.lo % 65536 = v.lo /\ v.lo \div 65536 = 0
        BY <1>1, NoCarry
  <2>3. (dm.hi + 0 + 0) % 65536 = dm.hi
        BY <1>1, NoCarry, OfHalf
  <2>4. Plus(dm, 0, v.lo) = [hi |-> dm.hi, lo |-> v.lo]
        BY <2>1, <2>2, <2>3 DEF Plus
  <2> QED BY <1>3, <2>4 DEF Translate, Relocated
<1>4. CASE ~IsMagic1(v) /\ ~IsMagic4(v)
      BY <1>4 DEF Translate, Relocated
<1>5. CASE ~IsMagic1(v) /\ (IsMagic2(v) \/ IsMagic3(v))
      BY <1>5 DEF Translate, Relocated
<1> QED BY <1>2, <1>3, <1>4, <1>5

(* No translated word is an address of the Windows buffers. *)
LEMMA TranslateLeavesNone ==
  ASSUME NEW dm \in Word, NEW v \in Word, Apart(dm)
  PROVE  ~IsWindows(Translate(dm, v))
<1> DEFINE Foreign == {4241, 65159, 36864, 49111, 49145}
<1>1. v.hi \in Half /\ v.lo \in Half /\ dm.hi \in Half /\ dm.lo = 0
      BY DEF Word, Apart, Aligned
<1>2. ASSUME NEW w, w.hi \notin Foreign PROVE ~IsWindows(w)
      BY <1>2 DEF IsWindows, IsMagic1, IsMagic2, IsMagic3, IsMagic4, IsMagic5
<1>3. dm.hi \notin Foreign /\ dm.hi + 34 \notin Foreign
      BY <1>1, OfHalf DEF Apart
<1>4. CASE IsMagic1(v)
  <2>1. Translate(dm, v).hi = dm.hi
        BY <1>4 DEF Translate
  <2> QED BY <2>1, <1>2, <1>3
<1>5. CASE ~IsMagic1(v) /\ (IsMagic2(v) \/ IsMagic3(v))
  <2>1. Translate(dm, v) = dm
        BY <1>5 DEF Translate
  <2> QED BY <2>1, <1>2, <1>3
<1>6. CASE ~IsMagic1(v) /\ ~IsMagic2(v) /\ ~IsMagic3(v) /\ IsMagic4(v)
  <2>1. Translate(dm, v).hi = dm.hi
        BY <1>6 DEF Translate
  <2> QED BY <2>1, <1>2, <1>3
<1>7. CASE ~IsMagic1(v) /\ ~IsMagic2(v) /\ ~IsMagic3(v) /\ ~IsMagic4(v) /\ IsMagic5(v)
  <2>1. Translate(dm, v) = Plus(dm, 34, 8192 + (v.lo % 4096))
        BY <1>7 DEF Translate
  <2>2. (dm.lo + (8192 + (v.lo % 4096))) \div 65536 = 0
    <3>1. 8192 + (v.lo % 4096) \in Half
          BY <1>1, PageOffset
    <3>2. dm.lo + (8192 + (v.lo % 4096)) = 8192 + (v.lo % 4096)
          BY <1>1, <3>1, OfHalf
    <3> QED BY <3>1, <3>2, NoCarry
  <2>3. (dm.hi + 34 + 0) % 65536 = dm.hi + 34
    <3>1. dm.hi + 34 + 0 \in Half /\ dm.hi + 34 + 0 = dm.hi + 34
          BY <1>1, OfHalf, InHalf DEF Apart
    <3> QED BY <3>1, NoCarry
  <2>4. Translate(dm, v).hi = dm.hi + 34
        BY <2>1, <2>2, <2>3 DEF Plus
  <2> QED BY <2>4, <1>2, <1>3
<1>8. CASE ~IsWindows(v)
  <2>1. Translate(dm, v) = v
        BY <1>8 DEF Translate, IsWindows
  <2> QED BY <2>1, <1>8
<1> QED BY <1>4, <1>5, <1>6, <1>7, <1>8 DEF IsWindows

-------------------------------------------------------------------------------
(* Where the thread is and what its counters say there. *)
CtlInv ==
  /\ pc \notin {"zero", "rezero"} => zeroed = {}
  /\ pc = "poll" => /\ seq = "ok" /\ n < Len(Sequence)
                    /\ Sequence[n + 1].bar = PollMarker
  /\ pc = "status" => iter < PortIters
  /\ pc \in {"alloc", "sg", "fpga", "zero"} \/ seq # "ok" => n = 0
  /\ pc \in {"reset", "vector", "start"} =>
       /\ seq # "malformed"
       /\ seq = "ok" => n = Len(Sequence)
  /\ dmaBuf => dma \in Bases
  /\ pc = "sg" => dmaBuf

Good == TypeOK /\ CtlInv

LEMMA Offsets ==
  /\ {SgPlayback, SgCapture, SgBuffer, SgTransfer, PortAck, PortCmd, SyncStatus,
      Status1, Status2, Status3, BootVector} \subseteq Addr
  /\ Zero \in Word
  /\ [hi |-> 3, lo |-> 0] \in Word /\ [hi |-> 0, lo |-> 1436] \in Word
<1>1. 0 \in Half /\ 3 \in Half /\ 1436 \in Half
      BY DEF Half
<1> QED BY <1>1, AddrAssumption DEF Word, Zero

LEMMA StatusOpsType ==
  \A j \in 1..6 : StatusOps[j].at \in {Status1, Status2, Status3}
<1> SUFFICES ASSUME NEW j \in 1..6
             PROVE  StatusOps[j].at \in {Status1, Status2, Status3}
    OBVIOUS
<1>1. j = 1 \/ j = 2 \/ j = 3 \/ j = 4 \/ j = 5 \/ j = 6
      OBVIOUS
<1> QED BY <1>1 DEF StatusOps

(* The entry at n is an entry, and what is written for it a word. *)
LEMMA EntryType ==
  ASSUME Good, n < Len(Sequence)
  PROVE  /\ Sequence[n + 1] \in Entry
         /\ Value(Sequence[n + 1]) \in Word
         /\ Sequence[n + 1].bar \in {0, PollMarker} => Sequence[n + 1].offset \in Addr
<1>1. n + 1 \in 1..Len(Sequence) /\ Len(Sequence) \in Nat
      BY SequenceAssumption DEF Good, TypeOK
<1>2. Sequence[n + 1] \in Entry
      BY <1>1, SequenceAssumption
<1>3. Sequence[n + 1].value \in Word /\ dma \in Word
      BY <1>2 DEF Entry, Good, TypeOK
<1>4. Value(Sequence[n + 1]) \in Word
      BY <1>3, TranslateType DEF Value
<1> QED BY <1>1, <1>2, <1>4, SequenceAssumption

LEMMA GoodInit == Init => Good
<1> SUFFICES ASSUME Init PROVE Good
    OBVIOUS
<1>1. Len(Sequence) \in Nat
      BY SequenceAssumption
<1>2. /\ ram \in [Addr -> Word] /\ reg \in [Registers -> Word]
      /\ dma \in Word /\ shadow \in Word
      BY Offsets, WordsAssumption DEF Init
<1>3. /\ n \in 0..Len(Sequence) /\ polls \in 0..(PollLimit - 1)
      /\ iter \in 0..PortIters /\ k \in 1..6 /\ result \in {0, -1}
      BY <1>1, LimitsAssumption DEF Init
<1>4. TypeOK
      BY <1>2, <1>3 DEF Init, TypeOK, Locations
<1>5. CtlInv
      BY DEF Init, CtlInv
<1> QED BY <1>4, <1>5 DEF Good

LEMMA GoodStep == Good /\ [Next]_vars => Good'
<1> SUFFICES ASSUME Good, [Next]_vars PROVE Good'
    OBVIOUS
<1>a. /\ Len(Sequence) \in Nat /\ n \in Nat /\ n <= Len(Sequence)
      /\ PollLimit \in Nat \ {0} /\ PortIters \in Nat \ {0}
      BY SequenceAssumption, LimitsAssumption DEF Good, TypeOK
<1>1. CASE AllocDma
  <2>1. dma' \in Word /\ dmaBuf' \in BOOLEAN /\ (dmaBuf' => dma' \in Bases)
    <3>1. CASE dmaBuf' = TRUE /\ dma' \in Bases
          BY <3>1, WordsAssumption
    <3>2. CASE UNCHANGED <<dmaBuf, dma>>
          BY <3>2 DEF Good, TypeOK, CtlInv
    <3> QED BY <1>1, <3>1, <3>2 DEF AllocDma, bufVars
  <2>2. pc' \in {"sg", "fpga", "failed"} /\ (pc' = "sg" => dmaBuf')
        BY <1>1 DEF AllocDma
  <2>3. pc = "alloc" /\ UNCHANGED <<ram, reg, dsp, frontend, fpga, seq, zeroed, n, polls, iter, k,
                                   seen, shadow, result>>
        BY <1>1 DEF AllocDma, hwVars, fwVars, loopVars
  <2>4. TypeOK'
        BY <2>1, <2>2, <2>3 DEF Good, TypeOK, Locations
  <2>5. CtlInv'
        BY <2>1, <2>2, <2>3 DEF Good, CtlInv
  <2> QED BY <2>4, <2>5 DEF Good
<1>2. CASE SetupSg
      BY <1>2, Offsets DEF SetupSg, Good, TypeOK, CtlInv, Locations, Registers,
            fwVars, loopVars, bufVars
<1>3. CASE LoadFpga
      BY <1>3 DEF LoadFpga, Good, TypeOK, CtlInv, Locations, fwVars, loopVars, bufVars
<1>4. CASE ZeroWord
      BY <1>4, Offsets DEF ZeroWord, Good, TypeOK, CtlInv, fwVars, bufVars
<1>5. CASE ZeroDone
      BY <1>5 DEF ZeroDone, Good, TypeOK, CtlInv, Locations, hwVars, fwVars, bufVars
<1>6. CASE SkipReplay
      BY <1>6 DEF SkipReplay, Good, TypeOK, CtlInv, Locations, hwVars, fwVars,
            loopVars, bufVars
<1>7. CASE ReplayWrite
  <2>1. n < Len(Sequence) /\ pc = "replay" /\ seq = "ok" /\ pc' = pc /\ n' = n + 1
        BY <1>7 DEF ReplayWrite
  <2>2. ram' \in [Addr -> Word] /\ reg' \in [Registers -> Word]
        BY <1>7, <2>1, EntryType DEF ReplayWrite, Good, TypeOK
  <2>3. dsp' \in {"stopped", "running"}
        BY <1>7 DEF ReplayWrite, PortWrite, Good, TypeOK
  <2> QED BY <1>7, <1>a, <2>1, <2>2, <2>3 DEF ReplayWrite, Good, TypeOK, CtlInv,
             fwVars, bufVars
<1>8. CASE ReplayPoll
      BY <1>8, <1>a DEF ReplayPoll, Good, TypeOK, CtlInv, Locations, hwVars, fwVars,
            loopVars, bufVars
<1>9. CASE PollEntry
  <2>1. pc = "poll" /\ n < Len(Sequence)
        BY <1>9 DEF PollEntry, Good, CtlInv
  <2>2. pc' \in {"poll", "replay"} /\ polls' \in 0..(PollLimit - 1)
        BY <1>9, <1>a DEF PollEntry, PollRead, Good, TypeOK
  <2> QED BY <1>9, <1>a, <2>1, <2>2 DEF PollEntry, Good, TypeOK, CtlInv, Locations,
             hwVars, fwVars, bufVars
<1>10. CASE ReplayDone
      BY <1>10 DEF ReplayDone, Good, TypeOK, CtlInv, Locations, hwVars, fwVars,
            loopVars, bufVars
<1>11. CASE ResetDsp
      BY <1>11 DEF ResetDsp, PortWrite, Good, TypeOK, CtlInv, Locations, fwVars,
            loopVars, bufVars
<1>12. CASE ClearVector
      BY <1>12, Offsets DEF ClearVector, Good, TypeOK, CtlInv, Locations, fwVars,
            loopVars, bufVars
<1>13. CASE StartDsp
      BY <1>13 DEF StartDsp, PortWrite, Good, TypeOK, CtlInv, Locations, fwVars,
            loopVars, bufVars
<1>14. CASE PortStep
      BY <1>14, <1>a, Offsets DEF PortStep, Good, TypeOK, CtlInv, Locations, fwVars,
            bufVars
<1>15. CASE StatusStep
  <2> DEFINE at == StatusOps[k].at
  <2>a. at \in {Status1, Status2, Status3} /\ at \in Addr
    <3>1. k \in 1..6
          BY DEF Good, TypeOK
    <3> QED BY <3>1, StatusOpsType, Offsets
  <2>b. /\ ram' = ram \/ ram' = [ram EXCEPT ![at] = Zero]
        /\ seen' \subseteq seen \cup {at}
        BY <1>15 DEF StatusStep
  <2>1. /\ ram' \in [Addr -> Word] /\ seen' \in SUBSET {Status1, Status2, Status3}
    <3> HIDE DEF at
    <3>1. ram \in [Addr -> Word] /\ Zero \in Word
          BY Offsets DEF Good, TypeOK
    <3>2. ram' \in [Addr -> Word]
          BY <2>b, <3>1
    <3>3. seen' \in SUBSET {Status1, Status2, Status3}
          BY <2>a, <2>b DEF Good, TypeOK
    <3> QED BY <3>2, <3>3
  <2>2. k' \in 1..6 /\ pc' \in {"status", "port"} /\ iter' \in 0..PortIters
        /\ (pc' = "status" => iter' < PortIters)
        BY <1>15, <1>a DEF StatusStep, Good, TypeOK, CtlInv
  <2> QED BY <1>15, <2>1, <2>2 DEF StatusStep, Good, TypeOK, CtlInv, Locations,
             fwVars, bufVars
<1>16. CASE PortDone
      BY <1>16 DEF PortDone, Good, TypeOK, CtlInv, Locations, hwVars, fwVars,
            loopVars, bufVars
<1>17. CASE ReadShadow
      BY <1>17 DEF ReadShadow, Good, TypeOK, CtlInv, Locations, Registers, hwVars,
            fwVars, loopVars, bufVars
<1>18. CASE PollSync
  <2>1. pc' \in {"sync", "done"} /\ polls' \in 0..(PollLimit - 1)
        BY <1>18, <1>a DEF PollSync, PollRead, Good, TypeOK
  <2> QED BY <1>18, <2>1 DEF PollSync, Good, TypeOK, CtlInv, Locations, hwVars,
             fwVars, bufVars
<1>19. CASE DspWrites
  <2>1. ram' \in [Addr -> Word]
        BY <1>19, WordsAssumption DEF DspWrites, Good, TypeOK
  <2>2. UNCHANGED <<pc, bufVars, reg, dsp, fwVars, loopVars, shadow, result>>
        BY <1>19 DEF DspWrites
  <2> QED BY <2>1, <2>2 DEF Good, TypeOK, CtlInv, fwVars, loopVars, bufVars
<1>20. CASE UNCHANGED vars
      BY <1>20 DEF vars, hwVars, fwVars, loopVars, bufVars, Good, TypeOK, CtlInv
<1> QED BY <1>1, <1>2, <1>3, <1>4, <1>5, <1>6, <1>7, <1>8, <1>9, <1>10, <1>11,
           <1>12, <1>13, <1>14, <1>15, <1>16, <1>17, <1>18, <1>19, <1>20
        DEF Next, Thread, Terminated

LEMMA GoodAlways == Spec => []Good
BY GoodInit, GoodStep, PTL DEF Spec

(* Every variable keeps its type, the counters within their limits.         *)
THEOREM TypeCorrect == Spec => []TypeOK
<1>1. Good => TypeOK
      BY DEF Good
<1> QED BY <1>1, GoodAlways, PTL

(* Nothing starts the DSP after a sequence was refused. *)
THEOREM RefusedStaysStopped == Spec => RefusedNeverStarts
<1>1. Good /\ [Next]_vars =>
        [dsp = "stopped" /\ dsp' = "running" => seq # "malformed"]_vars
  <2> SUFFICES ASSUME Good, Next, dsp = "stopped", dsp' = "running"
               PROVE  seq # "malformed"
      OBVIOUS
  <2>1. CASE ReplayWrite
        BY <2>1 DEF ReplayWrite
  <2>2. CASE StartDsp
        BY <2>2 DEF StartDsp, Good, CtlInv
  <2>3. CASE ~ReplayWrite /\ ~StartDsp
        BY <2>3 DEF Next, Thread, AllocDma, SetupSg, LoadFpga, ZeroWord, ZeroDone,
           SkipReplay, ReplayPoll, PollEntry, ReplayDone, ResetDsp, ClearVector,
           PortStep, StatusStep, PortDone, ReadShadow, PollSync, DspWrites,
           Terminated, PortWrite, hwVars, vars
  <2> QED BY <2>1, <2>2, <2>3
<1> QED BY <1>1, GoodAlways, PTL DEF Spec, RefusedNeverStarts

-------------------------------------------------------------------------------
(* What the theorem needs: a buffer that lies where no Windows buffer did,  *)
(* and a DSP that writes no such address of its own accord.                 *)
CleanWorld ==
  /\ \A b \in Bases : Apart(b)
  /\ \A v \in DspValues : ~IsWindows(v)

Clean(a) == ~IsWindows(ram[a])

Translated == dmaBuf \/ seq # "ok"

ForeignInv ==
  /\ pc \notin {"alloc", "sg", "fpga", "zero", "failed"} /\ Translated =>
       \A a \in Addr : Clean(a)
  /\ pc = "zero" => \A a \in zeroed : Clean(a)

LEMMA ZeroIsClean == ~IsWindows(Zero)
BY DEF IsWindows, IsMagic1, IsMagic2, IsMagic3, IsMagic4, IsMagic5, Zero

LEMMA ForeignInit == Init => ForeignInv
BY DEF Init, ForeignInv

(* A step that only clears words, or writes none, leaves what was clean. *)
LEMMA ClearingIsClean ==
  ASSUME Good, ForeignInv,
         pc \notin {"alloc", "sg", "fpga", "zero", "failed"},
         pc' \notin {"alloc", "sg", "fpga", "zero", "failed"},
         dmaBuf' = dmaBuf, seq' = seq,
         ram' \in [Addr -> Word],
         \A a \in Addr : ram'[a] \in {ram[a], Zero}
  PROVE  ForeignInv'
<1> SUFFICES ASSUME Translated, NEW a \in Addr PROVE Clean(a)'
    BY DEF ForeignInv, Translated
<1>1. Clean(a)
      BY DEF ForeignInv
<1>2. ram'[a] = ram[a] \/ ram'[a] = Zero
      OBVIOUS
<1> QED BY <1>1, <1>2, ZeroIsClean DEF Clean

LEMMA ForeignStep ==
  CleanWorld /\ Good /\ Good' /\ ForeignInv /\ [Next]_vars => ForeignInv'
<1> SUFFICES ASSUME CleanWorld, Good, Good', ForeignInv, [Next]_vars
             PROVE  ForeignInv'
    OBVIOUS
<1> DEFINE Early == {"alloc", "sg", "fpga", "zero", "failed"}
<1>a. ram \in [Addr -> Word] /\ ram' \in [Addr -> Word]
      BY DEF Good, TypeOK
<1>1. CASE AllocDma
      BY <1>1 DEF AllocDma, ForeignInv, CleanWorld
<1>2. CASE SetupSg
      BY <1>2 DEF SetupSg, ForeignInv, bufVars
<1>3. CASE LoadFpga
      BY <1>3 DEF LoadFpga, ForeignInv, bufVars, fwVars, loopVars, Good, CtlInv
<1>4. CASE ZeroWord
  <2>1. pc' = pc /\ dmaBuf' = dmaBuf /\ seq' = seq
        BY <1>4 DEF ZeroWord, bufVars, fwVars
  <2>2. PICK b \in Addr : ram' = [ram EXCEPT ![b] = Zero] /\ zeroed' = zeroed \cup {b}
        BY <1>4 DEF ZeroWord
  <2>3. CASE pc = "rezero"
        BY <2>1, <2>2, <2>3, <1>a, ClearingIsClean
  <2>4. CASE pc = "zero"
    <3>1. ASSUME NEW a \in zeroed' PROVE Clean(a)'
      <4>1. a \in Addr /\ (a = b \/ a \in zeroed)
            BY <2>2 DEF Good, TypeOK
      <4>2. CASE a = b
            BY <2>2, <4>2, <1>a, ZeroIsClean DEF Clean
      <4>3. CASE a # b /\ a \in zeroed
        <5>1. ram'[a] = ram[a]
              BY <2>2, <4>1, <4>3, <1>a
        <5> QED BY <5>1, <4>3, <2>4 DEF Clean, ForeignInv
      <4> QED BY <4>1, <4>2, <4>3
    <3> QED BY <3>1, <2>1, <2>4 DEF ForeignInv
  <2> QED BY <1>4, <2>3, <2>4 DEF ZeroWord
<1>5. CASE ZeroDone
      BY <1>5 DEF ZeroDone, ForeignInv, Translated, Clean, hwVars, bufVars, fwVars
<1>6. CASE ReplayWrite
  <2>1. /\ pc = "replay" /\ pc' = pc /\ n < Len(Sequence)
        /\ seq = "ok" /\ seq' = seq /\ dmaBuf' = dmaBuf
        BY <1>6 DEF ReplayWrite, bufVars, fwVars
  <2> SUFFICES ASSUME dmaBuf PROVE \A a \in Addr : Clean(a)'
      BY <2>1 DEF ForeignInv, Translated
  <2>2. dmaBuf /\ dma \in Word /\ Apart(dma)
        BY <2>1 DEF CleanWorld, Good, TypeOK, CtlInv
  <2> DEFINE e == Sequence[n + 1]
  <2>3. e \in Entry /\ e.value \in Word
        BY <2>1, EntryType DEF Entry
  <2>4. ~IsWindows(Value(e))
        BY <2>2, <2>3, TranslateLeavesNone DEF Value
  <2>5. ASSUME NEW a \in Addr PROVE Clean(a)'
    <3>1. ram'[a] = ram[a] \/ ram'[a] = Value(e)
          BY <1>6, <1>a DEF ReplayWrite
    <3> QED BY <3>1, <2>1, <2>4 DEF Clean, ForeignInv, Translated
  <2> QED BY <2>5
<1>7. CASE DspWrites
  <2>1. pc' = pc /\ dmaBuf' = dmaBuf /\ seq' = seq /\ zeroed' = zeroed
        BY <1>7 DEF DspWrites, bufVars, fwVars, loopVars
  <2>2. PICK v \in DspValues : \E b \in DspWords : ram' = [ram EXCEPT ![b] = v]
        BY <1>7 DEF DspWrites
  <2>3. ~IsWindows(v)
        BY DEF CleanWorld
  <2>4. ASSUME NEW a \in Addr, Clean(a) PROVE Clean(a)'
    <3>1. ram'[a] = ram[a] \/ ram'[a] = v
          BY <2>2, <1>a
    <3> QED BY <3>1, <2>3, <2>4 DEF Clean
  <2> QED BY <2>1, <2>4 DEF ForeignInv, Translated, Good, TypeOK
<1>8. CASE ClearVector \/ PortStep \/ StatusStep
  <2>1. pc \notin Early /\ pc' \notin Early /\ dmaBuf' = dmaBuf /\ seq' = seq
        BY <1>8 DEF ClearVector, PortStep, StatusStep, bufVars, fwVars
  <2>2. \A a \in Addr : ram'[a] \in {ram[a], Zero}
        BY <1>8, <1>a DEF ClearVector, PortStep, StatusStep
  <2> QED BY <2>1, <2>2, <1>a, ClearingIsClean
<1>9. CASE \/ SkipReplay \/ ReplayPoll \/ PollEntry \/ ReplayDone \/ ResetDsp
           \/ StartDsp \/ PortDone \/ ReadShadow \/ PollSync
  <2>1. pc \notin Early /\ dmaBuf' = dmaBuf /\ seq' = seq /\ ram' = ram
        BY <1>9 DEF SkipReplay, ReplayPoll, PollEntry, ReplayDone, ResetDsp, StartDsp,
           PortDone, ReadShadow, PollSync, bufVars, fwVars, hwVars
  <2>2. pc' \notin Early
        BY <1>9 DEF SkipReplay, ReplayPoll, PollEntry, PollRead, ReplayDone, ResetDsp,
           StartDsp, PortDone, ReadShadow, PollSync
  <2> QED BY <2>1, <2>2, <1>a, ClearingIsClean
<1>10. CASE UNCHANGED vars
      BY <1>10 DEF vars, bufVars, fwVars, hwVars, loopVars, ForeignInv, Translated, Clean
<1> QED BY <1>1, <1>2, <1>3, <1>4, <1>5, <1>6, <1>7, <1>8, <1>9, <1>10
        DEF Next, Thread, Terminated

(* For every sequence, every memory and whatever it held before: once the   *)
(* memory has been zeroed, no word of it is a Windows address.              *)
THEOREM NothingForeign == CleanWorld => (Spec => []NoForeignAddress)
<1> SUFFICES ASSUME CleanWorld PROVE Spec => []NoForeignAddress
    OBVIOUS
<1>1. ForeignInv => NoForeignAddress
      BY DEF ForeignInv, Translated, NoForeignAddress, Clean
<1>2. Good /\ Good' /\ ForeignInv /\ [Next]_vars => ForeignInv'
      BY ForeignStep
<1> QED BY <1>1, <1>2, ForeignInit, GoodAlways, PTL DEF Spec

-------------------------------------------------------------------------------
(* With every buffer aligned to 64 KB: while the entries are replayed each  *)
(* of the driver's words holds what the last one that wrote it says.        *)
AllAligned == \A b \in Bases : Aligned(b)

ImageInv ==
  /\ pc = "zero" => \A a \in zeroed \ DspWords : ram[a] = Zero
  /\ pc \in {"replay", "poll", "reset", "vector", "start"} =>
       \A a \in OwnWords : HoldsLast(a, n)
  /\ pc = "start" => ram[BootVector] = Zero \/ BootVector \in DspWords

LEMMA ImageInit == Init => ImageInv
BY DEF Init, ImageInv

(* A step that leaves the driver's words alone leaves what they hold. *)
LEMMA HoldsUnchanged ==
  ASSUME NEW a \in OwnWords, ram'[a] = ram[a], dma' = dma, dmaBuf' = dmaBuf, n' = n
  PROVE  HoldsLast(a, n)' <=> HoldsLast(a, n)
BY DEF HoldsLast, Meant

(* No entry replayed yet, and a word of 0. *)
LEMMA HoldsZero ==
  ASSUME NEW a \in OwnWords, ram[a] = Zero, n = 0 PROVE HoldsLast(a, n)
BY DEF HoldsLast

(* One entry further. *)
LEMMA HoldsNext ==
  ASSUME AllAligned, Good, ReplayWrite \/ (PollEntry /\ n' = n + 1),
         NEW a \in OwnWords, HoldsLast(a, n)
  PROVE  HoldsLast(a, n)'
<1> DEFINE e == Sequence[n + 1]
           W(m) == {j \in 1..m : Writes(Sequence[j], a)}
<1>1. /\ n \in Nat /\ n < Len(Sequence) /\ n' = n + 1
      /\ dma' = dma /\ dmaBuf' = dmaBuf
      BY SequenceAssumption DEF ReplayWrite, PollEntry, bufVars, Good, TypeOK, CtlInv
<1>2. a \in Addr /\ ram \in [Addr -> Word]
      BY DEF OwnWords, Good, TypeOK
<1>3. W(n + 1) = IF Writes(e, a) THEN W(n) \cup {n + 1} ELSE W(n)
      BY <1>1
<1>4. \A v \in {n + 1} \cup W(n) : Meant(Sequence[v])' = Meant(Sequence[v])
      BY <1>1 DEF Meant
<1>5. CASE Writes(e, a)
  <2>1. e.bar = 0 /\ e.offset = a
        BY <1>5 DEF Writes
  <2>2. ReplayWrite
    <3>1. PollEntry => e.bar = PollMarker
          BY DEF PollEntry, Good, CtlInv
    <3>2. PollMarker # 0
          BY DEF PollMarker
    <3> QED BY <2>1, <3>1, <3>2
  <2>3. ram' = [ram EXCEPT ![a] = Value(e)]
        BY <2>1, <2>2 DEF ReplayWrite
  <2>4. ram'[a] = Value(e)
        BY <2>3, <1>2
  <2>5. Value(e) = Meant(e)
    <3>1. e.value \in Word
          BY <1>1, EntryType DEF Entry
    <3>2. dmaBuf => dma \in Word /\ Aligned(dma)
          BY DEF Good, TypeOK, CtlInv, AllAligned
    <3> QED BY <3>1, <3>2, TranslateRelocates DEF Value, Meant
  <2>6. n + 1 \in W(n + 1) /\ \A i \in W(n + 1) : i <= n + 1
        BY <1>1, <1>3, <1>5
  <2>7. \E j \in W(n + 1) : /\ \A i \in W(n + 1) : i <= j
                            /\ ram'[a] = Meant(Sequence[j])'
        BY <2>4, <2>5, <2>6, <1>4
  <2> QED BY <1>1, <2>6, <2>7 DEF HoldsLast
<1>6. CASE ~Writes(e, a)
  <2>1. ram'[a] = ram[a]
    <3>1. CASE ReplayWrite
          BY <1>6, <1>2, <3>1 DEF ReplayWrite, Writes
    <3>2. CASE PollEntry
          BY <3>2 DEF PollEntry, hwVars
    <3> QED BY <3>1, <3>2
  <2>2. W(n + 1) = W(n)
        BY <1>3, <1>6
  <2> QED BY <2>1, <2>2, <1>1, <1>4 DEF HoldsLast, Meant
<1> QED BY <1>5, <1>6

LEMMA ImageStep == AllAligned /\ Good /\ Good' /\ ImageInv /\ [Next]_vars => ImageInv'
<1> SUFFICES ASSUME AllAligned, Good, Good', ImageInv, [Next]_vars
             PROVE  ImageInv'
    OBVIOUS
<1> DEFINE Replaying == {"replay", "poll", "reset", "vector", "start"}
<1>a. ram \in [Addr -> Word]
      BY DEF Good, TypeOK
<1>b. ASSUME pc \in Replaying, UNCHANGED <<dmaBuf, dma, n>>,
             \A a \in OwnWords : ram'[a] = ram[a]
      PROVE  \A a \in OwnWords : HoldsLast(a, n)'
      BY <1>b, HoldsUnchanged DEF ImageInv
<1>1. CASE AllocDma \/ SetupSg \/ PortStep \/ StatusStep \/ PortDone \/ ReadShadow
      BY <1>1 DEF AllocDma, SetupSg, PortStep, StatusStep, PortDone, ReadShadow, ImageInv
<1>2. CASE LoadFpga
      BY <1>2 DEF LoadFpga, ImageInv, loopVars, Good, CtlInv
<1>3. CASE ZeroWord
  <2>1. PICK b \in Addr : ram' = [ram EXCEPT ![b] = Zero] /\ zeroed' = zeroed \cup {b}
        BY <1>3 DEF ZeroWord
  <2>2. pc' = pc /\ pc \in {"zero", "rezero"}
        BY <1>3 DEF ZeroWord
  <2>3. ASSUME pc = "zero", NEW a \in zeroed' \ DspWords PROVE ram'[a] = Zero
        BY <2>1, <2>3, <1>a DEF ImageInv, Good, TypeOK
  <2> QED BY <2>2, <2>3 DEF ImageInv
<1>4. CASE ZeroDone
  <2>1. CASE pc = "rezero"
        BY <1>4, <2>1 DEF ZeroDone, ImageInv
  <2>2. CASE pc = "zero"
    <3>1. n' = 0 /\ pc' = "replay"
          BY <1>4, <2>2 DEF ZeroDone, Good, CtlInv
    <3>2. ASSUME NEW a \in OwnWords PROVE ram'[a] = Zero
          BY <1>4, <2>2 DEF ZeroDone, hwVars, ImageInv, OwnWords
    <3>3. ASSUME NEW a \in OwnWords PROVE HoldsLast(a, n)'
          BY <3>1, <3>2 DEF HoldsLast
    <3> QED BY <3>1, <3>3 DEF ImageInv
  <2> QED BY <1>4, <2>1, <2>2 DEF ZeroDone
<1>5. CASE SkipReplay \/ ReplayPoll \/ ReplayDone \/ ResetDsp
  <2>1. /\ UNCHANGED <<dmaBuf, dma, n>> /\ ram' = ram
        /\ pc \in {"replay", "reset"} /\ pc' \in {"reset", "done", "poll", "vector"}
        BY <1>5 DEF SkipReplay, ReplayPoll, ReplayDone, ResetDsp, bufVars, hwVars,
           loopVars
  <2> QED BY <1>b, <2>1 DEF ImageInv
<1>6. CASE ReplayWrite
  <2>1. pc = "replay" /\ pc' = pc
        BY <1>6 DEF ReplayWrite
  <2>2. \A a \in OwnWords : HoldsLast(a, n)'
        BY <1>6, <2>1, HoldsNext DEF ImageInv
  <2> QED BY <2>1, <2>2 DEF ImageInv
<1>7. CASE PollEntry
  <2>1. pc = "poll" /\ pc' \in {"poll", "replay"} /\ UNCHANGED <<dmaBuf, dma, ram>>
        BY <1>7 DEF PollEntry, PollRead, bufVars, hwVars
  <2>2. CASE pc' = "replay"
    <3>1. n' = n + 1
          BY <1>7, <2>2 DEF PollEntry
    <3>2. \A a \in OwnWords : HoldsLast(a, n)'
          BY <1>7, <2>1, <3>1, HoldsNext DEF ImageInv
    <3> QED BY <2>2, <3>2 DEF ImageInv
  <2>3. CASE pc' = "poll"
    <3>1. n' = n
          BY <1>7, <2>3 DEF PollEntry
    <3> QED BY <1>b, <2>1, <2>3, <3>1 DEF ImageInv
  <2> QED BY <2>1, <2>2, <2>3
<1>8. CASE ClearVector
  <2>1. /\ UNCHANGED <<dmaBuf, dma, n>> /\ pc = "vector" /\ pc' = "start"
        /\ ram' = [ram EXCEPT ![BootVector] = Zero]
        BY <1>8 DEF ClearVector, bufVars, loopVars
  <2>2. \A a \in OwnWords : ram'[a] = ram[a]
        BY <2>1, <1>a DEF OwnWords
  <2>3. ram'[BootVector] = Zero
        BY <2>1, <1>a, Offsets
  <2> QED BY <1>b, <2>1, <2>2, <2>3 DEF ImageInv
<1>9. CASE StartDsp \/ PollSync
  <2>1. pc' \in {"port", "sync", "done"}
        BY <1>9 DEF StartDsp, PollSync, PollRead
  <2> QED BY <2>1 DEF ImageInv
<1>10. CASE DspWrites
  <2>1. /\ UNCHANGED <<pc, dmaBuf, dma, n, zeroed>>
        /\ \E b \in DspWords, v \in DspValues : ram' = [ram EXCEPT ![b] = v]
        BY <1>10 DEF DspWrites, bufVars, loopVars
  <2>2. \A a \in Addr \ DspWords : ram'[a] = ram[a]
        BY <2>1, <1>a
  <2>3. pc \in Replaying => \A a \in OwnWords : HoldsLast(a, n)'
        BY <1>b, <2>1, <2>2 DEF OwnWords
  <2>4. pc = "zero" => \A a \in zeroed \ DspWords : ram'[a] = Zero
        BY <2>2 DEF ImageInv, Good, TypeOK
  <2>5. pc = "start" => ram'[BootVector] = Zero \/ BootVector \in DspWords
        BY <2>2, Offsets DEF ImageInv
  <2> QED BY <2>1, <2>3, <2>4, <2>5 DEF ImageInv
<1>11. CASE UNCHANGED vars
  <2>1. UNCHANGED <<pc, dmaBuf, dma, n, zeroed, ram>>
        BY <1>11 DEF vars, bufVars, hwVars, loopVars
  <2> QED BY <1>b, <2>1 DEF ImageInv
<1> QED BY <1>1, <1>2, <1>3, <1>4, <1>5, <1>6, <1>7, <1>8, <1>9, <1>10, <1>11
        DEF Next, Thread, Terminated

(* For every sequence, every memory and every 64 KB-aligned buffer: when    *)
(* the kick-start sets the DSP going its memory is the image of the         *)
(* sequence, with every Windows address moved into this driver's buffer.    *)
THEOREM ImageLoaded == AllAligned => (Spec => []ImageAtStart)
<1> SUFFICES ASSUME AllAligned PROVE Spec => []ImageAtStart
    OBVIOUS
<1>1. Good /\ ImageInv => ImageAtStart
  <2> SUFFICES ASSUME Good, ImageInv, pc = "start" PROVE ImageAtStart
      BY DEF ImageAtStart
  <2>1. n = IF seq = "ok" THEN Len(Sequence) ELSE 0
        BY DEF Good, CtlInv
  <2> QED BY <2>1 DEF ImageInv, ImageAtStart
<1>2. Good /\ Good' /\ ImageInv /\ [Next]_vars => ImageInv'
      BY ImageStep
<1> QED BY <1>1, <1>2, ImageInit, GoodAlways, PTL DEF Spec
===============================================================================
