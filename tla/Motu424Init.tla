----------------------------- MODULE Motu424Init ------------------------------
(***************************************************************************)
(* Bringing the card up, from the allocation of the DMA buffer to the end  *)
(* of motu424_full_init (source/shared/motu424_init.c, motu424_dma.c), as  *)
(* the frontends call them: one thread writes the card, word by word, and  *)
(* the DSP of the card, once it runs, writes words of the same memory.     *)
(*                                                                         *)
(* The FPGA bitstream is Motu424Fpga's; here loading it stops the DSP.     *)
(***************************************************************************)
EXTENDS Motu424Translate, Sequences

CONSTANTS
  Frontends,   \* "alsa", "wdf" or both: they treat a failed allocation differently
  Addr,        \* the words of DSP memory (BAR0) looked at, by offset
  Sequence,    \* the entries of the init sequence
  Bases,       \* the addresses the DMA buffer may get
  BootWords,   \* what a word of the memory may hold before
  DspWords,    \* the words the DSP's program writes
  DspValues,   \* and what it writes there
  PollLimit,   \* the reads of a register before a poll gives up
  PortIters,   \* the iterations of the port loop: 32
  CheckEvery   \* every so many of them it looks at the status words: 8

(* Offsets: the descriptor, the words of the port loop, the sync status and *)
(* the boot vector.                                                         *)
SgPlayback == 28680   \* 0x7008
SgCapture  == 28836   \* 0x70a4
SgBuffer   == 28840   \* 0x70a8
SgTransfer == 28844   \* 0x70ac
PortAck    == 28652   \* 0x6fec
PortCmd    == 28736   \* 0x7040
SyncStatus == 28880   \* 0x70d0
Status1    == 28884   \* 0x70d4
Status2    == 28892   \* 0x70dc
Status3    == 28888   \* 0x70d8
BootVector == 262140  \* 0x3fffc

(* BAR1: PORT_CONF and DMA_BASE. *)
Registers == {0, 24}

PollMarker == 255
Entry == [bar : Nat, offset : Nat, value : Word]

ASSUME FrontendAssumption == Frontends \subseteq {"alsa", "wdf"}
ASSUME AddrAssumption ==
  /\ Addr \subseteq Nat
  /\ {SgPlayback, SgCapture, SgBuffer, SgTransfer, PortAck, PortCmd, SyncStatus,
      Status1, Status2, Status3, BootVector} \subseteq Addr
ASSUME SequenceAssumption ==
  /\ Sequence \in Seq(Entry)
  /\ \A k \in 1..Len(Sequence) : Sequence[k].bar \in {0, PollMarker}
                                   => Sequence[k].offset \in Addr
ASSUME WordsAssumption ==
  Bases \subseteq Word /\ BootWords \subseteq Word /\ DspValues \subseteq Word
ASSUME DspAssumption == DspWords \subseteq Addr
ASSUME LimitsAssumption ==
  PollLimit \in Nat \ {0} /\ PortIters \in Nat \ {0} /\ CheckEvery \in Nat \ {0}

VARIABLES
  pc,            \* where the thread is
  dmaBuf, dma,   \* a buffer is allocated, and ctx.dma_addr
  ram, reg,      \* the card: BAR0 memory and BAR1 registers
  dsp,           \* the card: "stopped" or "running"
  frontend,      \* who brings the card up
  fpga, seq,     \* the firmware found: a bitstream; a sequence, if any
  zeroed,        \* the words the zeroing loop has passed
  n,             \* the entries replayed
  polls,         \* the reads made by the poll in progress
  iter, k, seen, \* the port loop, the status check in it, s1 to s3 not 0
  shadow,        \* ctx.port_conf_shadow
  result         \* what motu424_full_init returns

hwVars == <<ram, reg, dsp>>
loopVars == <<zeroed, n, polls, iter, k, seen>>
bufVars == <<dmaBuf, dma>>
fwVars == <<frontend, fpga, seq>>
vars == <<pc, bufVars, hwVars, fwVars, loopVars, shadow, result>>

Locations ==
  {"alloc", "sg", "fpga", "zero", "replay", "poll", "reset", "vector", "start",
   "port", "status", "rezero", "shadow", "sync", "done", "failed"}

TypeOK ==
  /\ pc \in Locations
  /\ dmaBuf \in BOOLEAN /\ dma \in Word
  /\ ram \in [Addr -> Word] /\ reg \in [Registers -> Word]
  /\ dsp \in {"stopped", "running"}
  /\ frontend \in Frontends
  /\ fpga \in BOOLEAN /\ seq \in {"none", "malformed", "ok"}
  /\ zeroed \in SUBSET Addr
  /\ n \in 0..Len(Sequence)
  /\ polls \in 0..(PollLimit - 1)
  /\ iter \in 0..PortIters
  /\ k \in 1..6 /\ seen \in SUBSET {Status1, Status2, Status3}
  /\ shadow \in Word
  /\ result \in {0, -1}

(* The card as an earlier driver, the firmware or a reset left it.         *)
Init ==
  /\ pc = "alloc"
  /\ dmaBuf = FALSE /\ dma = Zero
  /\ \E w \in BootWords : ram = [a \in Addr |-> w]
  /\ reg = [r \in Registers |-> Zero]
  /\ dsp \in {"stopped", "running"}
  /\ frontend \in Frontends
  /\ fpga \in BOOLEAN /\ seq \in {"none", "malformed", "ok"}
  /\ zeroed = {} /\ n = 0 /\ polls = 0 /\ iter = 0 /\ k = 1 /\ seen = {}
  /\ shadow = Zero
  /\ result = 0

-------------------------------------------------------------------------------
(* motu424_dma_alloc: without a buffer the ALSA probe gives up, while       *)
(* EvtDevicePrepareHardware logs it and goes on.                            *)
AllocDma ==
  /\ pc = "alloc"
  /\ \/ /\ dmaBuf' = TRUE /\ dma' \in Bases
        /\ pc' = "sg"
     \/ /\ pc' = IF frontend = "alsa" THEN "failed" ELSE "fpga"
        /\ UNCHANGED bufVars
  /\ UNCHANGED <<hwVars, fwVars, loopVars, shadow, result>>

(* motu424_dma_setup_sg, which it ends with. *)
SetupSg ==
  /\ pc = "sg"
  /\ ram' = [ram EXCEPT ![SgPlayback] = dma, ![SgCapture] = dma,
                        ![SgBuffer] = [hi |-> 3, lo |-> 0],
                        ![SgTransfer] = [hi |-> 0, lo |-> 1436]]
  /\ reg' = [reg EXCEPT ![24] = dma]
  /\ pc' = "fpga"
  /\ UNCHANGED <<bufVars, dsp, fwVars, loopVars, shadow, result>>

(* motu424_full_init begins: with a bitstream the FPGA is configured anew. *)
LoadFpga ==
  /\ pc = "fpga"
  /\ dsp' = IF fpga THEN "stopped" ELSE dsp
  /\ pc' = "zero"
  /\ UNCHANGED <<bufVars, ram, reg, fwVars, loopVars, shadow, result>>

(* Mutant: the loop starts at the second word. *)
ZeroWord_FromSecond ==
  /\ pc \in {"zero", "rezero"}
  /\ \E a \in Addr \ zeroed :
       /\ \A b \in Addr \ zeroed : a <= b
       /\ ram' = IF zeroed = {} THEN ram ELSE [ram EXCEPT ![a] = Zero]
       /\ zeroed' = zeroed \cup {a}
  /\ UNCHANGED <<pc, bufVars, reg, dsp, fwVars, n, polls, iter, k, seen, shadow,
                 result>>

(* motu424_zero_dsp_ram: upwards, one word at a time, while the DSP may run. *)
ZeroWord ==
  /\ pc \in {"zero", "rezero"}
  /\ \E a \in Addr \ zeroed :
       /\ \A b \in Addr \ zeroed : a <= b
       /\ ram' = [ram EXCEPT ![a] = Zero]
       /\ zeroed' = zeroed \cup {a}
  /\ UNCHANGED <<pc, bufVars, reg, dsp, fwVars, n, polls, iter, k, seen, shadow,
                 result>>

ZeroDone ==
  /\ pc \in {"zero", "rezero"} /\ zeroed = Addr
  /\ pc' = IF pc = "zero" THEN "replay" ELSE "shadow"
  /\ zeroed' = {}
  /\ UNCHANGED <<bufVars, hwVars, fwVars, n, polls, iter, k, seen, shadow, result>>

-------------------------------------------------------------------------------
(* motu424_replay_sequence                                                 *)

(* Mutant: the error of the replay is not returned. *)
SkipReplay_IgnoresError ==
  /\ pc = "replay" /\ seq # "ok"
  /\ pc' = "reset" /\ UNCHANGED result
  /\ UNCHANGED <<bufVars, hwVars, fwVars, loopVars, shadow>>

(* No sequence: "warm boot".  A size that is no multiple of 9: an error,    *)
(* which ends motu424_full_init; both frontends carry on without it.        *)
SkipReplay ==
  /\ pc = "replay" /\ seq # "ok"
  /\ IF seq = "none" THEN pc' = "reset" /\ UNCHANGED result
                     ELSE pc' = "done" /\ result' = -1
  /\ UNCHANGED <<bufVars, hwVars, fwVars, loopVars, shadow>>

Value(e) == IF dmaBuf THEN Translate(dma, e.value) ELSE e.value

(* A write of BAR2 at offset o: the FPGA's port starts and stops the DSP. *)
PortWrite(o, v) ==
  dsp' = IF o = 4 /\ v.lo = 2 THEN "running"
         ELSE IF o = 0 \/ (o = 4 /\ v.lo = 1) THEN "stopped"
         ELSE dsp

(* motu_write: an entry for a BAR other than 0, 1 and 2 has no effect. *)
ReplayWrite ==
  /\ pc = "replay" /\ seq = "ok" /\ n < Len(Sequence)
  /\ LET e == Sequence[n + 1] IN
       /\ e.bar # PollMarker
       /\ ram' = IF e.bar = 0 THEN [ram EXCEPT ![e.offset] = Value(e)] ELSE ram
       /\ reg' = IF e.bar = 1 /\ e.offset \in Registers
                   THEN [reg EXCEPT ![e.offset] = Value(e)] ELSE reg
       /\ IF e.bar = 2 THEN PortWrite(e.offset, Value(e)) ELSE UNCHANGED dsp
  /\ n' = n + 1
  /\ UNCHANGED <<pc, bufVars, fwVars, zeroed, polls, iter, k, seen, shadow, result>>

ReplayPoll ==
  /\ pc = "replay" /\ seq = "ok" /\ n < Len(Sequence)
  /\ Sequence[n + 1].bar = PollMarker
  /\ pc' = "poll"
  /\ UNCHANGED <<bufVars, hwVars, fwVars, loopVars, shadow, result>>

(* Mutants: one read too many; only the value polled for ends a poll. *)
PollRead_OffByOne(a, v, next) ==
  IF ram[a] = v \/ polls = PollLimit
    THEN pc' = next /\ polls' = 0
    ELSE polls' = polls + 1 /\ UNCHANGED pc

PollRead_NoTimeout(a, v, next) ==
  /\ pc' = IF ram[a] = v THEN next ELSE pc
  /\ polls' = 0

(* motu424_poll_reg, one read: it ends with the value or the last read, and *)
(* its callers go on in either case.                                        *)
PollRead(a, v, next) ==
  IF ram[a] = v \/ polls + 1 = PollLimit
    THEN pc' = next /\ polls' = 0
    ELSE polls' = polls + 1 /\ UNCHANGED pc

PollEntry ==
  /\ pc = "poll"
  /\ LET e == Sequence[n + 1] IN PollRead(e.offset, Value(e), "replay")
  /\ n' = IF pc' = "replay" THEN n + 1 ELSE n
  /\ UNCHANGED <<bufVars, hwVars, fwVars, zeroed, iter, k, seen, shadow, result>>

ReplayDone ==
  /\ pc = "replay" /\ seq = "ok" /\ n = Len(Sequence)
  /\ pc' = "reset"
  /\ UNCHANGED <<bufVars, hwVars, fwVars, loopVars, shadow, result>>

-------------------------------------------------------------------------------
(* motu424_dsp_kickstart                                                   *)

ResetDsp ==
  /\ pc = "reset"
  /\ PortWrite(0, Zero)
  /\ pc' = "vector"
  /\ UNCHANGED <<bufVars, ram, reg, fwVars, loopVars, shadow, result>>

ClearVector ==
  /\ pc = "vector"
  /\ ram' = [ram EXCEPT ![BootVector] = Zero]
  /\ pc' = "start"
  /\ UNCHANGED <<bufVars, reg, dsp, fwVars, loopVars, shadow, result>>

StartDsp ==
  /\ pc = "start"
  /\ PortWrite(4, [hi |-> 0, lo |-> 2])
  /\ pc' = "port"
  /\ UNCHANGED <<bufVars, ram, reg, fwVars, loopVars, shadow, result>>

(* motu424_post_init_port_loop: the words it reads are only logged. *)
PortStep ==
  /\ pc = "port" /\ iter < PortIters
  /\ ram' = [ram EXCEPT ![PortCmd] = Zero, ![PortAck] = Zero]
  /\ IF iter % CheckEvery = CheckEvery - 1
       THEN pc' = "status" /\ UNCHANGED iter
       ELSE iter' = iter + 1 /\ UNCHANGED pc
  /\ UNCHANGED <<bufVars, reg, dsp, fwVars, zeroed, n, polls, k, seen, shadow, result>>

(* The accesses of a status check: a word read as 0 is not cleared. *)
StatusOps ==
  << [clear |-> FALSE, at |-> Status1], [clear |-> TRUE, at |-> Status1],
     [clear |-> FALSE, at |-> Status2], [clear |-> FALSE, at |-> Status3],
     [clear |-> TRUE, at |-> Status3],  [clear |-> TRUE, at |-> Status2] >>

StatusStep ==
  /\ pc = "status"
  /\ LET a == StatusOps[k].at IN
       IF StatusOps[k].clear
         THEN /\ ram' = IF a \in seen THEN [ram EXCEPT ![a] = Zero] ELSE ram
              /\ seen' = seen \ {a}
         ELSE /\ seen' = IF ram[a] # Zero THEN seen \cup {a} ELSE seen
              /\ UNCHANGED ram
  /\ IF k = 6 THEN k' = 1 /\ pc' = "port" /\ iter' = iter + 1
              ELSE k' = k + 1 /\ UNCHANGED <<pc, iter>>
  /\ UNCHANGED <<bufVars, reg, dsp, fwVars, zeroed, n, polls, shadow, result>>

(* motu424_hw_init follows; it begins with motu424_zero_dsp_ram. *)
PortDone ==
  /\ pc = "port" /\ iter = PortIters
  /\ pc' = "rezero"
  /\ UNCHANGED <<bufVars, hwVars, fwVars, loopVars, shadow, result>>

ReadShadow ==
  /\ pc = "shadow"
  /\ shadow' = reg[0]
  /\ pc' = "sync"
  /\ UNCHANGED <<bufVars, hwVars, fwVars, loopVars, result>>

PollSync ==
  /\ pc = "sync"
  /\ PollRead(SyncStatus, Zero, "done")
  /\ UNCHANGED <<bufVars, hwVars, fwVars, zeroed, n, iter, k, seen, shadow, result>>

-------------------------------------------------------------------------------
(* The card: its DSP, while it runs, answers in words of its own.          *)
DspWrites ==
  /\ dsp = "running"
  /\ \E a \in DspWords, v \in DspValues : ram' = [ram EXCEPT ![a] = v]
  /\ UNCHANGED <<pc, bufVars, reg, dsp, fwVars, loopVars, shadow, result>>

Thread ==
  \/ AllocDma \/ SetupSg \/ LoadFpga \/ ZeroWord \/ ZeroDone
  \/ SkipReplay \/ ReplayWrite \/ ReplayPoll \/ PollEntry \/ ReplayDone
  \/ ResetDsp \/ ClearVector \/ StartDsp
  \/ PortStep \/ StatusStep \/ PortDone \/ ReadShadow \/ PollSync

Finished == pc \in {"done", "failed"}

Terminated == Finished /\ UNCHANGED vars

Next == Thread \/ DspWrites \/ Terminated

(* The thread of the probe keeps running; of the card nothing is assumed. *)
Spec == Init /\ [][Next]_vars /\ WF_vars(Thread)

-------------------------------------------------------------------------------
(* Properties                                                              *)

Writes(e, a) == e.bar = 0 /\ e.offset = a

(* What an entry is meant to leave in a word of the memory. *)
Meant(e) == IF dmaBuf THEN Relocated(dma, e.value) ELSE e.value

(* Word a holds what the last of the first m entries that write it says, or *)
(* 0 if none does.                                                          *)
HoldsLast(a, m) ==
  LET W == {j \in 1..m : Writes(Sequence[j], a)} IN
  IF W = {} THEN ram[a] = Zero
            ELSE \E j \in W : /\ \A i \in W : i <= j
                              /\ ram[a] = Meant(Sequence[j])

(* The words that are the driver's to write. *)
OwnWords == Addr \ (DspWords \cup {BootVector})

(* When the kick-start sets the DSP going, its memory is the image of the   *)
(* sequence over zeros: nothing of before, no entry lost or out of order,   *)
(* every Windows address moved to the same offset in this driver's buffer.  *)
(* (zero, replay, translate and kick-start, with a DSP that may run all the *)
(* while, and that the sequence itself starts before its last entries)      *)
ImageAtStart ==
  pc = "start" =>
    /\ ram[BootVector] = Zero \/ BootVector \in DspWords
    /\ \A a \in OwnWords : HoldsLast(a, IF seq = "ok" THEN Len(Sequence) ELSE 0)

(* From the end of the zeroing on the card is never told an address of the  *)
(* Windows driver's buffers, whatever the memory held before, unless the     *)
(* sequence is replayed without a buffer, as the WDF frontend may.          *)
(* (translate on every entry; the order of zeroing and replay)              *)
NoForeignAddress ==
  pc \notin {"alloc", "sg", "fpga", "zero", "failed"} /\ (dmaBuf \/ seq # "ok") =>
    \A a \in Addr : ~IsWindows(ram[a])

(* A sequence that is refused stops the bring-up: nothing starts the DSP.   *)
(* (the error returns of replay and full_init)                              *)
RefusedNeverStarts ==
  [][dsp = "stopped" /\ dsp' = "running" => seq # "malformed"]_vars

(* The bring-up ends although the card may never answer a poll.             *)
Terminates == <>Finished

(* When the bring-up reports success the DSP runs a program: that of the    *)
(* sequence, or on a warm boot the one that was there; and the descriptor   *)
(* of the DMA buffer is in its memory.                                      *)
(* (full_init zeroes the memory even without a sequence, and its last step, *)
(* hw_init, once more; dma_alloc writes the descriptor before all of it)    *)
MemoryKept ==
  pc = "done" /\ result = 0 =>
    /\ \E a \in OwnWords : ram[a] # Zero
    /\ seq = "ok" =>
         \A a \in OwnWords \ {SgPlayback, SgCapture, SgBuffer, SgTransfer} :
           HoldsLast(a, Len(Sequence))
    /\ dmaBuf => ram[SgPlayback] = dma /\ ram[SgCapture] = dma
===============================================================================
