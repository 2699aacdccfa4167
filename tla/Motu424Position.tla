---------------------------- MODULE Motu424Position ---------------------------
(***************************************************************************)
(* The two callbacks of the ALSA frontend that carry data: pointer, which   *)
(* tells the core how far the card has come, and ack, which copies between  *)
(* the stereo buffer of ALSA and the multiplexed frames of the card.        *)
(* Neither takes ctx.lock: they run here among the steps of Motu424Pcm.     *)
(*                                                                         *)
(* The unit of time is one frame at the sample rate, so elapsed_ns * rate   *)
(* divided by 10^9 is the number of ticks, until the product passes 2^64.   *)
(***************************************************************************)
EXTENDS Motu424Pcm, Naturals

CONSTANTS
  BufferFrames,  \* runtime->buffer_size
  DmaWords,      \* ctx.dma_size in words (MOTU_DMA_BUF_MAX: 2^20)
  FrameWords,    \* MOTU_CHANNELS_PER_FRAME: 98
  Counters,      \* what DMA_CTRL may read as: words in the buffer
  Wrap,          \* ticks after which elapsed_ns * rate passes 2^64
  MaxTime        \* bound: ticks in a behaviour

AlsaWords == 2        \* a stereo frame
AudioWords == {2, 3}  \* left and right in a multiplexed frame

(* The only bound on the ALSA buffer is its size in bytes. *)
ASSUME BufferAssumption ==
  /\ BufferFrames \in Nat \ {0} /\ DmaWords \in Nat
  /\ AlsaWords * BufferFrames <= DmaWords
  /\ FrameWords \in Nat \ (0..3) /\ Wrap \in Nat \ {0} /\ MaxTime \in Nat
  /\ Counters \subseteq Nat

NoAnswer == 0
Idle == "idle"

VARIABLES
  now,        \* ktime_get_ns()
  startTime,  \* ctx.start_time_ns
  played,     \* frames the engine has moved since start_time_ns was taken
  paused,     \* a pause was released since then
  ptr,        \* per process: where it is in pointer
  hwPtr,      \* per process: the local hw_ptr
  asked,      \* the handler has asked for the position in this call
  answer,     \* per substream: the last position returned ...
  timed,      \* ... whether it was computed from the time, before the product
              \* passed 2^64, in a run without a pause ...
  truth,      \* ... and the frames that had been played then
  copying     \* per substream: i in the loop of ack

timeVars == <<now, startTime, played, paused>>
ptrVars == <<ptr, hwPtr, asked, answer, timed, truth>>
posVars == <<timeVars, ptrVars, copying>>

PtrLocations == {Idle, "running", "again", "time"}

PositionTypeOK ==
  /\ now \in 0..MaxTime /\ startTime \in 0..MaxTime /\ played \in 0..MaxTime
  /\ paused \in BOOLEAN
  /\ ptr \in [Procs -> PtrLocations]
  /\ hwPtr \in [Procs -> Nat]
  /\ asked \in BOOLEAN
  /\ answer \in [Streams -> Nat]
  /\ timed \in [Streams -> BOOLEAN]
  /\ truth \in [Streams -> 0..MaxTime]
  /\ copying \in [Streams -> 0..BufferFrames]

(* Mutant: for (i = 0; i <= frames; i++) *)
LastFrame_Beyond == BufferFrames

(* for (i = 0; i < frames; i++) *)
LastFrame == BufferFrames - 1

PositionInit ==
  /\ Init
  /\ now = 0 /\ startTime = 0 /\ played = 0 /\ paused = FALSE
  /\ ptr = [p \in Procs |-> Idle]
  /\ hwPtr = [p \in Procs |-> 0]
  /\ asked = FALSE
  /\ answer = [s \in Streams |-> NoAnswer]
  /\ timed = [s \in Streams |-> FALSE]
  /\ truth = [s \in Streams |-> 0]
  /\ copying = [s \in Streams |-> LastFrame + 1]

-------------------------------------------------------------------------------
(* The steps of Motu424Pcm, with the time that START takes                 *)

(* A process in pointer or ack does nothing else meanwhile. *)
Free(p) == ptr[p] = Idle /\ (p \in Streams => copying[p] > LastFrame)

(* Mutant: only the first START of the driver's life takes the time. *)
Stamp_Once(p) ==
  IF op[p] = "START"
    THEN /\ startTime' = IF startTime = 0 THEN now ELSE startTime
         /\ played' = 0 /\ paused' = FALSE
    ELSE /\ paused' = (paused \/ op[p] = "PAUSE_RELEASE")
         /\ UNCHANGED <<startTime, played>>

(* start_time_ns is taken by START alone: releasing a pause leaves it. *)
Stamp(p) ==
  IF op[p] = "START"
    THEN startTime' = now /\ played' = 0 /\ paused' = FALSE
    ELSE /\ paused' = (paused \/ op[p] = "PAUSE_RELEASE")
         /\ UNCHANGED <<startTime, played>>

PcmStep ==
  \/ \E s \in Streams : Free(s) /\ Client(s) /\ UNCHANGED posVars
  \/ \E p \in Procs : /\ Lock(p) \/ Read(p) \/ Write(p) \/ Return(p)
                      /\ UNCHANGED posVars
  \/ \E p \in Procs : Store(p) /\ Stamp(p) /\ UNCHANGED <<now, ptrVars, copying>>
  \/ PeriodElapses /\ UNCHANGED posVars
  \/ /\ IrqEnter \/ IrqRead \/ IrqAck \/ IrqCheck \/ IrqStopped
     /\ UNCHANGED posVars
  \/ IrqCall /\ asked' = FALSE
     /\ UNCHANGED <<timeVars, ptr, hwPtr, answer, timed, truth, copying>>
  \/ /\ irqPc = "elapsed" /\ Free(Irq) /\ (state[irqAt] = "RUNNING" => asked)
     /\ IrqElapsed
     /\ UNCHANGED posVars

(* One frame passes; the engine moves it if it is on. *)
Tick ==
  /\ now < MaxTime
  /\ now' = now + 1
  /\ played' = IF EngineOn(portConf) THEN played + 1 ELSE played
  /\ UNCHANGED <<startTime, paused, ptrVars, copying, vars>>

-------------------------------------------------------------------------------
(* motu424_pointer, called with the stream lock held on a running substream *)

(* The client asks, or the handler does in snd_pcm_period_elapsed. *)
PointerEnter(p) ==
  /\ p = Irq => irqPc = "elapsed"
  /\ Free(p) /\ state[Target(p)] = "RUNNING"
  /\ IF p = Irq
       THEN ~asked /\ UNCHANGED vars
       ELSE /\ pc[p] = "idle" /\ streamLock[p] = None
            /\ streamLock' = [streamLock EXCEPT ![p] = p]
            /\ UNCHANGED <<hwVars, ctxVars, substream, state, pc, op, val,
                           irqVars, owed>>
  /\ \E c \in Counters : hwPtr' = [hwPtr EXCEPT ![p] = c]
  /\ ptr' = [ptr EXCEPT ![p] = "running"]
  /\ UNCHANGED <<timeVars, asked, answer, timed, truth, copying>>

(* The callback returns pos; the client's call lets go of the stream lock.  *)
Answer(p, pos, byTime) ==
  LET s == Target(p) IN
  /\ answer' = [answer EXCEPT ![s] = pos]
  /\ timed' = [timed EXCEPT ![s] = byTime]
  /\ truth' = [truth EXCEPT ![s] = IF byTime THEN played ELSE 0]
  /\ ptr' = [ptr EXCEPT ![p] = Idle]
  /\ hwPtr' = [hwPtr EXCEPT ![p] = 0]
  /\ IF p = Irq
       THEN asked' = TRUE /\ UNCHANGED vars
       ELSE /\ streamLock' = [streamLock EXCEPT ![p] = None]
            /\ UNCHANGED <<asked, hwVars, ctxVars, substream, state, pc, op,
                           val, irqVars, owed>>
  /\ UNCHANGED <<timeVars, copying>>

Counted(p) == hwPtr[p] > 0 /\ hwPtr[p] < DmaWords

(* Mutant: the counter is believed whatever it says. *)
CounterFrame_Unchecked(w) == w \div AlsaWords

(* bytes_to_frames: frames of the ALSA buffer, out of it counts as 0.       *)
CounterFrame(w) ==
  LET frame == w \div AlsaWords IN IF frame >= BufferFrames THEN 0 ELSE frame

(* if (dma_running && hw_ptr is valid) *)
PointerRunning(p) ==
  /\ ptr[p] = "running"
  /\ IF dmaRunning /\ Counted(p)
       THEN Answer(p, CounterFrame(hwPtr[p]), FALSE)
       ELSE /\ ptr' = [ptr EXCEPT ![p] = "again"]
            /\ UNCHANGED <<vars, timeVars, hwPtr, asked, answer, timed, truth,
                           copying>>

(* else if (dma_running): the field is read once more. *)
PointerAgain(p) ==
  /\ ptr[p] = "again"
  /\ IF dmaRunning
       THEN /\ ptr' = [ptr EXCEPT ![p] = "time"]
            /\ UNCHANGED <<vars, timeVars, hwPtr, asked, answer, timed, truth,
                           copying>>
       ELSE Answer(p, 0, FALSE)

(* frames % buffer_size, the product having lost what is above 64 bits. *)
TimeFrame(elapsed) == (elapsed % Wrap) % BufferFrames

PointerTime(p) ==
  /\ ptr[p] = "time"
  /\ LET elapsed == now - startTime
     IN  Answer(p, TimeFrame(elapsed), elapsed < Wrap /\ ~paused)

-------------------------------------------------------------------------------
(* motu424_playback_ack, motu424_capture_ack                               *)

(* The client has moved its application pointer: the core calls ack.  The   *)
(* callback does nothing for a buffer of ALSA that is not there.            *)
AckEnter(s) ==
  /\ Free(s) /\ pc[s] = "idle"
  /\ state[s] \in {"PREPARED", "RUNNING", "PAUSED"}
  /\ copying' = [copying EXCEPT ![s] = 0]
  /\ UNCHANGED <<vars, timeVars, ptrVars>>

(* One round of the loop: two words of frame i, whatever the prepare of     *)
(* another substream or the card does to the buffer meanwhile.              *)
AckFrame(s) ==
  /\ copying[s] <= LastFrame
  /\ copying' = [copying EXCEPT ![s] = @ + 1]
  /\ UNCHANGED <<vars, timeVars, ptrVars>>

-------------------------------------------------------------------------------
Pointer(p) ==
  PointerEnter(p) \/ PointerRunning(p) \/ PointerAgain(p) \/ PointerTime(p)

PositionNext ==
  \/ PcmStep
  \/ Tick
  \/ \E p \in Procs : Pointer(p)
  \/ \E s \in Streams : AckEnter(s) \/ AckFrame(s)

PositionSpec == PositionInit /\ [][PositionNext]_<<vars, posVars>>

-------------------------------------------------------------------------------
(* Properties                                                              *)

(* The core is never told a position outside the buffer, whatever the       *)
(* counter of the card reads, however long the substream has run, and       *)
(* whichever fields another substream changes between the reads.            *)
(* (motu424_pointer, its two checks and its remainder)                      *)
PositionInBuffer == \A s \in Streams : answer[s] < BufferFrames

(* A position computed from the time is the number of frames the engine has *)
(* moved since the substream was started, although dma_running and          *)
(* start_time_ns are read without ctx.lock.  It holds in a run without a    *)
(* pause, for a card one substream uses, until the product passes 2^64.     *)
(* (motu424_pointer against trigger, and against the trigger of the handler)*)
PositionCountsPlayed ==
  \A s \in Streams : timed[s] => answer[s] = truth[s] % BufferFrames

(* ack stays inside the buffer of the card.                                 *)
(* (motu424_playback_ack, motu424_capture_ack: frames against dma_size)     *)
AckFits ==
  \A s \in Streams, w \in AudioWords :
    copying[s] <= LastFrame => copying[s] * FrameWords + w < DmaWords
===============================================================================
