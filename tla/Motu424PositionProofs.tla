------------------------ MODULE Motu424PositionProofs -------------------------
(***************************************************************************)
(* Theorems about pointer and ack, for buffers of any size, any readings of *)
(* the counter, any width of the product and any time.                     *)
(***************************************************************************)
EXTENDS Motu424Position, Motu424PcmProofs, TLAPS

(* A division leaves a remainder below the divisor. *)
LEMMA Remainder ==
  ASSUME NEW a \in Nat, NEW b \in Nat \ {0}
  PROVE  a % b \in Nat /\ a % b < b
  BY SMT

(* Half a number of words is a number of frames. *)
LEMMA Halves ==
  ASSUME NEW w \in Nat
  PROVE  w \div AlsaWords \in Nat
  BY SMT DEF AlsaWords

(* Each of the three ways to a position ends inside the buffer. *)
LEMMA FrameInBuffer ==
  /\ \A w \in Nat : CounterFrame(w) \in Nat /\ CounterFrame(w) < BufferFrames
  /\ \A t \in Nat : TimeFrame(t) \in Nat /\ TimeFrame(t) < BufferFrames
  /\ 0 < BufferFrames
<1>1. ASSUME NEW w \in Nat
      PROVE  CounterFrame(w) \in Nat /\ CounterFrame(w) < BufferFrames
  BY <1>1, Halves, BufferAssumption, SMT DEF CounterFrame
<1>2. ASSUME NEW t \in Nat
      PROVE  TimeFrame(t) \in Nat /\ TimeFrame(t) < BufferFrames
  <2>1. t % Wrap \in Nat
    BY <1>2, Remainder, BufferAssumption
  <2>2. QED
    BY <2>1, Remainder, BufferAssumption DEF TimeFrame
<1>3. 0 < BufferFrames
  BY BufferAssumption, SMT
<1>4. QED
  BY <1>1, <1>2, <1>3

(* The clock does not run backwards, and no more is played than time has    *)
(* passed: with this the types and the range of an answer are inductive.    *)
ClockInv == startTime <= now /\ played <= now - startTime

PosInv == PositionTypeOK /\ ClockInv /\ PositionInBuffer

LEMMA PosInit == PositionInit => PosInv
<1> SUFFICES ASSUME PositionInit PROVE PosInv
  OBVIOUS
<1>1. 0 < BufferFrames /\ BufferFrames \in Nat /\ MaxTime \in Nat
  BY BufferAssumption, SMT
<1>2. PositionTypeOK
  <2>1. timed \in [Streams -> BOOLEAN] /\ asked \in BOOLEAN /\ paused \in BOOLEAN
    BY Zenon DEF PositionInit
  <2>2. 0 \in 0..MaxTime /\ 0 \in Nat /\ LastFrame + 1 \in 0..BufferFrames
    BY <1>1, SMT DEF LastFrame
  <2>3. QED
    BY <2>1, <2>2, Zenon DEF PositionInit, PositionTypeOK, PtrLocations, Idle,
                             NoAnswer
<1>3. ClockInv /\ PositionInBuffer
  BY <1>1, SMT DEF PositionInit, LastFrame, ClockInv, PositionInBuffer, NoAnswer
<1>4. QED
  BY <1>2, <1>3 DEF PosInv

(* A callback that returns a position below buffer_size keeps everything. *)
LEMMA AnswerKeeps ==
  ASSUME PosInv, NEW p \in Procs, NEW pos \in Nat, NEW byTime \in BOOLEAN,
         pos < BufferFrames, Answer(p, pos, byTime)
  PROVE  PosInv'
<1> USE DEF PosInv
<1>1. UNCHANGED timeVars /\ copying' = copying
  BY DEF Answer
<1>2. /\ answer' = [answer EXCEPT ![Target(p)] = pos]
      /\ timed' = [timed EXCEPT ![Target(p)] = byTime]
      /\ truth' = [truth EXCEPT ![Target(p)] = IF byTime THEN played ELSE 0]
      /\ ptr' = [ptr EXCEPT ![p] = Idle]
      /\ hwPtr' = [hwPtr EXCEPT ![p] = 0]
  BY DEF Answer
<1>3. asked' \in BOOLEAN
  <2>1. CASE p = Irq
    BY <2>1 DEF Answer
  <2>2. CASE p # Irq
    BY <2>2 DEF Answer, PositionTypeOK
  <2>3. QED
    BY <2>1, <2>2
<1>4. timed' \in [Streams -> BOOLEAN]
  BY <1>2, Zenon DEF PositionTypeOK
<1>5. truth' \in [Streams -> 0..MaxTime]
  <2>1. (IF byTime THEN played ELSE 0) \in 0..MaxTime
    BY BufferAssumption, SMT DEF PositionTypeOK
  <2>2. truth \in [Streams -> 0..MaxTime]
    BY DEF PositionTypeOK
  <2>3. QED
    BY <1>2, <2>1, <2>2, Zenon
<1>6. answer' \in [Streams -> Nat] /\ \A s \in Streams : answer'[s] < BufferFrames
  <2>1. answer \in [Streams -> Nat] /\ \A s \in Streams : answer[s] < BufferFrames
    BY DEF PositionTypeOK, PositionInBuffer
  <2>2. answer' = [answer EXCEPT ![Target(p)] = pos]
    BY <1>2
  <2>3. QED
    BY <2>1, <2>2, Zenon
<1>7. ptr' \in [Procs -> PtrLocations] /\ hwPtr' \in [Procs -> Nat]
  BY <1>2, SMT DEF PositionTypeOK, PtrLocations, Idle
<1>8. ClockInv' /\ now' \in 0..MaxTime /\ startTime' \in 0..MaxTime
      /\ played' \in 0..MaxTime /\ paused' \in BOOLEAN
      /\ copying' \in [Streams -> 0..BufferFrames]
  BY <1>1 DEF timeVars, ClockInv, PositionTypeOK
<1>9. QED
  BY <1>3, <1>4, <1>5, <1>6, <1>7, <1>8 DEF PositionTypeOK, PositionInBuffer

LEMMA PosStep == PosInv /\ [PositionNext]_<<vars, posVars>> => PosInv'
<1> SUFFICES ASSUME PosInv, [PositionNext]_<<vars, posVars>> PROVE PosInv'
  OBVIOUS
<1> USE DEF PosInv
<1>1. CASE UNCHANGED posVars
  BY <1>1 DEF posVars, timeVars, ptrVars, PositionTypeOK, ClockInv,
              PositionInBuffer
<1>2. CASE PcmStep
  <2>1. ASSUME NEW p \in Procs, Stamp(p), UNCHANGED <<now, ptrVars, copying>>
        PROVE  PosInv'
    <3>1. CASE op[p] = "START"
      <4>1. startTime' = now /\ played' = 0 /\ paused' = FALSE /\ now' = now
            /\ UNCHANGED <<ptrVars, copying>>
        BY <2>1, <3>1 DEF Stamp
      <4>2. now \in 0..MaxTime /\ 0 \in 0..MaxTime /\ now <= now /\ 0 <= now - now
        BY BufferAssumption, SMT DEF PositionTypeOK
      <4>3. QED
        BY <4>1, <4>2 DEF ptrVars, PositionTypeOK, ClockInv, PositionInBuffer
    <3>2. CASE op[p] # "START"
      <4>1. paused' \in BOOLEAN
        BY <2>1, <3>2, Zenon DEF Stamp
      <4>2. UNCHANGED <<now, startTime, played, ptrVars, copying>>
        BY <2>1, <3>2, Zenon DEF Stamp
      <4>3. QED
        BY <4>1, <4>2
           DEF Stamp, ptrVars, PositionTypeOK, ClockInv, PositionInBuffer
    <3>3. QED
      BY <3>1, <3>2
  <2>2. CASE asked' = FALSE
             /\ UNCHANGED <<timeVars, ptr, hwPtr, answer, timed, truth, copying>>
    BY <2>2 DEF timeVars, PositionTypeOK, ClockInv, PositionInBuffer
  <2>3. QED
    BY <1>1, <1>2, <2>1, <2>2 DEF PcmStep
<1>3. CASE Tick
  <2>1. now' = now + 1 /\ now' <= MaxTime /\ startTime' = startTime
        /\ played' \in {played, played + 1}
    BY <1>3, BufferAssumption, SMT DEF Tick, PositionTypeOK
  <2>2. UNCHANGED <<paused, ptrVars, copying>>
    BY <1>3 DEF Tick
  <2>3. ClockInv' /\ now' \in 0..MaxTime /\ startTime' \in 0..MaxTime
        /\ played' \in 0..MaxTime
    BY <2>1, BufferAssumption, SMT DEF ClockInv, PositionTypeOK
  <2>4. QED
    BY <2>2, <2>3 DEF ptrVars, PositionTypeOK, PositionInBuffer
<1>4. ASSUME NEW p \in Procs, Pointer(p)
      PROVE  PosInv'
  <2>1. CASE PointerEnter(p)
    <3>1. UNCHANGED <<timeVars, asked, answer, timed, truth, copying>>
      BY <2>1 DEF PointerEnter
    <3>2. ptr' = [ptr EXCEPT ![p] = "running"]
          /\ \E c \in Counters : hwPtr' = [hwPtr EXCEPT ![p] = c]
      BY <2>1 DEF PointerEnter
    <3>3. ptr' \in [Procs -> PtrLocations] /\ hwPtr' \in [Procs -> Nat]
      BY <3>2, BufferAssumption, SMT DEF PositionTypeOK, PtrLocations
    <3>4. QED
      BY <3>1, <3>3 DEF timeVars, PositionTypeOK, ClockInv, PositionInBuffer
  <2>2. ASSUME NEW l \in PtrLocations, ptr' = [ptr EXCEPT ![p] = l],
               UNCHANGED <<timeVars, hwPtr, asked, answer, timed, truth, copying>>
        PROVE  PosInv'
    <3>1. ptr' \in [Procs -> PtrLocations]
      BY <2>2, SMT DEF PositionTypeOK
    <3>2. QED
      BY <2>2, <3>1 DEF timeVars, PositionTypeOK, ClockInv, PositionInBuffer
  <2>3. CASE PointerRunning(p)
    <3>1. hwPtr[p] \in Nat
      BY DEF PositionTypeOK
    <3>2. CASE dmaRunning /\ Counted(p)
      BY <2>3, <3>1, <3>2, FrameInBuffer, AnswerKeeps DEF PointerRunning
    <3>3. CASE ~(dmaRunning /\ Counted(p))
      BY <2>3, <3>3, <2>2 DEF PointerRunning, PtrLocations
    <3>4. QED
      BY <3>2, <3>3
  <2>4. CASE PointerAgain(p)
    <3>1. CASE dmaRunning
      BY <2>4, <3>1, <2>2 DEF PointerAgain, PtrLocations
    <3>2. CASE ~dmaRunning
      <4>1. Answer(p, 0, FALSE)
        BY <2>4, <3>2 DEF PointerAgain
      <4>2. QED
        BY <4>1, FrameInBuffer, AnswerKeeps
    <3>3. QED
      BY <3>1, <3>2
  <2>5. CASE PointerTime(p)
    <3>1. now - startTime \in Nat
      BY SMT DEF PositionTypeOK, ClockInv
    <3>2. Answer(p, TimeFrame(now - startTime), now - startTime < Wrap /\ ~paused)
      BY <2>5 DEF PointerTime
    <3>3. TimeFrame(now - startTime) \in Nat
          /\ TimeFrame(now - startTime) < BufferFrames
      BY <3>1, FrameInBuffer
    <3>4. (now - startTime < Wrap /\ ~paused) \in BOOLEAN
      OBVIOUS
    <3>5. QED
      BY <3>2, <3>3, <3>4, AnswerKeeps
  <2>6. QED
    BY <1>4, <2>1, <2>3, <2>4, <2>5 DEF Pointer
<1>5. ASSUME NEW s \in Streams, AckEnter(s) \/ AckFrame(s)
      PROVE  PosInv'
  <2>1. UNCHANGED <<timeVars, ptrVars>>
    BY <1>5 DEF AckEnter, AckFrame
  <2>2. copying' \in [Streams -> 0..BufferFrames]
    BY <1>5, BufferAssumption, SMT DEF AckEnter, AckFrame, LastFrame,
       PositionTypeOK
  <2>3. QED
    BY <2>1, <2>2 DEF timeVars, ptrVars, PositionTypeOK, ClockInv,
                      PositionInBuffer
<1>6. QED
  BY <1>1, <1>2, <1>3, <1>4, <1>5 DEF PositionNext

LEMMA PosInvariant == PositionSpec => []PosInv
  BY PosInit, PosStep, PTL DEF PositionSpec

(* Every variable of the two callbacks keeps its type: the loop of ack ends *)
(* at buffer_size.  (motu424_pointer, motu424_playback_ack)                 *)
THEOREM PositionTypes == PositionSpec => []PositionTypeOK
<1>1. PosInv => PositionTypeOK
  BY DEF PosInv
<1>2. QED
  BY <1>1, PosInvariant, PTL

(* The core is told a position below buffer_size in every call, whatever    *)
(* the card's counter reads, whenever the product wraps, and however the    *)
(* unlocked reads fall among the steps of other processes.                  *)
(* (motu424_pointer)                                                        *)
THEOREM PositionStaysInBuffer == PositionSpec => []PositionInBuffer
<1>1. PosInv => PositionInBuffer
  BY DEF PosInv
<1>2. QED
  BY <1>1, PosInvariant, PTL

-------------------------------------------------------------------------------
(* The frontend with its data callbacks.  pointer takes and leaves a stream *)
(* lock, which Motu424Pcm knows nothing of: what is proved of Motu424Pcm is *)
(* proved again of these steps, and holds of the composition.               *)

(* A process in pointer holds the stream lock of a running substream. *)
PtrInv ==
  \A p \in Procs : ptr[p] # Idle =>
    /\ Target(p) \in Streams
    /\ state[Target(p)] = "RUNNING"
    /\ streamLock[Target(p)] = p
    /\ IF p = Irq THEN irqPc = "elapsed" ELSE pc[p] = "idle"

(* The step of a client that takes its stream lock for pointer, or lets go. *)
TouchLock(s) ==
  /\ pc[s] = "idle" /\ streamLock[s] \in {None, s}
  /\ \E h \in {None, s} : streamLock' = [streamLock EXCEPT ![s] = h]
  /\ UNCHANGED <<hwVars, ctxVars, substream, state, pc, op, val, irqVars, owed>>

LEMMA TouchKeeps ==
  ASSUME NEW s \in Streams, TouchLock(s), PcmInv
  PROVE  PcmInv'
<1>a. /\ Irq \in Procs /\ Irq \notin Streams /\ Procs = Streams \cup {Irq}
      /\ None \notin Procs
  BY StreamsAssumption DEF Procs, Irq, None
<1>b. /\ pc[s] = "idle" /\ streamLock[s] # Irq
      /\ \E h \in {None, s} : streamLock' = [streamLock EXCEPT ![s] = h]
      /\ UNCHANGED <<portConf, intStatus, sizeSet, shadow, dmaRunning, rate, ctxLock,
                     substream, state, pc, op, val, irqPc, irqAt, owed>>
  BY <1>a DEF TouchLock, hwVars, ctxVars, irqVars
<1>1. TypeInv'
  <2>1. streamLock' \in [Streams -> Procs \cup {None}]
    BY <1>a, <1>b DEF PcmInv, TypeInv, TypeOK
  <2>2. QED
    BY <1>b, <2>1 DEF PcmInv, TypeInv, TypeOK, OpInv
<1>2. CtxInv'
  BY <1>b DEF PcmInv, CtxInv, CtxAgreesWithCard, Starts
<1>3. streamLock \in [Streams -> Procs \cup {None}]
  BY DEF PcmInv, TypeInv, TypeOK
<1>4. OwedInv'
  BY <1>a, <1>b, <1>3 DEF PcmInv, TypeInv, OpInv, OwedInv, NoPeriodLost, WillVisit
<1>5. CallInv'
  BY <1>a, <1>b, <1>3 DEF PcmInv, CallInv
<1>6. QED
  BY <1>1, <1>2, <1>4, <1>5 DEF PcmInv

LEMMA TouchKeepsSilence ==
  ASSUME NEW s \in Streams, TouchLock(s), SilenceInv
  PROVE  SilenceInv'
BY DEF TouchLock, SilenceInv, Drives, Halts, Starts, Target, hwVars, ctxVars, irqVars

LEMMA TouchKeepsSolo ==
  ASSUME NEW s \in Streams, TouchLock(s), SoloInv
  PROVE  SoloInv'
BY DEF TouchLock, SoloInv, Fits, NewConf, Starts, hwVars, ctxVars, irqVars

(* A step of the composition is one of Motu424Pcm, or touches a stream lock.*)
LEMMA PcmOrLock ==
  ASSUME PosInv, PcmInv, PtrInv, [PositionNext]_<<vars, posVars>>
  PROVE  [Next]_vars \/ \E s \in Streams : TouchLock(s)
<1>a. ptr \in [Procs -> PtrLocations]
  BY DEF PosInv, PositionTypeOK
<1>1. CASE PcmStep
  BY <1>1 DEF PcmStep, Next, Callback, IrqHandler
<1>2. CASE Tick
  BY <1>2 DEF Tick
<1>3. ASSUME NEW p \in Procs, Pointer(p)
      PROVE  UNCHANGED vars \/ \E s \in Streams : TouchLock(s)
  <2>1. CASE PointerEnter(p)
    BY <2>1 DEF PointerEnter, TouchLock, Procs, Target
  <2>2. ASSUME NEW pos, NEW byTime, Answer(p, pos, byTime), ptr[p] # Idle
        PROVE  UNCHANGED vars \/ \E s \in Streams : TouchLock(s)
    <3>1. CASE p = Irq
      BY <2>2, <3>1 DEF Answer
    <3>2. CASE p # Irq
      <4>1. p \in Streams /\ pc[p] = "idle" /\ streamLock[p] = p
        BY <2>2, <3>2 DEF PtrInv, Procs, Target
      <4>2. /\ streamLock' = [streamLock EXCEPT ![p] = None]
            /\ UNCHANGED <<hwVars, ctxVars, substream, state, pc, op, val, irqVars,
                           owed>>
        BY <2>2, <3>2 DEF Answer
      <4>3. QED
        BY <4>1, <4>2 DEF TouchLock
    <3>3. QED
      BY <3>1, <3>2
  <2>3. CASE PointerRunning(p)
    <3>1. ptr[p] # Idle
      BY <2>3 DEF PointerRunning, Idle
    <3>2. QED
      BY <2>2, <2>3, <3>1 DEF PointerRunning
  <2>4. CASE PointerAgain(p)
    <3>1. ptr[p] # Idle
      BY <2>4 DEF PointerAgain, Idle
    <3>2. QED
      BY <2>2, <2>4, <3>1 DEF PointerAgain
  <2>5. CASE PointerTime(p)
    <3>1. ptr[p] # Idle
      BY <2>5 DEF PointerTime, Idle
    <3>2. QED
      BY <2>2, <2>5, <3>1 DEF PointerTime
  <2>6. QED
    BY <1>3, <2>1, <2>3, <2>4, <2>5 DEF Pointer
<1>4. ASSUME NEW s \in Streams, AckEnter(s) \/ AckFrame(s)
      PROVE  UNCHANGED vars
  BY <1>4 DEF AckEnter, AckFrame
<1>5. CASE UNCHANGED <<vars, posVars>>
  BY <1>5
<1>6. QED
  BY <1>1, <1>2, <1>3, <1>4, <1>5 DEF PositionNext

LEMMA PtrInit == PositionInit => PtrInv
BY DEF PositionInit, PtrInv

LEMMA PtrStep ==
  ASSUME PosInv, PcmInv, PtrInv, [PositionNext]_<<vars, posVars>>
  PROVE  PtrInv'
<1>a. /\ Irq \in Procs /\ Irq \notin Streams /\ Procs = Streams \cup {Irq}
      /\ None \notin Procs
  BY StreamsAssumption DEF Procs, Irq, None
<1>b. /\ ptr \in [Procs -> PtrLocations]
      /\ pc \in [Procs -> Locations] /\ op \in [Procs -> Ops \cup {None}]
      /\ state \in [Streams -> States]
      /\ streamLock \in [Streams -> Procs \cup {None}]
      /\ irqPc # "stop" => pc[Irq] = "idle"
      /\ irqPc = "elapsed" => streamLock[irqAt] = Irq /\ irqAt \in Streams
      /\ pc[Irq] # "idle" => streamLock[irqAt] = Irq /\ irqAt \in Streams
      /\ \A s \in Streams : pc[s] # "idle" =>
           /\ state[s] \in LegalIn(op[s])
           /\ op[s] # "PREPARE" => streamLock[s] = s
  BY DEF PosInv, PositionTypeOK, PcmInv, TypeInv, TypeOK, OpInv, OwedInv, CallInv
<1>1. CASE UNCHANGED <<ptr, pc, irqVars>> /\ UNCHANGED <<state, streamLock>>
  BY <1>1 DEF PtrInv, Target, irqVars
<1>2. CASE PcmStep
  <2>1. ASSUME NEW s \in Streams, Free(s), Client(s), UNCHANGED posVars
        PROVE  PtrInv'
    <3> USE <1>a, <1>b, <2>1 DEF PtrInv, Target, Free, posVars, ptrVars, hwVars,
          ctxVars, coreVars, irqVars
    <3>1. CASE Open(s)
      BY <3>1 DEF Open
    <3>2. CASE Close(s)
      BY <3>2 DEF Close
    <3>3. CASE SuspendPaused(s)
      BY <3>3 DEF SuspendPaused
    <3>4. CASE CallPrepare(s)
      BY <3>4 DEF CallPrepare
    <3>5. CASE CallTrigger(s)
      BY <3>5 DEF CallTrigger
    <3>6. QED
      BY <3>1, <3>2, <3>3, <3>4, <3>5 DEF Client
  <2>2. ASSUME NEW p \in Procs, pc[p] # "idle", UNCHANGED <<ptr, irqVars>>,
               \E l \in Locations : pc' = [pc EXCEPT ![p] = l],
               UNCHANGED <<state, streamLock>>
        PROVE  PtrInv'
    BY <1>a, <1>b, <2>2 DEF PtrInv, Target, irqVars
  <2>3. ASSUME NEW p \in Procs, Lock(p) \/ Read(p) \/ Write(p), UNCHANGED posVars
        PROVE  PtrInv'
    <3>1. pc[p] # "idle" /\ UNCHANGED <<ptr, irqVars, state, streamLock>>
      BY <2>3 DEF Lock, Read, Write, posVars, ptrVars, coreVars
    <3>2. \E l \in Locations : pc' = [pc EXCEPT ![p] = l]
      BY <2>3 DEF Lock, Read, Write, Locations
    <3>3. QED
      BY <3>1, <3>2, <2>2
  <2>4. ASSUME NEW p \in Procs, Store(p), UNCHANGED ptrVars
        PROVE  PtrInv'
    <3>1. pc[p] # "idle" /\ UNCHANGED <<ptr, irqVars, state, streamLock>>
          /\ pc' = [pc EXCEPT ![p] = "return"]
      BY <2>4 DEF Store, ptrVars, coreVars
    <3>2. QED
      BY <3>1, <2>2 DEF Locations
  <2>5. ASSUME NEW p \in Procs, Return(p), UNCHANGED posVars
        PROVE  PtrInv'
    <3>1. /\ pc[p] = "return" /\ pc' = [pc EXCEPT ![p] = "idle"]
          /\ UNCHANGED <<ptr, irqPc, irqAt>>
          /\ state' = [state EXCEPT ![Target(p)] = NextState(op[p])]
          /\ streamLock' = [streamLock EXCEPT ![Target(p)] = None]
      BY <2>5 DEF Return, posVars, ptrVars, irqVars
    <3>2. ASSUME NEW q \in Procs, ptr[q] # Idle PROVE Target(q) # Target(p)
      <4>1. /\ state[Target(q)] = "RUNNING" /\ streamLock[Target(q)] = q
            /\ IF q = Irq THEN irqPc = "elapsed" ELSE pc[q] = "idle"
        BY <3>2 DEF PtrInv
      <4>2. CASE p = Irq
        BY <1>b, <3>1, <4>1, <4>2 DEF Target
      <4>3. CASE p # Irq
        BY <1>a, <1>b, <3>1, <4>1, <4>3 DEF Target, LegalIn
      <4>4. QED
        BY <4>2, <4>3
    <3>3. QED
      BY <1>a, <1>b, <3>1, <3>2 DEF PtrInv, Target
  <2>6. CASE PeriodElapses /\ UNCHANGED posVars
    BY <2>6, <1>1 DEF PeriodElapses, coreVars, posVars, ptrVars
  <2>7. CASE /\ IrqEnter \/ IrqRead \/ IrqAck \/ IrqCheck \/ IrqStopped
             /\ UNCHANGED posVars
    <3>1. UNCHANGED <<ptr, pc, state, streamLock>> /\ irqPc # "elapsed"
      BY <2>7 DEF IrqEnter, IrqRead, IrqAck, IrqCheck, IrqStopped, coreVars, posVars,
                  ptrVars
    <3>2. QED
      BY <1>a, <3>1 DEF PtrInv, Target
  <2>8. CASE IrqCall /\ UNCHANGED ptr
    <3>1. /\ irqPc = "call" /\ UNCHANGED <<ptr, pc, state>>
          /\ \/ streamLock[irqAt] = None
                /\ streamLock' = [streamLock EXCEPT ![irqAt] = Irq]
             \/ UNCHANGED streamLock
      BY <2>8 DEF IrqCall
    <3>2. QED
      BY <1>a, <1>b, <3>1 DEF PtrInv, Target
  <2>9. CASE Free(Irq) /\ IrqElapsed /\ UNCHANGED posVars
    <3>1. /\ ptr[Irq] = Idle /\ irqPc = "elapsed" /\ UNCHANGED <<ptr, state>>
          /\ \A s \in Streams \ {irqAt} : streamLock'[s] = streamLock[s]
          /\ \A s \in Streams : pc'[s] = pc[s]
      BY <1>a, <1>b, <2>9 DEF Free, IrqElapsed, posVars, ptrVars
    <3>2. \A s \in Streams : ptr[s] # Idle => s # irqAt
      BY <1>a, <1>b, <3>1 DEF PtrInv, Target
    <3>3. QED
      BY <1>a, <3>1, <3>2 DEF PtrInv, Target
  <2>10. QED
    BY <1>2, <2>1, <2>3, <2>4, <2>5, <2>6, <2>7, <2>8, <2>9 DEF PcmStep
<1>3. CASE Tick
  BY <1>3, <1>1 DEF Tick, vars, coreVars, ptrVars
<1>4. ASSUME NEW p \in Procs, Pointer(p) PROVE PtrInv'
  <2>1. CASE PointerEnter(p)
    <3>1. /\ p = Irq => irqPc = "elapsed"
          /\ state[Target(p)] = "RUNNING"
          /\ ptr' = [ptr EXCEPT ![p] = "running"]
          /\ UNCHANGED <<pc, state, irqPc, irqAt>>
      BY <2>1 DEF PointerEnter, vars, coreVars, irqVars
    <3>2. CASE p = Irq
      <4>1. UNCHANGED streamLock
        BY <2>1, <3>2 DEF PointerEnter, vars, coreVars
      <4>2. QED
        BY <1>a, <1>b, <3>1, <3>2, <4>1 DEF PtrInv, Target
    <3>3. CASE p # Irq
      <4>1. /\ pc[p] = "idle" /\ streamLock[p] = None
            /\ streamLock' = [streamLock EXCEPT ![p] = p]
        BY <2>1, <3>3 DEF PointerEnter
      <4>2. QED
        BY <1>a, <1>b, <3>1, <3>3, <4>1 DEF PtrInv, Target
    <3>4. QED
      BY <3>2, <3>3
  <2>2. ASSUME NEW pos, NEW byTime, Answer(p, pos, byTime), ptr[p] # Idle
        PROVE  PtrInv'
    <3>1. /\ ptr' = [ptr EXCEPT ![p] = Idle]
          /\ UNCHANGED <<pc, state, irqPc, irqAt>>
          /\ IF p = Irq THEN UNCHANGED streamLock
                        ELSE streamLock' = [streamLock EXCEPT ![p] = None]
      BY <2>2 DEF Answer, vars, coreVars, irqVars
    <3>2. QED
      BY <1>a, <1>b, <2>2, <3>1 DEF PtrInv, Target, Idle
  <2>3. ASSUME ptr[p] # Idle, \E l \in PtrLocations : ptr' = [ptr EXCEPT ![p] = l],
               UNCHANGED vars
        PROVE  PtrInv'
    BY <1>a, <1>b, <2>3 DEF PtrInv, Target, vars, coreVars, irqVars
  <2>4. CASE PointerRunning(p)
    BY <2>2, <2>3, <2>4 DEF PointerRunning, Idle, PtrLocations
  <2>5. CASE PointerAgain(p)
    BY <2>2, <2>3, <2>5 DEF PointerAgain, Idle, PtrLocations
  <2>6. CASE PointerTime(p)
    BY <2>2, <2>6 DEF PointerTime, Idle
  <2>7. QED
    BY <1>4, <2>1, <2>4, <2>5, <2>6 DEF Pointer
<1>5. ASSUME NEW s \in Streams, AckEnter(s) \/ AckFrame(s) PROVE PtrInv'
  BY <1>5, <1>1 DEF AckEnter, AckFrame, vars, coreVars, ptrVars
<1>6. CASE UNCHANGED <<vars, posVars>>
  BY <1>6, <1>1 DEF vars, coreVars, posVars, ptrVars
<1>7. QED
  BY <1>2, <1>3, <1>4, <1>5, <1>6 DEF PositionNext

(* What holds of the composition for any substreams and contents at boot. *)
AllInv == PosInv /\ PcmInv /\ PtrInv

LEMMA AllInvariant == PositionSpec => []AllInv
<1>1. PositionInit => AllInv
  BY PosInit, PcmInvInit, PtrInit DEF AllInv, PositionInit
<1>2. AllInv /\ [PositionNext]_<<vars, posVars>> => AllInv'
  BY PosStep, PcmOrLock, PcmInvStep, TouchKeeps, PtrStep DEF AllInv
<1>3. QED
  BY <1>1, <1>2, PTL DEF PositionSpec

(* What is proved of the callbacks and the handler alone stays true among   *)
(* the steps of pointer and ack, for any substreams and contents at boot.   *)
(* (motu424_pointer, called with the stream lock that trigger takes)        *)
THEOREM ComposedFrontend == PositionSpec => [](NoPeriodLost /\ CtxAgreesWithCard)
<1>1. AllInv => NoPeriodLost /\ CtxAgreesWithCard
  BY DEF AllInv, PcmInv, OwedInv, CtxInv
<1>2. QED
  BY <1>1, AllInvariant, PTL

(* No frame moves while no substream runs, pointer and ack notwithstanding. *)
(* (trigger and the prepares, for a card that was not left running)         *)
THEOREM ComposedSilence ==
  ASSUME \A conf \in BootPortConf : ~EngineOn(conf)
  PROVE  PositionSpec => []IdleIsSilent
<1>1. PositionInit => SilenceInv
  BY SilenceInit DEF PositionInit
<1>2. AllInv /\ SilenceInv /\ [PositionNext]_<<vars, posVars>> => SilenceInv'
  BY PcmOrLock, SilenceStep, TouchKeepsSilence DEF AllInv
<1>3. AllInv /\ SilenceInv => IdleIsSilent
  BY SilenceMeans DEF AllInv
<1>4. QED
  BY <1>1, <1>2, <1>3, AllInvariant, PTL DEF PositionSpec

-------------------------------------------------------------------------------
(* What a position computed from the time is worth.                         *)

(* From the moment START takes the time the engine is on, so every tick is  *)
(* a frame, until a call that stops it has written; releasing a pause turns *)
(* the engine on again without taking the time, and says so.                *)
CountInv ==
  /\ ~paused =>
       \A s \in Streams :
         \/ state[s] = "RUNNING" /\ EngineOn(portConf)
         \/ \E p \in Procs : pc[p] = "return" /\ op[p] = "START"
         => played = now - startTime
  /\ \A p \in Procs : pc[p] = "return" /\ op[p] = "PAUSE_RELEASE" => paused
  /\ PositionCountsPlayed

LEMMA CountInit == PositionInit => CountInv
BY DEF PositionInit, Init, CountInv, PositionCountsPlayed

(* Whoever is in pointer on the only substream finds nobody in a call.      *)
LEMMA PointerAlone ==
  ASSUME NEW only, Streams = {only}, AllInv, NEW p \in Procs, ptr[p] # Idle
  PROVE  (\A q \in Procs : pc[q] = "idle") /\ Target(p) = only
         /\ state[only] = "RUNNING"
<1>1. /\ Irq \in Procs /\ Irq # only /\ Procs = {only, Irq}
  BY StreamsAssumption DEF Procs, Irq
<1>2. /\ Target(p) = only /\ state[only] = "RUNNING" /\ streamLock[only] = p
      /\ IF p = Irq THEN irqPc = "elapsed" ELSE pc[p] = "idle"
  BY DEF AllInv, PtrInv
<1>3. pc[Irq] = "idle"
  BY <1>1, <1>2 DEF AllInv, PcmInv, TypeInv, OpInv, OwedInv
<1>4. pc[only] = "idle"
  BY <1>1, <1>2 DEF AllInv, PcmInv, CallInv, LegalIn
<1>5. QED
  BY <1>1, <1>2, <1>3, <1>4

(* A number below the divisor is its own remainder. *)
LEMMA SmallRemainder ==
  ASSUME NEW b \in Nat \ {0}, NEW a \in Nat, a < b
  PROVE  a % b = a
  BY SMT

LEMMA CountStep ==
  ASSUME NEW only, Streams = {only}, AllInv, SoloInv, SilenceInv, CountInv,
         [PositionNext]_<<vars, posVars>>
  PROVE  CountInv'
<1>a. /\ Irq \in Procs /\ Irq # only /\ Procs = {only, Irq} /\ only \in Streams
  BY StreamsAssumption DEF Procs, Irq
<1>b. /\ pc \in [Procs -> Locations] /\ op \in [Procs -> Ops \cup {None}]
      /\ state \in [Streams -> States]
      /\ \A p \in Procs : pc[p] # "idle" =>
           /\ op[p] \in Ops /\ Target(p) = only
           /\ state[only] \in LegalIn(op[p])
           /\ \A q \in Procs : q # p => pc[q] = "idle"
  <2>1. /\ pc \in [Procs -> Locations] /\ op \in [Procs -> Ops \cup {None}]
        /\ state \in [Streams -> States]
        /\ \A p \in Procs : pc[p] # "idle" => op[p] \in Ops
    BY DEF AllInv, PcmInv, TypeInv, TypeOK, OpInv
  <2>2. pc[Irq] # "idle" => /\ irqAt = only /\ state[only] = "RUNNING"
                            /\ op[Irq] \in {"STOP", "XRUN"}
                            /\ streamLock[only] = Irq
    BY <1>a DEF AllInv, PcmInv, OwedInv, TypeInv, OpInv, CallInv
  <2>3. pc[only] # "idle" => /\ state[only] \in LegalIn(op[only])
                             /\ op[only] # "PREPARE" => streamLock[only] = only
    BY <1>a DEF AllInv, PcmInv, CallInv
  <2>4. pc[Irq] # "idle" => pc[only] = "idle"
    BY <1>a, <2>2, <2>3 DEF LegalIn
  <2>5. QED
    BY <1>a, <2>1, <2>2, <2>3, <2>4 DEF Target, LegalIn
<1>c. /\ now \in Nat /\ startTime \in Nat /\ played \in Nat /\ startTime <= now
      /\ paused \in BOOLEAN
  BY BufferAssumption, SMT DEF AllInv, PosInv, PositionTypeOK, ClockInv
<1>d. ASSUME UNCHANGED <<now, startTime, played, paused, answer, timed, truth>>,
             /\ state'[only] = "RUNNING" /\ EngineOn(portConf)'
                => \/ state[only] = "RUNNING" /\ EngineOn(portConf)
                   \/ paused
                   \/ \E p \in Procs : pc[p] = "return" /\ op[p] = "START",
             \A p \in Procs : /\ pc'[p] = "return"
                              /\ op'[p] \in {"START", "PAUSE_RELEASE"}
                              => pc[p] = "return" /\ op[p] = op'[p]
      PROVE  CountInv'
  BY <1>d DEF CountInv, PositionCountsPlayed
<1>e. ASSUME NEW p \in Procs, Client(only) \/ Lock(p) \/ Read(p) \/ Write(p)
                              \/ Return(p) \/ PeriodElapses \/ IrqHandler,
             UNCHANGED <<now, startTime, played, paused, answer, timed, truth>>
      PROVE  CountInv'
  <2>1. CASE Client(only)
    <3>1. /\ UNCHANGED portConf
          /\ state'[only] = "RUNNING" => state[only] = "RUNNING"
      BY <2>1, <1>a, <1>b DEF Client, Open, Close, SuspendPaused, CallPrepare,
                              CallTrigger, hwVars, coreVars
    <3>2. ASSUME NEW q \in Procs, pc'[q] = "return"
          PROVE  pc[q] = "return" /\ op[q] = op'[q]
      BY <2>1, <1>a, <1>b, <3>2 DEF Client, Open, Close, SuspendPaused,
                                    CallPrepare, CallTrigger
    <3>3. QED
      BY <1>e, <1>d, <3>1, <3>2 DEF EngineOn
  <2>2. CASE Lock(p) \/ Read(p)
    <3>1. UNCHANGED <<portConf, state, op>>
          /\ \E l \in Locations \ {"return"} : pc' = [pc EXCEPT ![p] = l]
      BY <2>2 DEF Lock, Read, hwVars, coreVars, Locations
    <3>2. QED
      BY <1>b, <1>e, <1>d, <3>1 DEF EngineOn
  <2>3. CASE Write(p)
    <3>1. /\ pc[p] = "write" /\ pc' = [pc EXCEPT ![p] = "store"]
          /\ UNCHANGED <<state, op>>
      BY <2>3 DEF Write, coreVars
    <3>2. state[only] = "RUNNING" => "DMA_EN" \notin portConf'
      <4>1. state[only] = "RUNNING" => op[p] # "PREPARE" /\ ~Starts(p)
        BY <1>b, <3>1 DEF LegalIn, Starts
      <4>2. QED
        BY <2>3, <3>1, <4>1 DEF Write, SilenceInv
    <3>3. QED
      BY <1>b, <1>e, <1>d, <3>1, <3>2 DEF EngineOn
  <2>4. CASE Return(p)
    <3>1. /\ pc[p] = "return" /\ pc' = [pc EXCEPT ![p] = "idle"]
          /\ op' = [op EXCEPT ![p] = None]
          /\ state' = [state EXCEPT ![only] = NextState(op[p])]
          /\ UNCHANGED portConf
      BY <1>b, <2>4 DEF Return, hwVars
    <3>2. state'[only] = "RUNNING" => paused \/ op[p] = "START"
      BY <1>a, <1>b, <3>1 DEF CountInv, NextState, Ops
    <3>3. QED
      BY <1>b, <1>e, <1>d, <3>1, <3>2
  <2>5. CASE PeriodElapses \/ IrqHandler
    <3>1. UNCHANGED <<portConf, state>>
      BY <2>5 DEF PeriodElapses, IrqHandler, IrqEnter, IrqRead, IrqAck, IrqCheck,
                  IrqCall, IrqElapsed, IrqStopped, hwVars, coreVars
    <3>2. UNCHANGED <<pc, op>>
          \/ /\ pc' = [pc EXCEPT ![Irq] = "lock"]
             /\ \E o : op' = [op EXCEPT ![Irq] = o]
      BY <2>5 DEF PeriodElapses, IrqHandler, IrqEnter, IrqRead, IrqAck, IrqCheck,
                  IrqCall, IrqElapsed, IrqStopped
    <3>3. QED
      BY <1>a, <1>b, <1>e, <1>d, <3>1, <3>2 DEF EngineOn
  <2>6. QED
    BY <1>e, <2>1, <2>2, <2>3, <2>4, <2>5
<1>1. CASE PcmStep
  <2>1. ASSUME NEW p \in Procs, Store(p), Stamp(p),
               UNCHANGED <<now, ptrVars, copying>>
        PROVE  CountInv'
    <3>1. /\ pc[p] = "store" /\ pc' = [pc EXCEPT ![p] = "return"]
          /\ UNCHANGED <<portConf, state, op>>
      BY <2>1 DEF Store, hwVars, coreVars
    <3>2. UNCHANGED <<now, answer, timed, truth>>
      BY <2>1 DEF ptrVars
    <3>3. CASE op[p] = "START"
      <4>1. startTime' = now /\ played' = 0 /\ paused' = FALSE
        BY <2>1, <3>3 DEF Stamp
      <4>2. played' = now' - startTime'
        BY <1>c, <3>2, <4>1, SMT
      <4>3. \A q \in Procs : pc'[q] = "return" => op'[q] = "START"
        BY <1>b, <3>1, <3>3
      <4>4. QED
        BY <3>2, <4>2, <4>3 DEF CountInv, PositionCountsPlayed
    <3>4. CASE op[p] # "START"
      <4>1. paused' = (paused \/ op[p] = "PAUSE_RELEASE")
            /\ UNCHANGED <<startTime, played>>
        BY <2>1, <3>4 DEF Stamp
      <4>2. \A q \in Procs : pc'[q] = "return" => q = p
        BY <1>b, <3>1
      <4>3. ASSUME ~paused',
                   \/ state'[only] = "RUNNING" /\ EngineOn(portConf)'
                   \/ \E q \in Procs : pc'[q] = "return" /\ op'[q] = "START"
            PROVE  played' = now' - startTime'
        <5>1. ~paused /\ state[only] = "RUNNING" /\ EngineOn(portConf)
          BY <3>1, <3>4, <4>1, <4>2, <4>3 DEF EngineOn
        <5>2. QED
          BY <1>a, <3>2, <4>1, <5>1 DEF CountInv
      <4>4. \A q \in Procs : pc'[q] = "return" /\ op'[q] = "PAUSE_RELEASE" => paused'
        BY <3>1, <4>1, <4>2
      <4>5. QED
        BY <3>2, <4>3, <4>4 DEF CountInv, PositionCountsPlayed
    <3>5. QED
      BY <3>3, <3>4
  <2>2. QED
    BY <1>a, <1>1, <1>e, <2>1
       DEF PcmStep, IrqHandler, posVars, timeVars, ptrVars
<1>2. CASE Tick
  <2>1. /\ now' = now + 1
        /\ played' = IF EngineOn(portConf) THEN played + 1 ELSE played
        /\ UNCHANGED <<startTime, paused, answer, timed, truth>>
        /\ UNCHANGED <<state, portConf, pc, op>>
    BY <1>2 DEF Tick, ptrVars, vars, coreVars, hwVars
  <2>2. ASSUME NEW p \in Procs, pc[p] = "return", op[p] = "START"
        PROVE  EngineOn(portConf)
    BY <1>a, <2>2 DEF SoloInv, Fits, NextState, EngineOn
  <2>3. played = now - startTime => played + 1 = now + 1 - startTime
    BY <1>c, SMT
  <2>4. PositionCountsPlayed'
    BY <2>1 DEF CountInv, PositionCountsPlayed
  <2>5. ASSUME ~paused',
               \/ state'[only] = "RUNNING" /\ EngineOn(portConf)'
               \/ \E p \in Procs : pc'[p] = "return" /\ op'[p] = "START"
        PROVE  played' = now' - startTime'
    <3>1. EngineOn(portConf) /\ played = now - startTime
      BY <1>a, <2>1, <2>2, <2>5 DEF CountInv, EngineOn
    <3>2. played' = played + 1 /\ now' = now + 1 /\ startTime' = startTime
      BY <2>1, <3>1
    <3>3. QED
      BY <1>c, <3>1, <3>2, SMT
  <2>6. QED
    BY <2>1, <2>4, <2>5 DEF CountInv
<1>3. ASSUME NEW p \in Procs, Pointer(p) PROVE CountInv'
  <2>1. /\ UNCHANGED <<now, startTime, played, paused>>
        /\ UNCHANGED <<portConf, state, pc, op>>
    BY <1>3 DEF Pointer, PointerEnter, PointerRunning, PointerAgain, PointerTime,
                Answer, timeVars, vars, hwVars, coreVars
  <2>2. CASE UNCHANGED <<answer, timed, truth>>
    BY <1>d, <2>1, <2>2 DEF EngineOn
  <2>3. ASSUME NEW pos, NEW byTime \in BOOLEAN, Answer(p, pos, byTime),
               ptr[p] # Idle, byTime => pos = played % BufferFrames
        PROVE  CountInv'
    <3>1. Target(p) = only
      BY <2>3, PointerAlone
    <3>2. /\ answer' = [answer EXCEPT ![only] = pos]
          /\ timed' = [timed EXCEPT ![only] = byTime]
          /\ truth' = [truth EXCEPT ![only] = IF byTime THEN played ELSE 0]
      BY <2>3, <3>1 DEF Answer
    <3>3. /\ answer \in [Streams -> Nat] /\ timed \in [Streams -> BOOLEAN]
          /\ truth \in [Streams -> 0..MaxTime]
      BY DEF AllInv, PosInv, PositionTypeOK
    <3>4. PositionCountsPlayed'
      BY <2>3, <3>2, <3>3 DEF PositionCountsPlayed
    <3>5. QED
      BY <2>1, <3>4 DEF CountInv, EngineOn
  <2>4. CASE PointerEnter(p)
    BY <2>2, <2>4 DEF PointerEnter
  <2>5. CASE PointerRunning(p)
    <3>1. ptr[p] # Idle
      BY <2>5 DEF PointerRunning, Idle
    <3>2. QED
      BY <2>2, <2>3, <2>5, <3>1 DEF PointerRunning
  <2>6. CASE PointerAgain(p)
    <3>1. ptr[p] # Idle
      BY <2>6 DEF PointerAgain, Idle
    <3>2. QED
      BY <2>2, <2>3, <2>6, <3>1 DEF PointerAgain
  <2>7. CASE PointerTime(p)
    <3>1. ptr[p] # Idle
          /\ Answer(p, TimeFrame(now - startTime),
                    now - startTime < Wrap /\ ~paused)
      BY <2>7 DEF PointerTime, Idle
    <3>2. state[only] = "RUNNING" /\ \A q \in Procs : pc[q] = "idle"
      BY <3>1, PointerAlone
    <3>3. EngineOn(portConf)
      BY <1>a, <3>2 DEF SoloInv, Fits, EngineOn
    <3>4. ~paused => played = now - startTime
      BY <1>a, <3>2, <3>3 DEF CountInv
    <3>5. now - startTime < Wrap => (now - startTime) % Wrap = now - startTime
      <4>1. now - startTime \in Nat /\ Wrap \in Nat \ {0}
        BY <1>c, BufferAssumption, SMT
      <4>2. QED
        BY <4>1, SmallRemainder
    <3>6. now - startTime < Wrap /\ ~paused
            => TimeFrame(now - startTime) = played % BufferFrames
      BY <3>4, <3>5 DEF TimeFrame
    <3>7. (now - startTime < Wrap /\ ~paused) \in BOOLEAN
      OBVIOUS
    <3>8. QED
      BY <2>3, <3>1, <3>6, <3>7
  <2>8. QED
    BY <1>3, <2>4, <2>5, <2>6, <2>7 DEF Pointer
<1>4. ASSUME NEW s \in Streams, AckEnter(s) \/ AckFrame(s) PROVE CountInv'
  BY <1>4, <1>d DEF AckEnter, AckFrame, vars, coreVars, hwVars, timeVars, ptrVars,
                    EngineOn
<1>5. CASE UNCHANGED <<vars, posVars>>
  BY <1>5, <1>d DEF vars, coreVars, hwVars, posVars, timeVars, ptrVars, EngineOn
<1>6. QED
  BY <1>1, <1>2, <1>3, <1>4, <1>5 DEF PositionNext

LEMMA ComposedSolo ==
  ASSUME NEW only, Streams = {only},
         \A conf \in BootPortConf : ~EngineOn(conf)
  PROVE  PositionSpec => [](AllInv /\ SoloInv /\ SilenceInv /\ CountInv)
<1> DEFINE Inv == SoloInv /\ SilenceInv /\ CountInv
<1>1. PositionInit => Inv
  BY SoloInit, SilenceInit, CountInit DEF PositionInit
<1>2. ASSUME AllInv, Inv, [PositionNext]_<<vars, posVars>> PROVE Inv'
  <2>1. CASE [Next]_vars
    <3>1. SoloInv' /\ SilenceInv'
      BY <1>2, <2>1, SoloStep, SilenceStep DEF AllInv, PcmInv
    <3>2. QED
      BY <1>2, <3>1, CountStep
  <2>2. CASE \E s \in Streams : TouchLock(s)
    <3>1. SoloInv' /\ SilenceInv'
      BY <1>2, <2>2, TouchKeepsSolo, TouchKeepsSilence
    <3>2. QED
      BY <1>2, <3>1, CountStep
  <2>3. QED
    BY <1>2, <2>1, <2>2, PcmOrLock DEF AllInv
<1>3. QED
  BY <1>1, <1>2, AllInvariant, PTL DEF PositionSpec

(* On a card one substream uses, a position computed from the time is the   *)
(* number of frames the engine has moved since the substream was started,   *)
(* until a pause is released or the product wraps: for buffers of any size, *)
(* any substream, any operations, and although the fields it is computed    *)
(* from are read without ctx.lock.  (motu424_pointer against trigger)       *)
THEOREM PositionIsPlayed ==
  ASSUME NEW only, Streams = {only},
         \A conf \in BootPortConf : ~EngineOn(conf)
  PROVE  PositionSpec => []PositionCountsPlayed
<1>1. CountInv => PositionCountsPlayed
  BY DEF CountInv
<1>2. QED
  BY <1>1, ComposedSolo, PTL

(* With pointer and ack among them the callbacks still leave the engine as  *)
(* the client sees it and write a pause from a fresh shadow.  (trigger)     *)
THEOREM ComposedEngine ==
  ASSUME NEW only, Streams = {only},
         \A conf \in BootPortConf : ~EngineOn(conf)
  PROVE  PositionSpec => [](EngineFollowsClient /\ PauseWritesFresh)
<1>1. AllInv /\ SoloInv => EngineFollowsClient /\ PauseWritesFresh
  BY SoloMeans DEF AllInv, PcmInv
<1>2. QED
  BY <1>1, ComposedSolo, PTL

(* The whole frontend of one substream implements AudioEngine: to the       *)
(* engine pointer and ack are stutters.  (motu424_alsa.c: trigger, pointer, *)
(* ack, the prepares and motu424_irq_handler together)                      *)
THEOREM ComposedRefinement ==
  ASSUME NEW only, Streams = {only},
         \A conf \in BootPortConf : "RUN" \notin conf
  PROVE  PositionSpec => ImplementsEngine
<1>1. \A conf \in BootPortConf : ~EngineOn(conf)
  BY DEF EngineOn
<1>2. PositionSpec => [](AllInv /\ SoloInv)
  BY <1>1, ComposedSolo, PTL
<1>3. PositionInit => Engine!Init
  BY EngineInit DEF PositionInit
<1>4. AllInv /\ SoloInv /\ [PositionNext]_<<vars, posVars>>
        => [Engine!Next]_(Engine!vars)
  <2>1. \A s \in Streams : TouchLock(s) => UNCHANGED Engine!vars
    BY EngineStutter DEF TouchLock, hwVars
  <2>2. QED
    BY <2>1, PcmOrLock, EngineStep DEF AllInv
<1>5. QED
  BY <1>2, <1>3, <1>4, PTL DEF PositionSpec, ImplementsEngine, Engine!Spec
===============================================================================
