--------------------------- MODULE Motu424PcmProofs ---------------------------
(***************************************************************************)
(* Theorems about Motu424Pcm, for every set of substreams in use, every set *)
(* of operations and every content of PORT_CONF at boot.                    *)
(***************************************************************************)
EXTENDS Motu424PcmEngine, TLAPS

-------------------------------------------------------------------------------
(* Types.  A process that is in a call has an operation, the handler only   *)
(* ever makes a trigger, and it is in one only while it waits for it.       *)

OpInv ==
  /\ \A p \in Procs : pc[p] # "idle" => op[p] \in Ops
  /\ op[Irq] # "PREPARE"
  /\ irqPc # "stop" => pc[Irq] = "idle"

TypeInv == TypeOK /\ OpInv

(* The prepares write constants, a trigger writes one of four values. *)
LEMMA NewConfType ==
  ASSUME TypeOK, NEW o, NEW s
  PROVE  NewConf(o, s) \in SUBSET Flags
BY DEF TypeOK, NewConf, StartedConf, StoppedConf, PausedConf, ReleasedConf,
       Flags

LEMMA TypeInit == Init => TypeInv
<1> SUFFICES ASSUME Init PROVE TypeInv
    OBVIOUS
<1> USE BootAssumption
<1>1. portConf \in SUBSET Flags
      BY DEF Init
<1>2. TypeOK
      BY <1>1 DEF Init, TypeOK, Procs, Locations, IrqLocations, States, Irq, None
<1>3. OpInv
      BY DEF Init, OpInv, Procs, Irq, None
<1> QED BY <1>2, <1>3 DEF TypeInv

LEMMA TypeStep == TypeInv /\ [Next]_vars => TypeInv'
<1> SUFFICES ASSUME TypeInv, [Next]_vars PROVE TypeInv'
    OBVIOUS
<1> USE StreamsAssumption, OpsAssumption DEF TypeInv
<1>a. Irq \in Procs /\ Irq \notin Streams /\ Streams \subseteq Procs
      BY DEF Irq, Procs
<1>1. ASSUME NEW s \in Streams, Client(s) PROVE TypeInv'
  <2> USE <1>a DEF TypeOK, OpInv, hwVars, ctxVars, coreVars, irqVars
  <2>1. CASE Open(s)
        BY <2>1 DEF Open, States
  <2>2. CASE Close(s)
        BY <2>2 DEF Close, States
  <2>3. CASE SuspendPaused(s)
        BY <2>3 DEF SuspendPaused, States
  <2>4. CASE CallPrepare(s)
        BY <2>4 DEF CallPrepare, Ops, Locations
  <2>5. CASE CallTrigger(s)
        BY <2>5 DEF CallTrigger, Ops, Locations
  <2> QED BY <1>1, <2>1, <2>2, <2>3, <2>4, <2>5 DEF Client
<1>2. ASSUME NEW p \in Procs, Callback(p) PROVE TypeInv'
  <2> USE <1>a DEF TypeOK, OpInv, hwVars, ctxVars, coreVars, irqVars
  <2>1. CASE Lock(p)
        BY <2>1 DEF Lock, Locations
  <2>2. CASE Read(p)
    <3>1. NewConf(op[p], Target(p)) \in SUBSET Flags
          BY NewConfType
    <3> QED BY <2>2, <3>1 DEF Read, Locations
  <2>3. CASE Write(p)
    <3>1. portConf' \in SUBSET Flags
          BY <2>3 DEF Write
    <3>2. sizeSet' \in BOOLEAN
          BY <2>3 DEF Write
    <3> QED BY <2>3, <3>1, <3>2 DEF Write, Locations
  <2>4. CASE Store(p)
    <3>1. op[p] = "PREPARE" => Target(p) \in Streams
          BY DEF Procs, Target
    <3>2. shadow' \in SUBSET Flags
          BY <2>4 DEF Store
    <3>3. dmaRunning' \in BOOLEAN
      <4>1. \/ dmaRunning' = FALSE
            \/ dmaRunning' = (op[p] \in {"START", "PAUSE_RELEASE"})
            BY <2>4 DEF Store
      <4>2. (op[p] \in {"START", "PAUSE_RELEASE"}) \in BOOLEAN
            OBVIOUS
      <4> QED BY ONLY <4>1, <4>2
    <3>4. rate' \in Streams \cup {None}
          BY <2>4, <3>1 DEF Store
    <3>5. /\ ctxLock' = None
          /\ pc[p] = "store" /\ pc' = [pc EXCEPT ![p] = "return"]
          /\ UNCHANGED <<hwVars, coreVars, op, val, irqVars, owed>>
          BY <2>4 DEF Store
    <3> QED BY <3>2, <3>3, <3>4, <3>5 DEF Locations
  <2>5. CASE Return(p)
    <3>1. op[p] \in Ops /\ NextState(op[p]) \in States
          BY <2>5 DEF Return, NextState, Ops, States
    <3> QED BY <2>5, <3>1 DEF Return, Locations, None
  <2> QED BY <1>2, <2>1, <2>2, <2>3, <2>4, <2>5 DEF Callback
<1>3. CASE PeriodElapses
      BY <1>3 DEF PeriodElapses, TypeOK, OpInv, ctxVars, coreVars, irqVars
<1>4. CASE IrqHandler
  <2> USE <1>a DEF TypeOK, OpInv, hwVars, ctxVars, coreVars, irqVars
  <2>1. CASE IrqEnter
        BY <2>1 DEF IrqEnter, IrqLocations
  <2>2. CASE IrqRead
        BY <2>2 DEF IrqRead, IrqLocations
  <2>3. CASE IrqAck
        BY <2>3 DEF IrqAck, IrqLocations
  <2>4. CASE IrqCheck
        BY <2>4 DEF IrqCheck, Leave, IrqLocations
  <2>5. CASE IrqCall
        BY <2>5 DEF IrqCall, Leave, IrqLocations
  <2>6. CASE IrqElapsed
    <3>1. CASE UNCHANGED <<pc, op>>
          BY <2>6, <3>1 DEF IrqElapsed, Leave, IrqLocations
    <3>2. CASE ~ UNCHANGED <<pc, op>>
          BY <2>6, <3>2 DEF IrqElapsed, IrqLocations, Locations, Ops
    <3> QED BY <3>1, <3>2
  <2>7. CASE IrqStopped
        BY <2>7 DEF IrqStopped, Leave, IrqLocations
  <2> QED BY <1>4, <2>1, <2>2, <2>3, <2>4, <2>5, <2>6, <2>7 DEF IrqHandler
<1>5. CASE UNCHANGED vars
      BY <1>5 DEF vars, hwVars, ctxVars, coreVars, irqVars, TypeOK, OpInv
<1> QED BY <1>1, <1>2, <1>3, <1>4, <1>5 DEF Next

(* Every variable keeps its type. *)
THEOREM TypeCorrect == Spec => []TypeOK
<1>1. Spec => []TypeInv
      BY TypeInit, TypeStep, PTL DEF Spec
<1>2. TypeInv => TypeOK
      BY DEF TypeInv
<1> QED BY <1>1, <1>2, PTL

-------------------------------------------------------------------------------
(* dma_running, the shadow and the register.                                *)

(* ctx.lock is held exactly between Lock and Store; what a trigger is about *)
(* to write, or has written, is what it will store; and it has DMA_EN if it *)
(* will set dma_running.  Nobody but the holder can disturb that.           *)
Starts(p) == op[p] \in {"START", "PAUSE_RELEASE"}

CtxInv ==
  /\ \A p \in Procs : pc[p] \in {"read", "write", "store"} <=> ctxLock = p
  /\ \A p \in Procs : pc[p] = "write" /\ Starts(p) => "DMA_EN" \in val[p]
  /\ \A p \in Procs : pc[p] = "store" /\ op[p] # "PREPARE" =>
       /\ portConf = val[p]
       /\ Starts(p) => "DMA_EN" \in val[p]
  /\ CtxAgreesWithCard

LEMMA CtxInit == Init => CtxInv
<1> SUFFICES ASSUME Init PROVE CtxInv
    OBVIOUS
<1>1. ctxLock = None /\ None \notin Procs
      BY StreamsAssumption DEF Init, Procs, Irq, None
<1>2. \A p \in Procs : pc[p] = "idle"
      BY DEF Init
<1>3. CtxAgreesWithCard
      BY DEF Init, CtxAgreesWithCard
<1> QED BY <1>1, <1>2, <1>3 DEF CtxInv

LEMMA CtxStep == TypeInv /\ CtxInv /\ [Next]_vars => CtxInv'
<1> SUFFICES ASSUME TypeInv, CtxInv, [Next]_vars PROVE CtxInv'
    OBVIOUS
<1> USE StreamsAssumption
<1>a. /\ Irq \in Procs /\ Irq \notin Streams /\ Streams \subseteq Procs
      /\ None \notin Procs
      BY DEF Irq, Procs, None
<1>b. /\ pc \in [Procs -> Locations] /\ op \in [Procs -> Ops \cup {None}]
      /\ val \in [Procs -> SUBSET Flags]
      /\ \A p \in Procs : pc[p] # "idle" => op[p] \in Ops
      /\ irqPc # "stop" => pc[Irq] = "idle"
      BY DEF TypeInv, TypeOK, OpInv
<1>1. ASSUME NEW s \in Streams, Client(s) PROVE CtxInv'
  <2> USE <1>a, <1>b
      DEF CtxInv, CtxAgreesWithCard, Starts, hwVars, ctxVars, coreVars, irqVars
  <2>1. CASE Open(s)
        BY <2>1 DEF Open
  <2>2. CASE Close(s)
        BY <2>2 DEF Close
  <2>3. CASE SuspendPaused(s)
        BY <2>3 DEF SuspendPaused
  <2>4. CASE CallPrepare(s)
        BY <2>4 DEF CallPrepare
  <2>5. CASE CallTrigger(s)
        BY <2>5 DEF CallTrigger
  <2> QED BY <1>1, <2>1, <2>2, <2>3, <2>4, <2>5 DEF Client
<1>2. ASSUME NEW p \in Procs, Callback(p) PROVE CtxInv'
  <2> USE <1>a, <1>b
      DEF CtxInv, CtxAgreesWithCard, Starts, hwVars, ctxVars, coreVars, irqVars
  <2>1. CASE Lock(p)
        BY <2>1 DEF Lock
  <2>2. CASE Read(p)
    <3>1. Starts(p) => "DMA_EN" \in NewConf(op[p], Target(p))
          BY DEF NewConf, StartedConf, ReleasedConf
    <3> QED BY <2>2, <3>1 DEF Read
  <2>3. CASE Write(p)
        BY <2>3 DEF Write
  <2>4. CASE Store(p)
    <3>1. CASE op[p] = "PREPARE"
          BY <2>4, <3>1 DEF Store
    <3>2. CASE op[p] # "PREPARE"
          BY <2>4, <3>2 DEF Store
    <3> QED BY <3>1, <3>2
  <2>5. CASE Return(p)
        BY <2>5 DEF Return
  <2> QED BY <1>2, <2>1, <2>2, <2>3, <2>4, <2>5 DEF Callback
<1>3. CASE PeriodElapses
      BY <1>3 DEF PeriodElapses, CtxInv, CtxAgreesWithCard, Starts, ctxVars
<1>4. CASE IrqHandler
  <2> USE <1>a, <1>b
      DEF CtxInv, CtxAgreesWithCard, Starts, hwVars, ctxVars, coreVars, irqVars
  <2>1. CASE IrqEnter
        BY <2>1 DEF IrqEnter
  <2>2. CASE IrqRead
        BY <2>2 DEF IrqRead
  <2>3. CASE IrqAck
        BY <2>3 DEF IrqAck
  <2>4. CASE IrqCheck
        BY <2>4 DEF IrqCheck
  <2>5. CASE IrqCall
        BY <2>5 DEF IrqCall
  <2>6. CASE IrqElapsed
        BY <2>6 DEF IrqElapsed
  <2>7. CASE IrqStopped
        BY <2>7 DEF IrqStopped
  <2> QED BY <1>4, <2>1, <2>2, <2>3, <2>4, <2>5, <2>6, <2>7 DEF IrqHandler
<1>5. CASE UNCHANGED vars
      BY <1>5 DEF vars, hwVars, ctxVars, CtxInv, CtxAgreesWithCard, Starts
<1> QED BY <1>1, <1>2, <1>3, <1>4, <1>5 DEF Next

(* With any number of substreams and whatever the register held at boot,    *)
(* dma_running outside a callback means that DMA is enabled and that the    *)
(* shadow is the register.  (trigger and the prepares under ctx.lock)       *)
THEOREM CtxAgreement == Spec => []CtxAgreesWithCard
<1>1. Spec => [](TypeInv /\ CtxInv)
      BY TypeInit, TypeStep, CtxInit, CtxStep, PTL DEF Spec
<1>2. CtxInv => CtxAgreesWithCard
      BY DEF CtxInv
<1> QED BY <1>1, <1>2, PTL

-------------------------------------------------------------------------------
(* No period is lost.                                                       *)

(* Who is owed a period is running, so its pointer is set and the handler   *)
(* will not pass it by; while the handler holds a substream's stream lock   *)
(* nobody else changes the state it found the substream in.                 *)
OwedInv ==
  /\ \A s \in owed : state[s] = "RUNNING"
  /\ \A s \in Streams : state[s] # "CLOSED" => s \in substream
  /\ \A s \in Streams : pc[s] # "idle" => state[s] # "CLOSED"
  /\ irqPc \in {"call", "elapsed", "stop"} => irqAt \in Streams
  /\ irqPc = "elapsed" => streamLock[irqAt] = Irq
  /\ pc[Irq] # "idle" => streamLock[irqAt] = Irq /\ state[irqAt] = "RUNNING"
  /\ NoPeriodLost

LEMMA OwedInit == Init => OwedInv
BY StreamsAssumption DEF Init, OwedInv, NoPeriodLost, Procs, Irq

LEMMA OwedStep == TypeInv /\ OwedInv /\ [Next]_vars => OwedInv'
<1> SUFFICES ASSUME TypeInv, OwedInv, [Next]_vars PROVE OwedInv'
    OBVIOUS
<1> USE StreamsAssumption
<1>a. /\ Irq \in Procs /\ Irq \notin Streams /\ Procs = Streams \cup {Irq}
      /\ Irq # None
      BY DEF Irq, Procs, None
<1>b. /\ pc \in [Procs -> Locations] /\ op \in [Procs -> Ops \cup {None}]
      /\ state \in [Streams -> States]
      /\ streamLock \in [Streams -> Procs \cup {None}]
      /\ owed \subseteq Streams /\ substream \subseteq Streams
      /\ irqAt \in {"playback", "capture"}
      /\ \A p \in Procs : pc[p] # "idle" => op[p] \in Ops
      /\ op[Irq] # "PREPARE"
      /\ irqPc # "stop" => pc[Irq] = "idle"
      BY DEF TypeInv, TypeOK, OpInv
<1>1. ASSUME NEW s \in Streams, Client(s) PROVE OwedInv'
  <2> USE <1>a, <1>b
      DEF OwedInv, NoPeriodLost, WillVisit, hwVars, ctxVars, coreVars, irqVars
  <2>1. CASE Open(s)
        BY <2>1 DEF Open
  <2>2. CASE Close(s)
        BY <2>2 DEF Close
  <2>3. CASE SuspendPaused(s)
        BY <2>3 DEF SuspendPaused
  <2>4. CASE CallPrepare(s)
        BY <2>4 DEF CallPrepare, LegalIn
  <2>5. CASE CallTrigger(s)
        BY <2>5 DEF CallTrigger, LegalIn
  <2> QED BY <1>1, <2>1, <2>2, <2>3, <2>4, <2>5 DEF Client
<1>2. ASSUME NEW p \in Procs, Callback(p) PROVE OwedInv'
  <2> USE <1>a, <1>b
      DEF OwedInv, NoPeriodLost, WillVisit, hwVars, ctxVars, coreVars, irqVars
  <2>1. CASE Lock(p)
        BY <2>1 DEF Lock
  <2>2. CASE Read(p)
        BY <2>2 DEF Read
  <2>3. CASE Write(p)
        BY <2>3 DEF Write
  <2>4. CASE Store(p)
        BY <2>4 DEF Store
  <2>5. CASE Return(p)
    <3>1. NextState(op[p]) # "CLOSED"
          BY <2>5 DEF Return, NextState, Ops
    <3>2. CASE p = Irq
          BY <2>5, <3>1, <3>2 DEF Return, Target
    <3>3. CASE p # Irq
          BY <2>5, <3>1, <3>3 DEF Return, Target
    <3> QED BY <3>2, <3>3
  <2> QED BY <1>2, <2>1, <2>2, <2>3, <2>4, <2>5 DEF Callback
<1>3. CASE PeriodElapses
      BY <1>3, <1>b DEF PeriodElapses, OwedInv, NoPeriodLost, ctxVars, coreVars,
                  irqVars
<1>4. CASE IrqHandler
  <2> USE <1>a, <1>b
      DEF OwedInv, NoPeriodLost, WillVisit, hwVars, ctxVars, coreVars, irqVars
  <2>1. CASE IrqEnter
        BY <2>1 DEF IrqEnter
  <2>2. CASE IrqRead
        BY <2>2 DEF IrqRead
  <2>3. CASE IrqAck
        BY <2>3 DEF IrqAck
  <2>4. CASE IrqCheck
        BY <2>4 DEF IrqCheck, Leave
  <2>5. CASE IrqCall
        BY <2>5 DEF IrqCall, Leave
  <2>6. CASE IrqElapsed
        BY <2>6 DEF IrqElapsed, Leave
  <2>7. CASE IrqStopped
        BY <2>7 DEF IrqStopped, Leave
  <2> QED BY <1>4, <2>1, <2>2, <2>3, <2>4, <2>5, <2>6, <2>7 DEF IrqHandler
<1>5. CASE UNCHANGED vars
      BY <1>5 DEF vars, hwVars, coreVars, irqVars, OwedInv, NoPeriodLost,
                  WillVisit
<1> QED BY <1>1, <1>2, <1>3, <1>4, <1>5 DEF Next

(* Whatever the clients do, a running substream that has not been told of a *)
(* period has the status bit set or the handler on its way to it.           *)
(* (motu424_irq_handler: the acknowledgement comes before the calls)        *)
THEOREM NoLostPeriods == Spec => []NoPeriodLost
<1>1. Spec => [](TypeInv /\ OwedInv)
      BY TypeInit, TypeStep, OwedInit, OwedStep, PTL DEF Spec
<1>2. OwedInv => NoPeriodLost
      BY DEF OwedInv
<1> QED BY <1>1, <1>2, PTL

-------------------------------------------------------------------------------
(* Calls.  A call is made in a state the core makes it in, and the state    *)
(* stays so until the call returns: a trigger has the stream lock from call *)
(* to return, the trigger of the handler is a stop of a running substream.  *)
CallInv ==
  /\ \A s \in Streams : pc[s] # "idle" =>
       /\ state[s] \in LegalIn(op[s])
       /\ op[s] # "PREPARE" => streamLock[s] = s
  /\ pc[Irq] # "idle" => op[Irq] \in {"STOP", "XRUN"}

LEMMA CallInit == Init => CallInv
BY DEF Init, CallInv, Procs

LEMMA CallStep == TypeInv /\ OwedInv /\ CallInv /\ [Next]_vars => CallInv'
<1> SUFFICES ASSUME TypeInv, OwedInv, CallInv, [Next]_vars PROVE CallInv'
    OBVIOUS
<1> USE StreamsAssumption
<1>a. /\ Irq \in Procs /\ Irq \notin Streams /\ Procs = Streams \cup {Irq}
      /\ None \notin Procs
      BY DEF Irq, Procs, None
<1>b. /\ pc \in [Procs -> Locations] /\ op \in [Procs -> Ops \cup {None}]
      /\ state \in [Streams -> States]
      /\ streamLock \in [Streams -> Procs \cup {None}]
      /\ \A p \in Procs : pc[p] # "idle" => op[p] \in Ops
      /\ op[Irq] # "PREPARE"
      /\ irqPc # "stop" => pc[Irq] = "idle"
      /\ irqPc \in {"call", "elapsed", "stop"} => irqAt \in Streams
      /\ irqPc = "elapsed" => streamLock[irqAt] = Irq
      /\ pc[Irq] # "idle" => streamLock[irqAt] = Irq /\ state[irqAt] = "RUNNING"
      BY DEF TypeInv, TypeOK, OpInv, OwedInv
<1>1. ASSUME NEW s \in Streams, Client(s) PROVE CallInv'
  <2> USE <1>a, <1>b DEF CallInv, hwVars, ctxVars, coreVars, irqVars
  <2>1. CASE Open(s)
        BY <2>1 DEF Open
  <2>2. CASE Close(s)
        BY <2>2 DEF Close
  <2>3. CASE SuspendPaused(s)
        BY <2>3 DEF SuspendPaused
  <2>4. CASE CallPrepare(s)
        BY <2>4 DEF CallPrepare
  <2>5. CASE CallTrigger(s)
        BY <2>5 DEF CallTrigger
  <2> QED BY <1>1, <2>1, <2>2, <2>3, <2>4, <2>5 DEF Client
<1>2. ASSUME NEW p \in Procs, Callback(p) PROVE CallInv'
  <2> USE <1>a, <1>b DEF CallInv, hwVars, ctxVars, coreVars, irqVars
  <2>1. CASE Lock(p)
        BY <2>1 DEF Lock
  <2>2. CASE Read(p)
        BY <2>2 DEF Read
  <2>3. CASE Write(p)
        BY <2>3 DEF Write
  <2>4. CASE Store(p)
        BY <2>4 DEF Store
  <2>5. CASE Return(p)
    <3>1. CASE p = Irq
      <4>1. pc[irqAt] = "idle"
            BY <2>5, <3>1 DEF Return, LegalIn
      <4> QED BY <2>5, <3>1, <4>1 DEF Return, Target
    <3>2. CASE p # Irq
      <4>1. /\ pc'[p] = "idle"
            /\ \A s \in Streams \ {p} :
                 /\ pc'[s] = pc[s] /\ op'[s] = op[s] /\ state'[s] = state[s]
                 /\ streamLock'[s] = streamLock[s]
            /\ pc'[Irq] = pc[Irq] /\ op'[Irq] = op[Irq]
            BY <2>5, <3>2 DEF Return, Target
      <4> QED BY <3>2, <4>1
    <3> QED BY <3>1, <3>2
  <2> QED BY <1>2, <2>1, <2>2, <2>3, <2>4, <2>5 DEF Callback
<1>3. CASE PeriodElapses
      BY <1>3 DEF PeriodElapses, CallInv, ctxVars, coreVars
<1>4. CASE IrqHandler
  <2> USE <1>a, <1>b DEF CallInv, hwVars, ctxVars, coreVars, irqVars
  <2>1. CASE IrqEnter
        BY <2>1 DEF IrqEnter
  <2>2. CASE IrqRead
        BY <2>2 DEF IrqRead
  <2>3. CASE IrqAck
        BY <2>3 DEF IrqAck
  <2>4. CASE IrqCheck
        BY <2>4 DEF IrqCheck
  <2>5. CASE IrqCall
        BY <2>5 DEF IrqCall
  <2>6. CASE IrqElapsed
        BY <2>6 DEF IrqElapsed
  <2>7. CASE IrqStopped
        BY <2>7 DEF IrqStopped
  <2> QED BY <1>4, <2>1, <2>2, <2>3, <2>4, <2>5, <2>6, <2>7 DEF IrqHandler
<1>5. CASE UNCHANGED vars
      BY <1>5 DEF vars, hwVars, coreVars, irqVars, CallInv
<1> QED BY <1>1, <1>2, <1>3, <1>4, <1>5 DEF Next

(* What holds for any substreams in use and any contents at boot. *)
PcmInv == TypeInv /\ CtxInv /\ OwedInv /\ CallInv

LEMMA PcmInvInit == Init => PcmInv
BY TypeInit, CtxInit, OwedInit, CallInit DEF PcmInv

LEMMA PcmInvStep == PcmInv /\ [Next]_vars => PcmInv'
BY TypeStep, CtxStep, OwedStep, CallStep DEF PcmInv

-------------------------------------------------------------------------------
(* Silence.  An engine that is on has a substream that drives it: it was    *)
(* started or released, and no stop of it has been written since.           *)
Drives(p) == pc[p] \in {"store", "return"} /\ Starts(p)
Halts(p)  == pc[p] \in {"store", "return"} /\ ~Starts(p)

SilenceInv ==
  /\ \A p \in Procs : pc[p] = "write" /\ op[p] # "PREPARE" /\ ~Starts(p) =>
       "DMA_EN" \notin val[p]
  /\ EngineOn(portConf) =>
       \/ \E p \in Procs : Drives(p)
       \/ \E s \in Streams :
            /\ state[s] = "RUNNING"
            /\ \A p \in Procs : Target(p) = s => ~Halts(p)

LEMMA SilenceInit ==
  ASSUME \A conf \in BootPortConf : ~EngineOn(conf)
  PROVE  Init => SilenceInv
BY DEF Init, SilenceInv

LEMMA SilenceStep == PcmInv /\ SilenceInv /\ [Next]_vars => SilenceInv'
<1> SUFFICES ASSUME PcmInv, SilenceInv, [Next]_vars PROVE SilenceInv'
    OBVIOUS
<1> USE StreamsAssumption
<1>a. /\ Irq \in Procs /\ Irq \notin Streams /\ Procs = Streams \cup {Irq}
      /\ Irq # None
      BY DEF Irq, Procs, None
<1>b. /\ pc \in [Procs -> Locations] /\ op \in [Procs -> Ops \cup {None}]
      /\ val \in [Procs -> SUBSET Flags]
      /\ state \in [Streams -> States]
      /\ \A p \in Procs : pc[p] # "idle" => op[p] \in Ops
      /\ op[Irq] # "PREPARE"
      /\ irqPc # "stop" => pc[Irq] = "idle"
      /\ irqPc \in {"call", "elapsed", "stop"} => irqAt \in Streams
      /\ irqPc = "elapsed" => streamLock[irqAt] = Irq
      /\ pc[Irq] # "idle" => streamLock[irqAt] = Irq /\ state[irqAt] = "RUNNING"
      BY DEF PcmInv, TypeInv, TypeOK, OpInv, OwedInv
<1>c. /\ \A s \in Streams : pc[s] # "idle" =>
           /\ state[s] \in LegalIn(op[s])
           /\ op[s] # "PREPARE" => streamLock[s] = s
      /\ pc[Irq] # "idle" => op[Irq] \in {"STOP", "XRUN"}
      BY DEF PcmInv, CallInv
<1>1. ASSUME NEW s \in Streams, Client(s) PROVE SilenceInv'
  <2> USE <1>a, <1>b
      DEF SilenceInv, Drives, Halts, Starts, Target, hwVars, ctxVars, coreVars, irqVars
  <2>1. CASE Open(s)
        BY <2>1 DEF Open
  <2>2. CASE Close(s)
        BY <2>2 DEF Close
  <2>3. CASE SuspendPaused(s)
        BY <2>3 DEF SuspendPaused
  <2>4. CASE CallPrepare(s)
        BY <2>4 DEF CallPrepare
  <2>5. CASE CallTrigger(s)
        BY <2>5 DEF CallTrigger
  <2> QED BY <1>1, <2>1, <2>2, <2>3, <2>4, <2>5 DEF Client
<1>2. ASSUME NEW p \in Procs, Callback(p) PROVE SilenceInv'
  <2> USE <1>a, <1>b DEF hwVars, ctxVars, coreVars, irqVars
  <2>1. CASE Lock(p)
    <3>1. op[p] = "PREPARE" =>
            p \in Streams /\ Target(p) = p /\ state[p] # "RUNNING"
          BY <2>1, <1>c DEF Lock, Target, LegalIn
    <3> QED BY <2>1, <3>1 DEF Lock, SilenceInv, Drives, Halts, Starts, Target
  <2>2. CASE Read(p)
    <3>1. op[p] # "PREPARE" /\ ~Starts(p) => "DMA_EN" \notin NewConf(op[p], Target(p))
          BY <2>2 DEF Read, Starts, Ops, NewConf, PausedConf, StoppedConf
    <3> QED BY <2>2, <3>1 DEF Read, SilenceInv, Drives, Halts, Starts, Target
  <2>3. CASE Write(p)
    <3>1. /\ pc[p] = "write" /\ pc' = [pc EXCEPT ![p] = "store"]
          /\ UNCHANGED <<op, val, state, irqAt>>
          BY <2>3 DEF Write
    <3>2. CASE Starts(p)
      <4>1. Drives(p)'
            BY <3>1, <3>2 DEF Drives, Starts
      <4> QED BY <3>1, <4>1 DEF SilenceInv, Starts
    <3>3. CASE ~Starts(p)
      <4>1. "DMA_EN" \notin portConf'
            BY <2>3, <3>3 DEF Write, SilenceInv
      <4> QED BY <3>1, <4>1 DEF SilenceInv, Starts, EngineOn
    <3> QED BY <3>2, <3>3
  <2>4. CASE Store(p)
        BY <2>4 DEF Store, SilenceInv, Drives, Halts, Starts, Target
  <2>5. CASE Return(p)
    <3>1. /\ pc[p] = "return" /\ pc' = [pc EXCEPT ![p] = "idle"]
          /\ op' = [op EXCEPT ![p] = None]
          /\ val' = [val EXCEPT ![p] = {}]
          /\ state' = [state EXCEPT ![Target(p)] = NextState(op[p])]
          /\ UNCHANGED <<portConf, irqAt>>
          /\ Target(p) \in Streams
          BY <2>5 DEF Return, Target
    <3>2. \A q \in Procs \ {p} : Drives(q)' = Drives(q) /\ Halts(q)' = Halts(q)
          BY <3>1 DEF Drives, Halts, Starts
    <3>3. ~Drives(p)' /\ ~Halts(p)' /\ \A q \in Procs : Target(q)' = Target(q)
          BY <3>1 DEF Drives, Halts, Target
    <3>4. \A q \in Procs : pc[q] # "idle" /\ Target(q) = Target(p) => q = p
          BY <2>5, <1>c DEF Return, Target, LegalIn
    <3>5. CASE Starts(p)
      <4>1. /\ state'[Target(p)] = "RUNNING"
            /\ \A q \in Procs : Target(q)' = Target(p) => ~Halts(q)'
            BY <3>1, <3>2, <3>3, <3>4, <3>5 DEF Starts, NextState, Halts
      <4> QED BY <3>1, <4>1 DEF SilenceInv, Starts
    <3>6. CASE ~Starts(p)
      <4>1. ASSUME NEW s \in Streams, state[s] = "RUNNING",
                   \A q \in Procs : Target(q) = s => ~Halts(q)
            PROVE  state'[s] = "RUNNING"
                   /\ \A q \in Procs : Target(q)' = s => ~Halts(q)'
            BY <3>1, <3>2, <3>3, <3>6, <4>1 DEF Halts
      <4>2. ~Drives(p)
            BY <3>6 DEF Drives
      <4> QED BY <3>1, <3>2, <4>1, <4>2 DEF SilenceInv, Starts
    <3> QED BY <3>5, <3>6
  <2> QED BY <1>2, <2>1, <2>2, <2>3, <2>4, <2>5 DEF Callback
<1>3. CASE PeriodElapses
      BY <1>3 DEF PeriodElapses, SilenceInv, Drives, Halts, Starts, Target, ctxVars,
                  coreVars, irqVars
<1>4. CASE IrqHandler
  <2> USE <1>a, <1>b
      DEF SilenceInv, Drives, Halts, Starts, Target, hwVars, ctxVars, coreVars, irqVars
  <2>1. CASE IrqEnter
        BY <2>1 DEF IrqEnter
  <2>2. CASE IrqRead
        BY <2>2 DEF IrqRead
  <2>3. CASE IrqAck
        BY <2>3 DEF IrqAck
  <2>4. CASE IrqCheck
        BY <2>4 DEF IrqCheck
  <2>5. CASE IrqCall
        BY <2>5 DEF IrqCall
  <2>6. CASE IrqElapsed
        BY <2>6 DEF IrqElapsed
  <2>7. CASE IrqStopped
        BY <2>7 DEF IrqStopped
  <2> QED BY <1>4, <2>1, <2>2, <2>3, <2>4, <2>5, <2>6, <2>7 DEF IrqHandler
<1>5. CASE UNCHANGED vars
      BY <1>5 DEF vars, hwVars, coreVars, irqVars, SilenceInv, Drives, Halts, Starts,
                  Target
<1> QED BY <1>1, <1>2, <1>3, <1>4, <1>5 DEF Next

LEMMA SilenceMeans == PcmInv /\ SilenceInv => IdleIsSilent
<1> SUFFICES ASSUME PcmInv, SilenceInv, EngineOn(portConf),
                    \A s \in Streams : Quiet(s) /\ state[s] # "RUNNING"
             PROVE  FALSE
    BY DEF IdleIsSilent
<1>1. PICK p \in Procs : Drives(p)
      BY DEF SilenceInv
<1>2. Target(p) \in Streams
      BY <1>1 DEF Drives, Target, Procs, PcmInv, TypeInv, OpInv, OwedInv
<1> QED BY <1>1, <1>2 DEF Drives, Quiet

(* However many substreams are in use, and whoever stops them, no frame     *)
(* moves while none runs and none is being triggered: each start is undone  *)
(* by the write of the stop that ends it, or by one that came in between.   *)
(* (trigger and the prepares, for a card that was not left running)         *)
THEOREM Silence ==
  ASSUME \A conf \in BootPortConf : ~EngineOn(conf)
  PROVE  Spec => []IdleIsSilent
<1>1. Init => PcmInv /\ SilenceInv
      BY PcmInvInit, SilenceInit
<1>2. PcmInv /\ SilenceInv /\ [Next]_vars => (PcmInv /\ SilenceInv)'
      BY PcmInvStep, SilenceStep
<1> QED BY <1>1, <1>2, SilenceMeans, PTL DEF Spec

-------------------------------------------------------------------------------
(* A card that one substream uses.                                          *)

(* The register and dma_running suit state st of substream s. *)
Fits(st, conf, running, s) ==
  /\ st \in {"RUNNING", "PAUSED"} =>
       /\ "RUN" \in conf
       /\ "DMA_RD" \in conf <=> s = "playback"
       /\ "DMA_EN" \in conf <=> st = "RUNNING"
       /\ running <=> st = "RUNNING"
  /\ st # "RUNNING" => ~EngineOn(conf)

(* From a register that suits the state a trigger is legal in, with a fresh *)
(* shadow where one is used, trigger computes one that suits the next state.*)
LEMMA TriggerFits ==
  ASSUME NEW s \in Streams, NEW o \in Ops \ {"PREPARE"},
         NEW st \in LegalIn(o), NEW running,
         Fits(st, portConf, running, s),
         st \in {"RUNNING", "PAUSED"} => shadow = portConf
  PROVE  Fits(NextState(o), NewConf(o, s),
              o \in {"START", "PAUSE_RELEASE"}, s)
<1> USE DEF Fits, LegalIn, NextState, NewConf, EngineOn
<1>1. CASE o = "START"
      BY <1>1, StreamsAssumption DEF StartedConf
<1>2. CASE o = "PAUSE_PUSH"
      BY <1>2 DEF PausedConf
<1>3. CASE o = "PAUSE_RELEASE"
      BY <1>3 DEF ReleasedConf
<1>4. CASE o \in {"STOP", "XRUN", "SUSPEND"}
      BY <1>4 DEF StoppedConf
<1> QED BY <1>1, <1>2, <1>3, <1>4 DEF Ops

(* The register suits the state until the call in progress writes it, and   *)
(* what the call writes suits the state it leads to.                        *)
SoloInv ==
  \A s \in Streams :
    /\ (\A p \in Procs : pc[p] \notin {"store", "return"}) =>
         /\ Fits(state[s], portConf, dmaRunning, s)
         /\ state[s] \in {"RUNNING", "PAUSED"} => shadow = portConf
    /\ \A p \in Procs : pc[p] = "write" /\ op[p] # "PREPARE" =>
         val[p] = NewConf(op[p], s)
    /\ \A p \in Procs : pc[p] = "store" =>
         IF op[p] = "PREPARE"
           THEN ~EngineOn(portConf)
           ELSE portConf = val[p] /\ Fits(NextState(op[p]), val[p], Starts(p), s)
    /\ \A p \in Procs : pc[p] = "return" =>
         /\ Fits(NextState(op[p]), portConf, dmaRunning, s)
         /\ NextState(op[p]) \in {"RUNNING", "PAUSED"} => shadow = portConf

LEMMA SoloInit ==
  ASSUME \A conf \in BootPortConf : ~EngineOn(conf)
  PROVE  Init => SoloInv
BY StreamsAssumption DEF Init, SoloInv, Fits, Procs

LEMMA SoloStep ==
  ASSUME NEW only, Streams = {only},
         TypeInv, OwedInv, CallInv, CtxInv, SoloInv, [Next]_vars
  PROVE  SoloInv'
<1> USE StreamsAssumption
<1>a. /\ Irq \in Procs /\ Irq # only /\ Procs = {only, Irq}
      /\ Irq # None /\ only # None
      BY DEF Irq, Procs, None
<1>b. /\ pc \in [Procs -> Locations] /\ op \in [Procs -> Ops \cup {None}]
      /\ val \in [Procs -> SUBSET Flags]
      /\ state \in [Streams -> States]
      /\ streamLock \in [Streams -> Procs \cup {None}]
      /\ \A p \in Procs : pc[p] # "idle" => op[p] \in Ops
      /\ op[Irq] # "PREPARE"
      /\ irqPc # "stop" => pc[Irq] = "idle"
      /\ irqPc \in {"call", "elapsed", "stop"} => irqAt = only
      /\ irqPc = "elapsed" => streamLock[only] = Irq
      /\ pc[Irq] # "idle" => streamLock[only] = Irq /\ state[only] = "RUNNING"
      BY DEF TypeInv, TypeOK, OpInv, OwedInv
<1>c. \A p \in Procs : pc[p] # "idle" => Target(p) = only
      BY <1>a, <1>b DEF Target
<1>d. \A p \in Procs : pc[p] # "idle" =>
        /\ state[only] \in LegalIn(op[p])
        /\ \A q \in Procs \ {p} : pc[q] = "idle"
      <2>1. pc[Irq] # "idle" =>
              state[only] \in LegalIn(op[Irq]) /\ pc[only] = "idle"
            BY <1>a, <1>b DEF CallInv, LegalIn
      <2> QED BY <1>a, <2>1 DEF CallInv
<1>1. ASSUME NEW s \in Streams, Client(s) PROVE SoloInv'
  <2> USE <1>a, <1>b
      DEF SoloInv, Fits, NewConf, Starts, hwVars, ctxVars, coreVars, irqVars
  <2>1. CASE Open(s)
        BY <2>1 DEF Open
  <2>2. CASE Close(s)
        BY <2>2 DEF Close
  <2>3. CASE SuspendPaused(s)
        BY <2>3 DEF SuspendPaused
  <2>4. CASE CallPrepare(s)
        BY <2>4 DEF CallPrepare
  <2>5. CASE CallTrigger(s)
        BY <2>5 DEF CallTrigger
  <2> QED BY <1>1, <2>1, <2>2, <2>3, <2>4, <2>5 DEF Client
<1>2. ASSUME NEW p \in Procs, Callback(p) PROVE SoloInv'
  <2> USE <1>a, <1>b, <1>c, <1>d DEF hwVars, ctxVars, coreVars, irqVars
  <2>1. CASE Lock(p)
        BY <2>1 DEF Lock, SoloInv, Fits, NewConf, Starts, LegalIn
  <2>2. CASE Read(p)
        BY <2>2 DEF Read, SoloInv, Fits, NewConf, Starts
  <2>3. CASE Write(p)
    <3>1. pc[p] = "write" /\ pc' = [pc EXCEPT ![p] = "store"]
          BY <2>3 DEF Write
    <3>2. /\ UNCHANGED <<state, streamLock, op, val, irqPc, irqAt>>
          /\ \A q \in Procs \ {p} : pc'[q] = "idle"
          BY <2>3, <3>1 DEF Write
    <3>3. CASE op[p] = "PREPARE"
      <4>1. portConf' = {}
            BY <2>3, <3>3 DEF Write
      <4>2. ~EngineOn(portConf)'
            BY <4>1 DEF EngineOn
      <4> QED BY <3>1, <3>2, <3>3, <4>2 DEF SoloInv
    <3>4. CASE op[p] # "PREPARE"
      <4>1. portConf' = val[p] /\ val[p] = NewConf(op[p], only)
            BY <2>3, <3>1, <3>4 DEF Write, SoloInv
      <4>2. Fits(NextState(op[p]), NewConf(op[p], only), Starts(p), only)
        <5>1. /\ Fits(state[only], portConf, dmaRunning, only)
              /\ state[only] \in {"RUNNING", "PAUSED"} => shadow = portConf
              BY <3>1 DEF SoloInv
        <5>2. op[p] \in Ops \ {"PREPARE"} /\ state[only] \in LegalIn(op[p])
              BY <3>1, <3>4
        <5> QED BY <5>1, <5>2, TriggerFits DEF Starts
      <4>3. Fits(NextState(op[p]), val[p], Starts(p), only)'
            BY <3>2, <4>1, <4>2 DEF Fits, Starts
      <4> QED BY <3>1, <3>2, <3>4, <4>1, <4>3 DEF SoloInv
    <3> QED BY <3>3, <3>4
  <2>4. CASE Store(p)
    <3>1. /\ pc[p] = "store" /\ pc' = [pc EXCEPT ![p] = "return"]
          /\ UNCHANGED <<portConf, state, streamLock, op, val, irqPc, irqAt>>
          BY <2>4 DEF Store
    <3>2. \A q \in Procs \ {p} : pc'[q] = "idle"
          BY <3>1
    <3>3. CASE op[p] = "PREPARE"
      <4>1. NextState(op[p]) = "PREPARED" /\ ~EngineOn(portConf)
            BY <3>1, <3>3 DEF SoloInv, NextState
      <4>2. Fits(NextState(op[p]), portConf, dmaRunning, only)'
            BY <3>1, <4>1 DEF Fits
      <4> QED BY <3>1, <3>2, <3>3, <4>1, <4>2 DEF SoloInv
    <3>4. CASE op[p] # "PREPARE"
      <4>1. /\ portConf = val[p]
            /\ Fits(NextState(op[p]), val[p], Starts(p), only)
            BY <3>1, <3>4 DEF SoloInv
      <4>2. shadow' = val[p] /\ dmaRunning' = Starts(p)
            BY <2>4, <3>4 DEF Store, Starts
      <4>3. /\ Fits(NextState(op[p]), portConf, dmaRunning, only)'
            /\ shadow' = portConf'
            BY <3>1, <4>1, <4>2 DEF Fits
      <4> QED BY <3>1, <3>2, <3>4, <4>3 DEF SoloInv
    <3> QED BY <3>3, <3>4
  <2>5. CASE Return(p)
        BY <2>5 DEF Return, SoloInv, Fits, NewConf, Starts
  <2> QED BY <1>2, <2>1, <2>2, <2>3, <2>4, <2>5 DEF Callback
<1>3. CASE PeriodElapses
      BY <1>3 DEF PeriodElapses, SoloInv, Fits, NewConf, Starts, ctxVars, coreVars
<1>4. CASE IrqHandler
  <2> USE <1>a, <1>b
      DEF SoloInv, Fits, NewConf, Starts, hwVars, ctxVars, coreVars, irqVars
  <2>1. CASE IrqEnter
        BY <2>1 DEF IrqEnter
  <2>2. CASE IrqRead
        BY <2>2 DEF IrqRead
  <2>3. CASE IrqAck
        BY <2>3 DEF IrqAck
  <2>4. CASE IrqCheck
        BY <2>4 DEF IrqCheck
  <2>5. CASE IrqCall
        BY <2>5 DEF IrqCall
  <2>6. CASE IrqElapsed
        BY <2>6 DEF IrqElapsed
  <2>7. CASE IrqStopped
        BY <2>7 DEF IrqStopped
  <2> QED BY <1>4, <2>1, <2>2, <2>3, <2>4, <2>5, <2>6, <2>7 DEF IrqHandler
<1>5. CASE UNCHANGED vars
      BY <1>5 DEF vars, hwVars, ctxVars, coreVars, SoloInv, Fits, NewConf, Starts
<1> QED BY <1>1, <1>2, <1>3, <1>4, <1>5 DEF Next

LEMMA SoloCorrect ==
  ASSUME NEW only, Streams = {only},
         \A conf \in BootPortConf : ~EngineOn(conf)
  PROVE  Spec => [](PcmInv /\ SoloInv)
<1>1. Init => PcmInv /\ SoloInv
      BY PcmInvInit, SoloInit
<1>2. PcmInv /\ SoloInv /\ [Next]_vars => (PcmInv /\ SoloInv)'
      BY PcmInvStep, SoloStep DEF PcmInv
<1> QED BY <1>1, <1>2, PTL DEF Spec

(* What the invariant says of the client's view. *)
LEMMA SoloMeans ==
  ASSUME NEW only, Streams = {only}, PcmInv, SoloInv
  PROVE  EngineFollowsClient /\ PauseWritesFresh
<1> USE DEF PcmInv
<1>1. EngineFollowsClient
  <2> SUFFICES ASSUME NEW s \in Streams,
                      Quiet(s), state[s] \in {"RUNNING", "PAUSED"}
               PROVE  Fits(state[s], portConf, dmaRunning, s)
      BY DEF EngineFollowsClient, Fits
  <2>1. \A p \in Procs : pc[p] = "idle"
        BY DEF Quiet, Target, Procs, Irq, TypeInv, OpInv, OwedInv
  <2> QED BY <2>1 DEF SoloInv
<1>2. PauseWritesFresh
  <2> SUFFICES ASSUME NEW p \in Procs, pc[p] = "write",
                      op[p] \in {"PAUSE_PUSH", "PAUSE_RELEASE"}
               PROVE  val[p] \ {"DMA_EN"} = portConf \ {"DMA_EN"}
      BY DEF PauseWritesFresh
  <2>1. p = only /\ Irq # only /\ Procs = {only, Irq} /\ only \in Streams
        BY StreamsAssumption DEF CallInv, Procs, Irq
  <2>2. pc[Irq] = "idle"
        BY <2>1 DEF CallInv, OwedInv, TypeInv, OpInv
  <2>3. state[only] \in {"RUNNING", "PAUSED"}
        BY <2>1 DEF CallInv, LegalIn
  <2>4. shadow = portConf
        BY <2>1, <2>2, <2>3 DEF SoloInv
  <2>5. val[p] = PausedConf(shadow) \/ val[p] = ReleasedConf(shadow)
        BY <2>1 DEF SoloInv, NewConf
  <2> QED BY <2>4, <2>5 DEF PausedConf, ReleasedConf
<1> QED BY <1>1, <1>2

(* On a card one substream uses, and that was not left running, the engine  *)
(* does what the client's state says whenever no call is in progress, the   *)
(* stops of the handler included.  (trigger, the prepares)                  *)
THEOREM SoloEngine ==
  ASSUME NEW only, Streams = {only},
         \A conf \in BootPortConf : ~EngineOn(conf)
  PROVE  Spec => []EngineFollowsClient
BY SoloMeans, SoloCorrect, PTL

(* On such a card a pause and its release change DMA_EN and nothing else:   *)
(* the shadow they start from is the register, for the trigger that set the *)
(* state they are legal in has stored it.  (trigger)                        *)
THEOREM SoloPause ==
  ASSUME NEW only, Streams = {only},
         \A conf \in BootPortConf : ~EngineOn(conf)
  PROVE  Spec => []PauseWritesFresh
BY SoloMeans, SoloCorrect, PTL

-------------------------------------------------------------------------------
(* The callbacks implement AudioEngine.                                     *)

(* At most one call is in progress, and it is what the engine sees. *)
LEMMA OneCall ==
  ASSUME NEW only, Streams = {only}
  PROVE  PcmInv =>
           /\ Busy = {} \/ \E p \in Procs : Busy = {p}
           /\ Busy # {} => Busy = {InCall} /\ InCall \in Procs
           /\ pc[Irq] # "idle" => state[only] = "RUNNING"
<1> SUFFICES ASSUME PcmInv
             PROVE  /\ Busy = {} \/ \E p \in Procs : Busy = {p}
                    /\ Busy # {} => Busy = {InCall} /\ InCall \in Procs
                    /\ pc[Irq] # "idle" => state[only] = "RUNNING"
    OBVIOUS
<1>1. /\ Irq \in Procs /\ Irq # only /\ Procs = {only, Irq} /\ only \in Streams
      BY StreamsAssumption DEF Procs, Irq
<1>2. pc[Irq] # "idle" =>
        irqAt = only /\ streamLock[only] = Irq /\ state[only] = "RUNNING"
      BY <1>1 DEF PcmInv, OwedInv, TypeInv, TypeOK, OpInv
<1>3. pc[Irq] # "idle" => pc[only] = "idle"
      BY <1>1, <1>2 DEF PcmInv, CallInv, LegalIn
<1>4. Busy = {} \/ \E p \in Procs : Busy = {p}
      BY <1>1, <1>3 DEF Busy
<1>5. ASSUME NEW p, Busy = {p} PROVE InCall = p
      BY <1>5 DEF InCall
<1> QED BY <1>2, <1>4, <1>5

(* What a call sees of the engine: nothing but its own write changes it.    *)
LEMMA EngineInit ==
  ASSUME NEW only, Streams = {only},
         \A conf \in BootPortConf : "RUN" \notin conf
  PROVE  Init => Engine!Init
<1> SUFFICES ASSUME Init PROVE Engine!Init
    OBVIOUS
<1>1. Busy = {}
      BY DEF Init, Busy
<1>2. "RUN" \notin portConf
      BY DEF Init
<1> QED BY <1>1, <1>2 DEF Engine!Init, Engine!Idle, engineBar, callBar, doneBar,
                           EngineOn

(* A step that changes neither the register nor who is in which call, and   *)
(* moves no call across its effect, is no step of the engine.               *)
LEMMA EngineStutter ==
  ASSUME UNCHANGED <<portConf, op>>,
         \A p \in Procs :
           /\ pc'[p] = "idle" <=> pc[p] = "idle"
           /\ pc'[p] \in {"store", "return"} <=> pc[p] \in {"store", "return"}
  PROVE  UNCHANGED Engine!vars
<1>1. Busy' = Busy
      BY DEF Busy
<1>2. InCall' = InCall
      BY <1>1 DEF InCall
<1>3. Busy # {} => InCall \in Procs
      BY DEF Busy, InCall
<1>4. engineBar' = engineBar
      BY DEF engineBar, EngineOn
<1>5. callBar' = callBar
      BY <1>1, <1>2 DEF callBar
<1>6. doneBar' = doneBar
      BY <1>1, <1>2, <1>3 DEF doneBar
<1> QED BY <1>4, <1>5, <1>6 DEF Engine!vars

(* The call in progress, before and after a step of process p. *)
LEMMA EngineCall ==
  ASSUME NEW p \in Procs
  PROVE  Busy = {p} => /\ callBar = AsOperation(op[p])
                       /\ (doneBar <=> pc[p] \in {"store", "return"})
<1> SUFFICES ASSUME Busy = {p}
             PROVE  /\ callBar = AsOperation(op[p])
                    /\ (doneBar <=> pc[p] \in {"store", "return"})
    OBVIOUS
<1>1. InCall = p /\ Busy # {}
      BY DEF InCall
<1> QED BY <1>1 DEF callBar, doneBar

(* A call begins where the engine allows it. *)
LEMMA EngineBegin ==
  ASSUME NEW only, Streams = {only}, PcmInv, SoloInv, Busy = {},
         NEW p \in Procs, NEW o \in Ops,
         state[only] \in LegalIn(o),
         pc' = [pc EXCEPT ![p] = "lock"], op' = [op EXCEPT ![p] = o],
         UNCHANGED portConf
  PROVE  Engine!Next
<1>1. /\ \A q \in Procs : pc[q] = "idle"
      /\ pc \in [Procs -> Locations] /\ op \in [Procs -> Ops \cup {None}]
      BY DEF Busy, PcmInv, TypeInv, TypeOK
<1>2. Busy' = {p}
      BY <1>1 DEF Busy
<1>3. callBar' = AsOperation(o) /\ doneBar' = FALSE
  <2>1. (Busy = {p} => /\ callBar = AsOperation(op[p])
                       /\ (doneBar <=> pc[p] \in {"store", "return"}))'
        BY EngineCall, PTL
  <2>2. op'[p] = o /\ pc'[p] = "lock"
        BY <1>1
  <2>3. callBar' = AsOperation(o) /\ ~doneBar'
        BY <1>2, <2>1, <2>2
  <2> QED BY <2>3 DEF doneBar
<1>4. callBar = "none" /\ engineBar' = engineBar
      BY DEF callBar, engineBar, EngineOn
<1>5. Only = only
      BY DEF Only
<1>6. Fits(state[only], portConf, dmaRunning, only)
      BY <1>1 DEF SoloInv
<1>7. Engine!Allowed(AsOperation(o))
  <2>1. only \in {"playback", "capture"}
        BY StreamsAssumption
  <2>2. state[only] = "RUNNING" => engineBar = only
        BY <1>6, <2>1 DEF Fits, engineBar, EngineOn
  <2>3. state[only] = "PAUSED" => engineBar = "held"
        BY <1>6, <2>1 DEF Fits, engineBar, EngineOn
  <2>4. state[only] # "RUNNING" => engineBar \in {"off", "held"}
        BY <1>6 DEF Fits, engineBar
  <2> QED BY <1>5, <2>2, <2>3, <2>4
          DEF Engine!Allowed, AsOperation, LegalIn, Ops
<1>8. AsOperation(o) \in Engine!Operations
      BY DEF AsOperation, Ops, Engine!Operations
<1> QED BY <1>3, <1>4, <1>7, <1>8 DEF Engine!Next, Engine!Call, Engine!Idle

(* The step of the call in progress that takes effect leaves the engine     *)
(* where its operation leads.                                               *)
LEMMA EngineEffect ==
  ASSUME NEW only, Streams = {only}, PcmInv, NEW p \in Procs, Busy = {p},
         pc[p] \notin {"store", "return"},
         pc' = [pc EXCEPT ![p] = "store"], UNCHANGED op,
         engineBar' \in Engine!Effects(AsOperation(op[p]))
  PROVE  Engine!Next
<1>1. pc \in [Procs -> Locations] /\ op[p] \in Ops
      BY DEF Busy, PcmInv, TypeInv, TypeOK, OpInv
<1>2. Busy' = {p}
      BY <1>1 DEF Busy
<1>3. callBar = AsOperation(op[p]) /\ doneBar = FALSE
  <2>1. ~doneBar
        BY EngineCall
  <2> QED BY <2>1, EngineCall DEF doneBar
<1>4. callBar' = AsOperation(op[p]) /\ doneBar' = TRUE
  <2>1. (Busy = {p} => /\ callBar = AsOperation(op[p])
                       /\ (doneBar <=> pc[p] \in {"store", "return"}))'
        BY EngineCall, PTL
  <2>2. op'[p] = op[p] /\ pc'[p] = "store"
        BY <1>1
  <2>3. callBar' = AsOperation(op[p]) /\ doneBar'
        BY <1>2, <2>1, <2>2
  <2> QED BY <2>3 DEF doneBar
<1>5. callBar # "none"
      BY <1>1, <1>3 DEF AsOperation, Ops
<1> QED BY <1>3, <1>4, <1>5 DEF Engine!Next, Engine!TakeEffect, Engine!Idle

LEMMA EngineStep ==
  ASSUME NEW only, Streams = {only}, PcmInv, SoloInv, [Next]_vars
  PROVE  [Engine!Next]_(Engine!vars)
<1>a. /\ Irq \in Procs /\ Irq # only /\ Procs = {only, Irq} /\ only \in Streams
      /\ None \notin Procs
      BY StreamsAssumption DEF Procs, Irq, None
<1>b. /\ pc \in [Procs -> Locations] /\ op \in [Procs -> Ops \cup {None}]
      /\ \A p \in Procs : pc[p] # "idle" => op[p] \in Ops
      /\ op[Irq] # "PREPARE"
      /\ irqPc # "stop" => pc[Irq] = "idle"
      /\ irqPc = "elapsed" => irqAt = only /\ streamLock[only] = Irq
      /\ pc[only] # "idle" =>
           /\ state[only] \in LegalIn(op[only])
           /\ op[only] # "PREPARE" => streamLock[only] = only
      BY <1>a DEF PcmInv, TypeInv, TypeOK, OpInv, OwedInv, CallInv
<1>c. /\ Busy = {} \/ \E p \in Procs : Busy = {p}
      /\ pc[Irq] # "idle" => /\ state[only] = "RUNNING" /\ streamLock[only] = Irq
                             /\ op[Irq] \in {"STOP", "XRUN"} /\ irqAt = only
      BY <1>a, OneCall DEF PcmInv, OwedInv, TypeInv, OpInv, CallInv
<1>d. ASSUME NEW p \in Procs, pc[p] # "idle"
      PROVE  Busy = {p} /\ Target(p) = only /\ state[only] \in LegalIn(op[p])
  <2>1. p \in Busy
        BY <1>d DEF Busy
  <2>2. Busy = {p}
        BY <1>c, <2>1
  <2> QED BY <1>a, <1>b, <1>c, <1>d, <2>2 DEF Target, LegalIn
<1>1. ASSUME NEW s \in Streams, Client(s) PROVE [Engine!Next]_(Engine!vars)
  <2>1. CASE Open(s) \/ Close(s) \/ SuspendPaused(s)
    <3>1. UNCHANGED <<portConf, op, pc>>
          BY <2>1 DEF Open, Close, SuspendPaused, hwVars
    <3> QED BY <3>1, EngineStutter
  <2>2. CASE CallPrepare(s) \/ CallTrigger(s)
    <3>1. PICK o \in Ops : /\ state[only] \in LegalIn(o)
                           /\ pc' = [pc EXCEPT ![only] = "lock"]
                           /\ op' = [op EXCEPT ![only] = o]
                           /\ o = "PREPARE" \/ streamLock[only] = None
          BY <1>a, <2>2, OpsAssumption DEF CallPrepare, CallTrigger, Ops
    <3>2. pc[only] = "idle" /\ UNCHANGED portConf
          BY <2>2 DEF CallPrepare, CallTrigger, hwVars
    <3>3. pc[Irq] = "idle"
          BY <1>a, <1>c, <3>1 DEF LegalIn
    <3>4. Busy = {}
          BY <1>a, <3>2, <3>3 DEF Busy
    <3> QED BY <1>a, <3>1, <3>2, <3>4, EngineBegin
  <2> QED BY <1>1, <2>1, <2>2 DEF Client
<1>2. ASSUME NEW p \in Procs, Callback(p) PROVE [Engine!Next]_(Engine!vars)
  <2>1. CASE Lock(p)
    <3>1. /\ pc[p] = "lock" /\ UNCHANGED <<portConf, op>>
          /\ Busy = {p} /\ Target(p) = only
          BY <2>1, <1>d DEF Lock, hwVars
    <3>2. CASE op[p] = "PREPARE" /\ only # "playback"
      <4>1. pc' = [pc EXCEPT ![p] = "store"]
            BY <2>1, <3>1, <3>2 DEF Lock
      <4>2. engineBar' \in Engine!Effects(AsOperation(op[p]))
            BY <3>1, <3>2 DEF engineBar, EngineOn, AsOperation, Engine!Effects
      <4> QED BY <3>1, <4>1, <4>2, EngineEffect
    <3>3. CASE ~(op[p] = "PREPARE" /\ only # "playback")
      <4>1. \E l \in {"read", "write"} : pc' = [pc EXCEPT ![p] = l]
            BY <2>1, <3>1, <3>3 DEF Lock
      <4> QED BY <1>b, <3>1, <4>1, EngineStutter
    <3> QED BY <3>2, <3>3
  <2>2. CASE Read(p)
        BY <1>b, <2>2, EngineStutter DEF Read, hwVars
  <2>3. CASE Write(p)
    <3>1. /\ pc[p] = "write" /\ pc' = [pc EXCEPT ![p] = "store"]
          /\ UNCHANGED op
          BY <2>3 DEF Write
    <3>2. /\ Busy = {p} /\ state[only] \in LegalIn(op[p]) /\ op[p] \in Ops
          /\ \A q \in Procs : pc[q] \notin {"store", "return"}
          BY <1>b, <1>d, <3>1 DEF Busy
    <3>3. Fits(state[only], portConf, dmaRunning, only)
          /\ (state[only] \in {"RUNNING", "PAUSED"} => shadow = portConf)
          BY <3>2 DEF SoloInv
    <3>4. engineBar' \in Engine!Effects(AsOperation(op[p]))
      <4>1. CASE op[p] = "PREPARE"
        <5>1. portConf' = {}
              BY <2>3, <4>1 DEF Write
        <5> QED BY <4>1, <5>1 DEF engineBar, EngineOn, AsOperation, Engine!Effects
      <4>2. CASE op[p] # "PREPARE"
        <5>1. portConf' = NewConf(op[p], only)
              BY <2>3, <3>1, <4>2 DEF Write, SoloInv
        <5>2. Only = only /\ only \in {"playback", "capture"}
              BY StreamsAssumption DEF Only
        <5>3. Fits(NextState(op[p]), NewConf(op[p], only),
                   op[p] \in {"START", "PAUSE_RELEASE"}, only)
              BY <3>2, <3>3, <4>2, TriggerFits
        <5>4. CASE op[p] \in {"START", "PAUSE_RELEASE"}
          <6>1. Fits("RUNNING", portConf', TRUE, only)
                BY <5>1, <5>3, <5>4 DEF NextState, Fits
          <6>2. engineBar' = only
                BY <5>2, <6>1 DEF engineBar, Fits, EngineOn
          <6> QED BY <5>2, <5>4, <6>2 DEF AsOperation, Engine!Effects
        <5>5. CASE op[p] = "PAUSE_PUSH"
          <6>1. Fits("PAUSED", portConf', FALSE, only)
                BY <5>1, <5>3, <5>5 DEF NextState, Fits
          <6>2. engineBar' = "held"
                BY <6>1 DEF engineBar, Fits, EngineOn
          <6> QED BY <5>5, <6>2 DEF AsOperation, Engine!Effects
        <5>6. CASE op[p] \in {"STOP", "XRUN", "SUSPEND"}
          <6>1. portConf' = StoppedConf(portConf)
                BY <5>1, <5>6 DEF NewConf
          <6>2. engineBar' = "off"
                BY <6>1 DEF engineBar, StoppedConf, EngineOn
          <6> QED BY <5>6, <6>2 DEF AsOperation, Engine!Effects
        <5> QED BY <3>2, <4>2, <5>4, <5>5, <5>6 DEF Ops
      <4> QED BY <4>1, <4>2
    <3> QED BY <3>1, <3>2, <3>4, EngineEffect
  <2>4. CASE Store(p)
        BY <1>b, <2>4, EngineStutter DEF Store, hwVars
  <2>5. CASE Return(p)
    <3>1. /\ pc[p] = "return" /\ pc' = [pc EXCEPT ![p] = "idle"]
          /\ UNCHANGED portConf
          BY <2>5 DEF Return, hwVars
    <3>2. Busy = {p} /\ op[p] \in Ops
          BY <1>b, <1>d, <3>1
    <3>3. Busy' = {}
          BY <1>b, <3>1, <3>2 DEF Busy
    <3>4. callBar = AsOperation(op[p]) /\ doneBar
          BY <3>1, <3>2, EngineCall
    <3>5. callBar' = "none" /\ doneBar' = FALSE /\ engineBar' = engineBar
          BY <3>1, <3>3 DEF callBar, doneBar, engineBar, EngineOn
    <3>6. callBar # "none"
          BY <3>2, <3>4 DEF AsOperation, Ops
    <3> QED BY <3>4, <3>5, <3>6 DEF Engine!Next, Engine!Finish, Engine!Idle
  <2> QED BY <1>2, <2>1, <2>2, <2>3, <2>4, <2>5 DEF Callback
<1>3. CASE PeriodElapses
      BY <1>3, EngineStutter DEF PeriodElapses
<1>4. CASE IrqHandler
  <2>1. CASE IrqEnter \/ IrqRead \/ IrqAck \/ IrqCheck \/ IrqCall \/ IrqStopped
    <3>1. UNCHANGED <<portConf, op, pc>>
          BY <2>1 DEF IrqEnter, IrqRead, IrqAck, IrqCheck, IrqCall, IrqStopped, hwVars
    <3> QED BY <3>1, EngineStutter
  <2>2. CASE IrqElapsed
    <3>1. CASE UNCHANGED <<pc, op>>
          BY <2>2, <3>1, EngineStutter DEF IrqElapsed, hwVars
    <3>2. CASE ~UNCHANGED <<pc, op>>
      <4>1. PICK o \in {"STOP", "XRUN"} : op' = [op EXCEPT ![Irq] = o]
            BY <2>2, <3>2 DEF IrqElapsed
      <4>2. /\ irqPc = "elapsed" /\ irqAt = only /\ state[only] = "RUNNING"
            /\ pc' = [pc EXCEPT ![Irq] = "lock"] /\ UNCHANGED portConf
            BY <1>b, <2>2, <3>2 DEF IrqElapsed, hwVars
      <4>3. Busy = {}
        <5>1. pc[Irq] = "idle" /\ pc[only] = "idle"
              BY <1>a, <1>b, <4>2 DEF LegalIn
        <5> QED BY <1>a, <5>1 DEF Busy
      <4>4. o \in Ops /\ state[only] \in LegalIn(o)
            BY <4>1, <4>2 DEF Ops, LegalIn
      <4> QED BY <1>a, <4>1, <4>2, <4>3, <4>4, EngineBegin
    <3> QED BY <3>1, <3>2
  <2> QED BY <1>4, <2>1, <2>2 DEF IrqHandler
<1>5. CASE UNCHANGED vars
      BY <1>5, EngineStutter DEF vars, hwVars
<1> QED BY <1>1, <1>2, <1>3, <1>4, <1>5 DEF Next

(* For a card one substream uses, whichever it is and whatever operations   *)
(* occur, and whose register has RUN clear at boot, the callbacks implement *)
(* AudioEngine: each operation takes effect once, at the write of PORT_CONF *)
(* (or where capture_prepare has the lock), and where it is allowed.        *)
(* (trigger, the prepares, and the stops of motu424_irq_handler)            *)
THEOREM EngineRefinement ==
  ASSUME NEW only, Streams = {only},
         \A conf \in BootPortConf : "RUN" \notin conf
  PROVE  Spec => ImplementsEngine
<1>1. \A conf \in BootPortConf : ~EngineOn(conf)
      BY DEF EngineOn
<1>2. Spec => [](PcmInv /\ SoloInv)
      BY <1>1, SoloCorrect
<1>3. Init => Engine!Init
      BY EngineInit
<1>4. PcmInv /\ SoloInv /\ [Next]_vars => [Engine!Next]_(Engine!vars)
      BY EngineStep
<1> QED BY <1>2, <1>3, <1>4, PTL DEF Spec, ImplementsEngine, Engine!Spec
===============================================================================
