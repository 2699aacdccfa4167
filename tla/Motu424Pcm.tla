------------------------------ MODULE Motu424Pcm ------------------------------
(***************************************************************************)
(* The ALSA frontend of the Linux driver (source/linux/motu424_alsa.c):    *)
(* the PCM callbacks of the playback and the capture substream, the lock   *)
(* ctx.lock they share, the port-configuration register they share, and    *)
(* the interrupt handler, which takes no lock of the driver.               *)
(*                                                                         *)
(* Processes: one ALSA client per substream, and "irq", the handler        *)
(* running on a CPU of its own.  Every access to a register or to a field  *)
(* another process reads without a lock is a step of its own.              *)
(*                                                                         *)
(* The ALSA core (which callback is legal in which state of the substream, *)
(* the stream lock around trigger, what snd_pcm_period_elapsed does) and   *)
(* the card are outside the repository; they are modelled from how the     *)
(* driver uses them.                                                       *)
(***************************************************************************)
EXTENDS PortConf

CONSTANTS
  Streams,      \* the substreams in use, out of "playback" and "capture"
  UsedOps,      \* the operations that occur, out of Ops
  BootPortConf  \* the values PORT_CONF may have when the card is registered

ASSUME StreamsAssumption == Streams \subseteq {"playback", "capture"}
ASSUME BootAssumption == BootPortConf \subseteq SUBSET Flags

Irq == "irq"
Procs == Streams \cup {Irq}
None == "none"

(* What the ALSA core asks of the driver: prepare, and the triggers named  *)
(* after the reason the core gives them.                                   *)
Ops == {"PREPARE", "START", "STOP", "XRUN", "SUSPEND",
        "PAUSE_PUSH", "PAUSE_RELEASE"}

ASSUME OpsAssumption == UsedOps \subseteq Ops

States == {"CLOSED", "SETUP", "PREPARED", "RUNNING", "PAUSED", "XRUN",
           "SUSPENDED"}

Locations == {"idle", "lock", "read", "write", "store", "return"}

IrqLocations == {"idle", "read", "ack", "check", "call", "elapsed", "stop"}

VARIABLES
  portConf,    \* PORT_CONF in the card
  intStatus,   \* the PERIOD_ELAPSED bit of INT_STATUS in the card
  sizeSet,     \* DMA_SIZE has been programmed with a period
  shadow,      \* ctx.port_conf_shadow
  dmaRunning,  \* ctx.dma_running
  rate,        \* ctx.rate, as the substream whose runtime->rate it is
  ctxLock,     \* holder of ctx.lock
  substream,   \* the substreams whose pointer in struct motu424_linux is set
  state,       \* runtime->state of each substream
  streamLock,  \* holder of each substream's stream lock
  pc, op, val, \* per process: where it is, what it does, the local "val"
  irqPc, irqAt,\* the handler, and the substream it looks at
  owed         \* running substreams not yet told of an elapsed period

hwVars  == <<portConf, intStatus, sizeSet>>
ctxVars == <<shadow, dmaRunning, rate, ctxLock>>
coreVars == <<substream, state, streamLock>>
irqVars == <<irqPc, irqAt>>
vars == <<hwVars, ctxVars, coreVars, pc, op, val, irqVars, owed>>

TypeOK ==
  /\ portConf \in SUBSET Flags
  /\ shadow \in SUBSET Flags
  /\ intStatus \in BOOLEAN
  /\ sizeSet \in BOOLEAN
  /\ dmaRunning \in BOOLEAN
  /\ rate \in Streams \cup {None}
  /\ ctxLock \in Procs \cup {None}
  /\ substream \in SUBSET Streams
  /\ state \in [Streams -> States]
  /\ streamLock \in [Streams -> Procs \cup {None}]
  /\ pc \in [Procs -> Locations]
  /\ op \in [Procs -> Ops \cup {None}]
  /\ val \in [Procs -> SUBSET Flags]
  /\ irqPc \in IrqLocations
  /\ irqAt \in {"playback", "capture"}
  /\ owed \in SUBSET Streams

(* The shadow is read from the card, or left 0 when motu424_full_init gave  *)
(* up before it came to that: the probe goes on all the same.               *)
Init ==
  /\ portConf \in BootPortConf
  /\ shadow \in {portConf, {}}
  /\ intStatus = FALSE
  /\ sizeSet = FALSE
  /\ dmaRunning = FALSE
  /\ rate = None
  /\ ctxLock = None
  /\ substream = {}
  /\ state = [s \in Streams |-> "CLOSED"]
  /\ streamLock = [s \in Streams |-> None]
  /\ pc = [p \in Procs |-> "idle"]
  /\ op = [p \in Procs |-> None]
  /\ val = [p \in Procs |-> {}]
  /\ irqPc = "idle"
  /\ irqAt = "playback"
  /\ owed = {}

-------------------------------------------------------------------------------
(* The ALSA core                                                           *)

(* The states in which the core calls the driver with each operation, and  *)
(* the state it gives the substream when the callback returns.             *)
LegalIn(o) ==
  CASE o = "PREPARE"       -> {"SETUP", "PREPARED", "XRUN", "SUSPENDED"}
    [] o = "START"         -> {"PREPARED"}
    [] o = "PAUSE_RELEASE" -> {"PAUSED"}
    [] OTHER               -> {"RUNNING"}

NextState(o) ==
  CASE o = "PREPARE"       -> "PREPARED"
    [] o = "START"         -> "RUNNING"
    [] o = "PAUSE_RELEASE" -> "RUNNING"
    [] o = "PAUSE_PUSH"    -> "PAUSED"
    [] o = "SUSPEND"       -> "SUSPENDED"
    [] o = "XRUN"          -> "XRUN"
    [] o = "STOP"          -> "SETUP"

(* The substream process p works for. *)
Target(p) == IF p = Irq THEN irqAt ELSE p

(* open and hw_params: the driver stores the pointer. *)
Open(s) ==
  /\ pc[s] = "idle" /\ state[s] = "CLOSED"
  /\ substream' = substream \cup {s}
  /\ state' = [state EXCEPT ![s] = "SETUP"]
  /\ UNCHANGED <<hwVars, ctxVars, streamLock, pc, op, val, irqVars, owed>>

(* hw_free and close: the core has stopped the substream, the driver clears *)
(* its pointer, without a lock and without waiting for the handler.         *)
Close(s) ==
  /\ pc[s] = "idle"
  /\ state[s] \in {"SETUP", "PREPARED", "XRUN", "SUSPENDED"}
  /\ substream' = substream \ {s}
  /\ state' = [state EXCEPT ![s] = "CLOSED"]
  /\ UNCHANGED <<hwVars, ctxVars, streamLock, pc, op, val, irqVars, owed>>

(* A suspend of the system needs no trigger when the substream is paused. *)
SuspendPaused(s) ==
  /\ pc[s] = "idle" /\ state[s] = "PAUSED" /\ streamLock[s] = None
  /\ state' = [state EXCEPT ![s] = "SUSPENDED"]
  /\ UNCHANGED <<hwVars, ctxVars, substream, streamLock, pc, op, val, irqVars,
                 owed>>

(* The core enters prepare, or takes the stream lock and enters trigger. *)
CallPrepare(s) ==
  /\ pc[s] = "idle" /\ state[s] \in LegalIn("PREPARE")
  /\ pc' = [pc EXCEPT ![s] = "lock"]
  /\ op' = [op EXCEPT ![s] = "PREPARE"]
  /\ UNCHANGED <<hwVars, ctxVars, coreVars, val, irqVars, owed>>

CallTrigger(s) ==
  \E o \in UsedOps \ {"PREPARE"} :
    /\ pc[s] = "idle" /\ state[s] \in LegalIn(o)
    /\ streamLock[s] = None
    /\ streamLock' = [streamLock EXCEPT ![s] = s]
    /\ pc' = [pc EXCEPT ![s] = "lock"]
    /\ op' = [op EXCEPT ![s] = o]
    /\ UNCHANGED <<hwVars, ctxVars, substream, state, val, irqVars, owed>>

(* The callback has returned: the core sets the state and lets go of the   *)
(* stream lock, which around prepare it takes only for this.               *)
Return(p) ==
  LET s == Target(p) IN
  /\ pc[p] = "return"
  /\ streamLock[s] = IF op[p] = "PREPARE" THEN None ELSE p
  /\ state' = [state EXCEPT ![s] = NextState(op[p])]
  /\ streamLock' = [streamLock EXCEPT ![s] = None]
  /\ pc' = [pc EXCEPT ![p] = "idle"]
  /\ op' = [op EXCEPT ![p] = None]
  /\ val' = [val EXCEPT ![p] = {}]
  /\ owed' = IF NextState(op[p]) = "RUNNING" THEN owed ELSE owed \ {s}
  /\ UNCHANGED <<hwVars, ctxVars, substream, irqVars>>

-------------------------------------------------------------------------------
(* The callbacks of the driver: playback_prepare, capture_prepare, trigger *)

(* Mutant: the callbacks do not exclude each other. *)
Lock_Unguarded(p) ==
  /\ pc[p] = "lock"
  /\ ctxLock' = p
  /\ pc' = [pc EXCEPT ![p] =
              IF op[p] # "PREPARE" THEN "read"
              ELSE IF Target(p) = "playback" THEN "write" ELSE "store"]
  /\ UNCHANGED <<hwVars, shadow, dmaRunning, rate, coreVars, op, val, irqVars,
                 owed>>

(* pal_spinlock_lock_irqsave(ctx.lock).  Prepare does not read PORT_CONF;  *)
(* capture_prepare does not write a register either.                       *)
Lock(p) ==
  /\ pc[p] = "lock" /\ ctxLock = None
  /\ ctxLock' = p
  /\ pc' = [pc EXCEPT ![p] =
              IF op[p] # "PREPARE" THEN "read"
              ELSE IF Target(p) = "playback" THEN "write" ELSE "store"]
  /\ UNCHANGED <<hwVars, shadow, dmaRunning, rate, coreVars, op, val, irqVars,
                 owed>>

(* Mutant: trigger has no case for SUSPEND. *)
NewConf_NoSuspend(o, s) ==
  CASE o = "START"         -> StartedConf(portConf, s)
    [] o = "PAUSE_PUSH"    -> PausedConf(shadow)
    [] o = "PAUSE_RELEASE" -> ReleasedConf(shadow)
    [] o = "SUSPEND"       -> portConf
    [] OTHER               -> StoppedConf(portConf)

(* START and the stops start from the register, the pauses from the shadow. *)
NewConf(o, s) ==
  CASE o = "START"         -> StartedConf(portConf, s)
    [] o = "PAUSE_PUSH"    -> PausedConf(shadow)
    [] o = "PAUSE_RELEASE" -> ReleasedConf(shadow)
    [] OTHER               -> StoppedConf(portConf)

Read(p) ==
  /\ pc[p] = "read"
  /\ val' = [val EXCEPT ![p] = NewConf(op[p], Target(p))]
  /\ pc' = [pc EXCEPT ![p] = "write"]
  /\ UNCHANGED <<hwVars, ctxVars, coreVars, op, irqVars, owed>>

(* playback_prepare writes 0 to PORT_CONF and the period to DMA_SIZE. *)
Write(p) ==
  /\ pc[p] = "write"
  /\ IF op[p] = "PREPARE"
       THEN portConf' = {} /\ sizeSet' = TRUE
       ELSE portConf' = val[p] /\ UNCHANGED sizeSet
  /\ pc' = [pc EXCEPT ![p] = "store"]
  /\ UNCHANGED <<intStatus, ctxVars, coreVars, op, val, irqVars, owed>>

(* Mutant: START leaves the shadow as it was. *)
Store_NoShadowAtStart(p) ==
  /\ pc[p] = "store"
  /\ IF op[p] = "PREPARE"
       THEN rate' = Target(p) /\ dmaRunning' = FALSE /\ UNCHANGED shadow
       ELSE /\ shadow' = IF op[p] = "START" THEN shadow ELSE val[p]
            /\ dmaRunning' = (op[p] \in {"START", "PAUSE_RELEASE"})
            /\ UNCHANGED rate
  /\ ctxLock' = None
  /\ pc' = [pc EXCEPT ![p] = "return"]
  /\ UNCHANGED <<hwVars, coreVars, op, val, irqVars, owed>>

(* Mutant: releasing a pause does not set dma_running again. *)
Store_ReleaseForgets(p) ==
  /\ pc[p] = "store"
  /\ IF op[p] = "PREPARE"
       THEN rate' = Target(p) /\ dmaRunning' = FALSE /\ UNCHANGED shadow
       ELSE /\ shadow' = val[p]
            /\ dmaRunning' = (op[p] = "START")
            /\ UNCHANGED rate
  /\ ctxLock' = None
  /\ pc' = [pc EXCEPT ![p] = "return"]
  /\ UNCHANGED <<hwVars, coreVars, op, val, irqVars, owed>>

(* Mutant: the stops return without unlocking. *)
Store_KeepsLock(p) ==
  /\ pc[p] = "store"
  /\ IF op[p] = "PREPARE"
       THEN rate' = Target(p) /\ dmaRunning' = FALSE /\ UNCHANGED shadow
       ELSE /\ shadow' = val[p]
            /\ dmaRunning' = (op[p] \in {"START", "PAUSE_RELEASE"})
            /\ UNCHANGED rate
  /\ ctxLock' = IF op[p] = "STOP" THEN p ELSE None
  /\ pc' = [pc EXCEPT ![p] = "return"]
  /\ UNCHANGED <<hwVars, coreVars, op, val, irqVars, owed>>

(* The fields of ctx, and the unlock.  Prepare leaves the shadow alone. *)
Store(p) ==
  /\ pc[p] = "store"
  /\ IF op[p] = "PREPARE"
       THEN /\ rate' = Target(p)
            /\ dmaRunning' = FALSE
            /\ UNCHANGED shadow
       ELSE /\ shadow' = val[p]
            /\ dmaRunning' = (op[p] \in {"START", "PAUSE_RELEASE"})
            /\ UNCHANGED rate
  /\ ctxLock' = None
  /\ pc' = [pc EXCEPT ![p] = "return"]
  /\ UNCHANGED <<hwVars, coreVars, op, val, irqVars, owed>>

-------------------------------------------------------------------------------
(* The card, and motu424_irq_handler                                       *)

(* A period has elapsed while the engine is on: the card sets the bit.     *)
PeriodElapses ==
  /\ EngineOn(portConf)
  /\ intStatus' = TRUE
  /\ owed' = owed \cup {s \in Streams : state[s] = "RUNNING"}
  /\ UNCHANGED <<portConf, sizeSet, ctxVars, coreVars, pc, op, val, irqVars>>

(* The line is shared: the handler may run although the bit is clear. *)
IrqEnter ==
  /\ irqPc = "idle"
  /\ irqPc' = "read"
  /\ UNCHANGED <<hwVars, ctxVars, coreVars, pc, op, val, irqAt, owed>>

IrqRead ==
  /\ irqPc = "read"
  /\ irqPc' = IF intStatus THEN "ack" ELSE "idle"
  /\ UNCHANGED <<hwVars, ctxVars, coreVars, pc, op, val, irqAt, owed>>

(* Mutant: the handler acknowledges and tells nobody. *)
IrqAck_Only ==
  /\ irqPc = "ack"
  /\ intStatus' = FALSE
  /\ irqPc' = "idle"
  /\ UNCHANGED <<portConf, sizeSet, ctxVars, coreVars, pc, op, val, irqAt, owed>>

(* Writing the status back clears the bit. *)
IrqAck ==
  /\ irqPc = "ack"
  /\ intStatus' = FALSE
  /\ irqPc' = "check"
  /\ irqAt' = "playback"
  /\ UNCHANGED <<portConf, sizeSet, ctxVars, coreVars, pc, op, val, owed>>

(* Mutant: one period, one substream: "else if" between the two. *)
Leave_ElseIf(s) == irqPc' = "idle" /\ irqAt' = "playback"

(* After the substream at s the handler looks at the other, then it ends. *)
Leave(s) ==
  IF s = "playback" THEN irqPc' = "check" /\ irqAt' = "capture"
                    ELSE irqPc' = "idle"  /\ irqAt' = "playback"

(* if (motu->playback_substream), if (motu->capture_substream) *)
IrqCheck ==
  /\ irqPc = "check"
  /\ IF irqAt \in substream
       THEN irqPc' = "call" /\ UNCHANGED irqAt
       ELSE Leave(irqAt)
  /\ UNCHANGED <<hwVars, ctxVars, coreVars, pc, op, val, owed>>

(* snd_pcm_period_elapsed: it takes the stream lock ...  The compiler may   *)
(* read the pointer again for the argument; the core ignores a NULL.        *)
IrqCall ==
  /\ irqPc = "call"
  /\ \/ /\ streamLock[irqAt] = None
        /\ streamLock' = [streamLock EXCEPT ![irqAt] = Irq]
        /\ irqPc' = "elapsed"
        /\ UNCHANGED irqAt
     \/ /\ irqAt \notin substream
        /\ Leave(irqAt)
        /\ UNCHANGED streamLock
  /\ UNCHANGED <<hwVars, ctxVars, substream, state, pc, op, val, owed>>

(* ... and does nothing unless the substream is running.  Having read the  *)
(* position it wakes the client, or stops the substream: an overrun, an    *)
(* underrun or the end of a drain.                                         *)
IrqElapsed ==
  /\ irqPc = "elapsed"
  /\ owed' = owed \ {irqAt}
  /\ \/ /\ streamLock' = [streamLock EXCEPT ![irqAt] = None]
        /\ Leave(irqAt)
        /\ UNCHANGED <<pc, op>>
     \/ /\ state[irqAt] = "RUNNING"
        /\ \E o \in {"STOP", "XRUN"} \cap UsedOps : op' = [op EXCEPT ![Irq] = o]
        /\ pc' = [pc EXCEPT ![Irq] = "lock"]
        /\ irqPc' = "stop"
        /\ UNCHANGED <<irqAt, streamLock>>
  /\ UNCHANGED <<hwVars, ctxVars, substream, state, val>>

IrqStopped ==
  /\ irqPc = "stop" /\ pc[Irq] = "idle"
  /\ Leave(irqAt)
  /\ UNCHANGED <<hwVars, ctxVars, coreVars, pc, op, val, owed>>

-------------------------------------------------------------------------------
Client(s) ==
  \/ Open(s) \/ Close(s) \/ SuspendPaused(s)
  \/ CallPrepare(s) \/ CallTrigger(s)

Callback(p) == Lock(p) \/ Read(p) \/ Write(p) \/ Store(p) \/ Return(p)

IrqHandler ==
  \/ IrqEnter \/ IrqRead \/ IrqAck \/ IrqCheck \/ IrqCall \/ IrqElapsed
  \/ IrqStopped

Next ==
  \/ \E s \in Streams : Client(s)
  \/ \E p \in Procs : Callback(p)
  \/ PeriodElapses
  \/ IrqHandler

(* A callback and the handler run to completion once entered.  The kernel's *)
(* spinlocks are queued, so a process that waits for one gets it although   *)
(* others keep taking it: strong fairness, which for the steps that wait    *)
(* for nothing is no more than weak fairness.  Nothing makes a client call, *)
(* and nothing makes the card count periods.                                *)
Fairness == SF_vars(IrqHandler) /\ \A p \in Procs : SF_vars(Callback(p))

Spec == Init /\ [][Next]_vars
FairSpec == Spec /\ Fairness

-------------------------------------------------------------------------------
(* Properties                                                              *)

(* No call of the driver is in progress for substream s. *)
Quiet(s) == \A p \in Procs : Target(p) = s => pc[p] = "idle"

(* A substream the client sees as running has the engine on and the frames *)
(* going its way; a paused one keeps the run bit and its direction, so that *)
(* releasing the pause (which sets DMA_EN and nothing else) resumes it; and *)
(* dma_running, which pointer goes by, says which of the two it is.         *)
(* (trigger, the prepares; true of a card that one substream uses)          *)
EngineFollowsClient ==
  \A s \in Streams : Quiet(s) /\ state[s] \in {"RUNNING", "PAUSED"} =>
    /\ "RUN" \in portConf
    /\ "DMA_RD" \in portConf <=> s = "playback"
    /\ "DMA_EN" \in portConf <=> state[s] = "RUNNING"
    /\ dmaRunning <=> state[s] = "RUNNING"

(* While no substream runs and none is being triggered, the card moves no   *)
(* frame to or from the buffer, whatever was stopped by whom: a client, an  *)
(* overrun found by the handler, or a suspend.  (trigger; for a card that   *)
(* was not left running by an earlier driver)                               *)
IdleIsSilent ==
  (\A s \in Streams : Quiet(s) /\ state[s] # "RUNNING") => ~EngineOn(portConf)

(* A pause and its release change DMA_EN and no other bit of the register,  *)
(* although they start from the shadow and not from the register.           *)
(* (trigger, PAUSE_PUSH and PAUSE_RELEASE, against every writer of either)  *)
PauseWritesFresh ==
  \A p \in Procs :
    pc[p] = "write" /\ op[p] \in {"PAUSE_PUSH", "PAUSE_RELEASE"} =>
      val[p] \ {"DMA_EN"} = portConf \ {"DMA_EN"}

(* dma_running may be believed outside a callback: whoever set it last, the *)
(* register then holds what the shadow says and DMA is enabled.  The other  *)
(* way round it says nothing: prepare leaves the shadow stale.              *)
(* (trigger and the prepares of both substreams under ctx.lock)             *)
CtxAgreesWithCard ==
  ctxLock = None /\ dmaRunning => portConf = shadow /\ "DMA_EN" \in portConf

(* The handler has still to look at substream s in this run. *)
WillVisit(s) ==
  \/ irqPc \in {"check", "call", "elapsed"} /\ (irqAt = s \/ s = "capture")
  \/ irqPc = "stop" /\ irqAt = "playback" /\ s = "capture"

(* No period is lost: as long as a running substream has not been told of a *)
(* period, the status bit is set, or the handler that cleared it is on its  *)
(* way to the substream.  It acknowledges before it looks at the substreams,*)
(* so a period that elapses meanwhile sets the bit again.                   *)
(* (motu424_irq_handler against the card, open, close and trigger)          *)
NoPeriodLost == \A s \in owed : intStatus \/ WillVisit(s)

(* Every call of the driver returns, the trigger the handler makes for an   *)
(* overrun included: the stream locks and ctx.lock are taken in one order.  *)
CallsReturn == \A p \in Procs : pc[p] # "idle" ~> pc[p] = "idle"

(* A running substream is told of each period, or stops running.            *)
PeriodsAreTold == \A s \in Streams : s \in owed ~> s \notin owed
===============================================================================
