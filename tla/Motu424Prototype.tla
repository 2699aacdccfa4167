--------------------------- MODULE Motu424Prototype ---------------------------
(***************************************************************************)
(* The prototype ALSA driver at run time (motu_pci_alsa.c): one playback    *)
(* substream, a timer that stands in for the interrupt of the card, the     *)
(* interrupt itself, and remove.  The other two modules of                  *)
(* source/tools/drivers come and go beside it, without a PCM.               *)
(*                                                                         *)
(* Processes that may be in trigger: the client, the timer's callback and   *)
(* the handler, both through snd_pcm_period_elapsed.                        *)
(***************************************************************************)
EXTENDS Motu424Drivers, PortConf, Naturals

CONSTANT Sizes  \* buffer sizes a client asks for, in frames

MaxFrames == (32 * 1024) \div 8  \* buffer_bytes_max, two channels of 4 bytes

ASSUME SizesAssumption == Sizes \subseteq 1..MaxFrames

Procs == {"client", "timer", "irq"}
None == "none"
Ops == {"START", "STOP", "SUSPEND", "PAUSE_PUSH"}

VARIABLES
  state,      \* runtime->state
  sub,        \* motu->playback_substream is set
  frames,     \* runtime->buffer_size
  shadow,     \* frames shadow_buf has room for, 0 when it is NULL
  shadowSize, \* motu->shadow_buf_size, in frames
  conf,       \* PORT_CONF
  dmaRunning, \* motu->dma_running
  streamLock, lock, \* holders of the stream lock and of motu->lock
  pc, op,     \* per process: where it is in trigger, and the command
  timer,      \* period_timer is pending
  timerPc,    \* where its callback is
  irqPc,      \* where the handler is
  suspended   \* a running substream was suspended, and none stopped since

bufVars == <<frames, shadow, shadowSize>>
callVars == <<streamLock, pc, op>>
vars == <<driverVars, state, sub, bufVars, conf, dmaRunning, lock, callVars,
          timer, timerPc, irqPc, suspended>>

TypeOK ==
  /\ DriverTypeOK
  /\ state \in {"CLOSED", "OPEN", "SETUP", "PREPARED", "RUNNING", "XRUN",
               "SUSPENDED"}
  /\ sub \in BOOLEAN
  /\ frames \in Sizes \cup {0} /\ shadow \in Sizes \cup {0}
  /\ shadowSize \in Sizes \cup {0}
  /\ conf \subseteq Flags
  /\ dmaRunning \in BOOLEAN
  /\ streamLock \in Procs \cup {None} /\ lock \in Procs \cup {None}
  /\ pc \in [Procs -> {"idle", "lock", "sync", "return"}]
  /\ op \in [Procs -> Ops \cup {None}]
  /\ timer \in BOOLEAN
  /\ timerPc \in {"idle", "check", "call", "elapsed", "stop", "rearm"}
  /\ irqPc \in {"idle", "check", "call", "elapsed", "stop"}
  /\ suspended \in BOOLEAN

Init ==
  /\ DriverInit
  /\ state = "CLOSED" /\ sub = FALSE
  /\ frames = 0 /\ shadow = 0 /\ shadowSize = 0
  /\ conf = {} /\ dmaRunning = FALSE
  /\ streamLock = None /\ lock = None
  /\ pc = [p \in Procs |-> "idle"] /\ op = [p \in Procs |-> None]
  /\ timer = FALSE /\ timerPc = "idle" /\ irqPc = "idle"
  /\ suspended = FALSE

(* The frames of the shadow buffer that prepare and ack go over. *)
Reach == IF shadow = 0 THEN 0 ELSE frames

Registered == driver = "pci_alsa" /\ phase = "bound"
Live == driver = "pci_alsa" /\ phase # "panic"

-------------------------------------------------------------------------------
(* The client and the ALSA core                                            *)

Open ==
  /\ Registered /\ state = "CLOSED"
  /\ sub' = TRUE /\ state' = "OPEN"
  /\ UNCHANGED <<driverVars, bufVars, conf, dmaRunning, lock, callVars, timer,
                 timerPc, irqPc, suspended>>

(* Mutant: a buffer that is there is kept, whatever its size. *)
Shadow_Kept(n) == IF shadow # 0 THEN shadow ELSE n

(* The shadow buffer after hw_params: a smaller one is replaced. *)
Shadow(n) == IF shadow # 0 /\ shadowSize >= n THEN shadow ELSE n

(* snd_motu_hw_params for n frames.  If an allocation fails the core calls   *)
(* hw_free and asks the client to start over; the size may be set already.  *)
HwParams(n) ==
  /\ Live /\ pc["client"] = "idle" /\ state \in {"OPEN", "SETUP", "PREPARED"}
  /\ \/ /\ shadow' = Shadow(n)
        /\ shadowSize' = IF Shadow(n) = shadow THEN shadowSize ELSE n
        /\ frames' = n /\ state' = "SETUP"
     \/ /\ shadow' = 0 /\ state' = "OPEN" /\ UNCHANGED frames
        /\ shadowSize' \in {shadowSize} \cup (IF Shadow(n) = shadow THEN {} ELSE {n})
  /\ UNCHANGED <<driverVars, sub, conf, dmaRunning, lock, callVars, timer,
                 timerPc, irqPc, suspended>>

(* snd_motu_prepare writes the buffer, and registers no other access reads. *)
Prepare ==
  /\ Live /\ pc["client"] = "idle"
  /\ state \in {"SETUP", "PREPARED", "XRUN", "SUSPENDED"}
  /\ state' = "PREPARED"
  /\ UNCHANGED <<driverVars, sub, bufVars, conf, dmaRunning, lock, callVars,
                 timer, timerPc, irqPc, suspended>>

(* snd_motu_hw_free, by itself or before close. *)
HwFree ==
  /\ Live /\ pc["client"] = "idle" /\ state \in {"SETUP", "PREPARED"}
  /\ state' = "OPEN" /\ shadow' = 0
  /\ UNCHANGED <<driverVars, sub, frames, shadowSize, conf, dmaRunning, lock,
                 callVars, timer, timerPc, irqPc, suspended>>

(* snd_motu_close, on a substream that does not run. *)
Close ==
  /\ Live /\ pc["client"] = "idle" /\ state \notin {"CLOSED", "RUNNING"}
  /\ state' = "CLOSED" /\ sub' = FALSE
  /\ frames' = 0 /\ shadow' = IF state = "OPEN" THEN shadow ELSE 0
  /\ UNCHANGED <<driverVars, shadowSize, conf, dmaRunning, lock, callVars,
                 timer, timerPc, irqPc, suspended>>

(* The core takes the stream lock and calls trigger. *)
Trigger(p, o) ==
  /\ streamLock = IF p = "client" THEN None ELSE p
  /\ streamLock' = p
  /\ pc' = [pc EXCEPT ![p] = "lock"]
  /\ op' = [op EXCEPT ![p] = o]

ClientTrigger(o) ==
  /\ Live /\ pc["client"] = "idle"
  /\ state = IF o = "START" THEN "PREPARED" ELSE "RUNNING"
  /\ Trigger("client", o)
  /\ UNCHANGED <<driverVars, state, sub, bufVars, conf, dmaRunning, lock, timer,
                 timerPc, irqPc, suspended>>

-------------------------------------------------------------------------------
(* snd_motu_trigger                                                        *)

(* val | 0x80 | 0x20000 | 0x40000 *)
Started(c) == c \cup {"DMA_EN", "RUN", "DMA_RD"}

(* val & ~(0x2 | 0x80 | 0x4000 | 0x8000 | 0x80000000): RUN and DMA_RD stay. *)
Stopped(c) == c \ {"DMA_EN", "START"}

(* spin_lock_irqsave, and what is done under the lock. *)
Act(p) ==
  /\ pc[p] = "lock" /\ lock = None
  /\ lock' = p
  /\ CASE op[p] = "START" ->
            /\ conf' = Started(conf)
            /\ dmaRunning' = TRUE /\ timer' = TRUE
       [] op[p] = "STOP" ->
            /\ conf' = Stopped(conf)
            /\ dmaRunning' = FALSE /\ UNCHANGED timer
       [] OTHER -> UNCHANGED <<conf, dmaRunning, timer>>
  /\ pc' = [pc EXCEPT ![p] = IF op[p] = "STOP" THEN "sync" ELSE "return"]
  /\ UNCHANGED <<driverVars, state, sub, bufVars, streamLock, op, timerPc, irqPc,
                 suspended>>

(* Mutant: timer_delete, which does not wait for the callback. *)
Sync_NoWait(p) ==
  /\ pc[p] = "sync"
  /\ timer' = FALSE
  /\ pc' = [pc EXCEPT ![p] = "return"]
  /\ UNCHANGED <<driverVars, state, sub, bufVars, conf, dmaRunning, lock,
                 streamLock, op, timerPc, irqPc, suspended>>

(* timer_delete_sync, under both locks: it waits for the callback to end.   *)
Sync(p) ==
  /\ pc[p] = "sync" /\ timerPc = "idle"
  /\ timer' = FALSE
  /\ pc' = [pc EXCEPT ![p] = "return"]
  /\ UNCHANGED <<driverVars, state, sub, bufVars, conf, dmaRunning, lock,
                 streamLock, op, timerPc, irqPc, suspended>>

(* Mutant: the default case returns without unlocking. *)
Unlock_NotByDefault(o) == IF o \in {"START", "STOP"} THEN None ELSE lock
Unlock(o) == None

(* The core goes on after trigger.  It takes a suspend for done, although   *)
(* the driver answers -EINVAL; a refused pause leaves the substream running. *)
NextState(p) ==
  CASE op[p] = "START"      -> "RUNNING"
    [] op[p] = "STOP"       -> IF p = "client" THEN "SETUP" ELSE "XRUN"
    [] op[p] = "SUSPEND"    -> "SUSPENDED"
    [] op[p] = "PAUSE_PUSH" -> "RUNNING"

Return(p) ==
  /\ pc[p] = "return"
  /\ lock' = Unlock(op[p]) /\ streamLock' = None
  /\ state' = NextState(p)
  /\ suspended' = (op[p] = "SUSPEND" \/ (suspended /\ op[p] # "STOP"))
  /\ pc' = [pc EXCEPT ![p] = "idle"]
  /\ op' = [op EXCEPT ![p] = None]
  /\ UNCHANGED <<driverVars, sub, bufVars, conf, dmaRunning, timer, timerPc,
                 irqPc>>

-------------------------------------------------------------------------------
(* motu_timer_function                                                     *)

TimerFires ==
  /\ Live /\ timer /\ timerPc = "idle"
  /\ timer' = FALSE /\ timerPc' = "check"
  /\ UNCHANGED <<driverVars, state, sub, bufVars, conf, dmaRunning, lock,
                 callVars, irqPc, suspended>>

TimerCheck ==
  /\ timerPc = "check"
  /\ timerPc' = IF dmaRunning /\ sub THEN "call" ELSE "idle"
  /\ UNCHANGED <<driverVars, state, sub, bufVars, conf, dmaRunning, lock,
                 callVars, timer, irqPc, suspended>>

(* snd_pcm_period_elapsed: the stream lock, and perhaps an overrun, whose     *)
(* stop never returns to the callback: it waits in Sync for that callback.   *)
TimerCall ==
  /\ timerPc = "call" /\ streamLock = None
  /\ streamLock' = "timer" /\ timerPc' = "elapsed"
  /\ UNCHANGED <<driverVars, state, sub, bufVars, conf, dmaRunning, lock, pc, op,
                 timer, irqPc, suspended>>

TimerElapsed ==
  /\ timerPc = "elapsed"
  /\ \/ /\ streamLock' = None /\ timerPc' = "rearm"
        /\ UNCHANGED <<pc, op>>
     \/ /\ state = "RUNNING"
        /\ Trigger("timer", "STOP") /\ timerPc' = "stop"
  /\ UNCHANGED <<driverVars, state, sub, bufVars, conf, dmaRunning, lock, timer,
                 irqPc, suspended>>

(* mod_timer, whatever dma_running has become. *)
TimerRearm ==
  /\ timerPc = "rearm"
  /\ timer' = TRUE /\ timerPc' = "idle"
  /\ UNCHANGED <<driverVars, state, sub, bufVars, conf, dmaRunning, lock,
                 callVars, irqPc, suspended>>

-------------------------------------------------------------------------------
(* snd_motu_interrupt.  The status register may read as anything.           *)

IrqEnter ==
  /\ Live /\ irqPc = "idle" /\ "irq" \in held
  /\ "card" \in held
  /\ irqPc' = "check"
  /\ UNCHANGED <<driverVars, state, sub, bufVars, conf, dmaRunning, lock,
                 callVars, timer, timerPc, suspended>>

(* The handler's data was freed: it reads something, or the kernel stops.   *)
IrqFreed ==
  /\ Live /\ irqPc = "idle" /\ "irq" \in held /\ "card" \notin held
  /\ phase' = "panic"
  /\ UNCHANGED <<driver, todo, held, state, sub, bufVars, conf, dmaRunning, lock,
                 callVars, timer, timerPc, irqPc, suspended>>

IrqCheck ==
  /\ irqPc = "check"
  /\ irqPc' = IF sub /\ dmaRunning THEN "call" ELSE "idle"
  /\ UNCHANGED <<driverVars, state, sub, bufVars, conf, dmaRunning, lock,
                 callVars, timer, timerPc, suspended>>

IrqCall ==
  /\ irqPc = "call"
  /\ \/ streamLock = None /\ streamLock' = "irq" /\ irqPc' = "elapsed"
     \/ ~sub /\ irqPc' = "idle" /\ UNCHANGED streamLock
  /\ UNCHANGED <<driverVars, state, sub, bufVars, conf, dmaRunning, lock, pc, op,
                 timer, timerPc, suspended>>

IrqElapsed ==
  /\ irqPc = "elapsed"
  /\ \/ /\ streamLock' = None /\ irqPc' = "idle"
        /\ UNCHANGED <<pc, op>>
     \/ /\ state = "RUNNING"
        /\ Trigger("irq", "STOP") /\ irqPc' = "stop"
  /\ UNCHANGED <<driverVars, state, sub, bufVars, conf, dmaRunning, lock, timer,
                 timerPc, suspended>>

IrqStopped ==
  /\ irqPc = "stop" /\ pc["irq"] = "idle"
  /\ irqPc' = "idle"
  /\ UNCHANGED <<driverVars, state, sub, bufVars, conf, dmaRunning, lock,
                 callVars, timer, timerPc, suspended>>

-------------------------------------------------------------------------------
(* Probe and remove.  snd_card_free waits until the substream is closed and *)
(* free_irq until no handler runs.  After snd_card_free the data of the     *)
(* driver is gone, through which remove goes on.                            *)

pcmVars == <<state, sub, bufVars, conf, dmaRunning, lock, callVars, timer,
             timerPc, irqPc, suspended>>

Lifecycle ==
  /\ \/ Acquire \/ Overlook \/ Fail \/ LoadFpga \/ TestUnmapped \/ Bind \/ Unbind
     \/ OpenSkeleton \/ Done
     \/ \E r \in {"dma", "map0", "map1", "map2"} : Poke(r)
     \/ \E r \in Resources :
          /\ r = "card" => state = "CLOSED"
          /\ r = "irq" => irqPc = "idle"
          /\ Release(r)
  /\ UNCHANGED pcmVars

(* "motu->irq", "motu->iobase_port": memory of the card. *)
RemoveFreed ==
  /\ Live /\ phase = "removing" /\ "card" \notin held
  /\ todo # <<>> /\ Head(todo) \in {"irq", "map0", "map1", "map2"}
  /\ phase' = "panic"
  /\ UNCHANGED <<driver, todo, held, pcmVars>>

Client ==
  \/ Open \/ Prepare \/ HwFree \/ Close
  \/ \E n \in Sizes : HwParams(n)
  \/ \E o \in Ops : ClientTrigger(o)

Callback(p) == Act(p) \/ Sync(p) \/ Return(p)

Timer == TimerCheck \/ TimerCall \/ TimerElapsed \/ TimerRearm

IrqHandler == IrqCheck \/ IrqCall \/ IrqElapsed \/ IrqStopped

Next ==
  \/ Lifecycle \/ RemoveFreed
  \/ Client
  \/ \E p \in Procs : Callback(p)
  \/ TimerFires \/ Timer
  \/ IrqEnter \/ IrqFreed \/ IrqHandler

(* What was entered goes on, and a spinlock that keeps being freed is got.  *)
Fairness ==
  /\ \A p \in Procs : SF_vars(Callback(p))
  /\ SF_vars(Timer) /\ SF_vars(IrqHandler)

Spec == Init /\ [][Next]_vars
FairSpec == Spec /\ Fairness

-------------------------------------------------------------------------------
(* Properties                                                              *)

Quiet == \A p \in Procs : pc[p] = "idle"

(* When a stop has returned the timer is not pending and its callback not   *)
(* running, although the callback arms it again without looking at          *)
(* dma_running; and the card moves no frame, for STOP clears one of the two *)
(* bits that make it.  (timer_delete_sync against motu_timer_function)      *)
StopIsComplete ==
  Quiet /\ ~suspended =>
    /\ state \in {"SETUP", "XRUN"} => ~timer /\ timerPc = "idle"
    /\ state # "RUNNING" => ~EngineOn(conf)

(* Neither the handler nor the callback of the timer runs on what is gone,  *)
(* in a life without a suspend: the driver refuses a suspend, the core goes *)
(* on, and nothing stops the timer.                                         *)
(* (motu_timer_function and the handler against close, error paths, remove) *)
CallbacksSafe ==
  /\ HandlerSafe
  /\ ~suspended /\ (timer \/ timerPc # "idle") => "card" \in held /\ sub

(* prepare and ack go over buffer_size frames of the shadow buffer: it has  *)
(* room for them when it is there, through any sequence of hw_params that   *)
(* succeed or fail and of hw_free, and it is gone when the card goes.       *)
ShadowFits == Reach <= shadow /\ (state = "CLOSED" => shadow = 0)

(* STOP waits, with the stream lock, for a callback that waits for it, or   *)
(* the callback waits in it for itself.                                     *)
TimerDeadlock ==
  \E p \in Procs : pc[p] = "sync" /\ (p = "timer" \/ timerPc = "call")

(* A call returns unless STOP has met the timer's callback: that is the one *)
(* way in which the locks and the timer can wait for each other.            *)
CallsReturnOrDeadlock ==
  \A p \in Procs : pc[p] # "idle" ~> pc[p] = "idle" \/ TimerDeadlock
===============================================================================
