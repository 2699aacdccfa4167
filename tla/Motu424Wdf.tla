------------------------------ MODULE Motu424Wdf ------------------------------
(***************************************************************************)
(* The life of the card under Windows (source/windows/motu424_wdf.c and    *)
(* motu424_win_pal.c): the callbacks the framework makes when the device   *)
(* is added, prepared, powered, released and removed, the requests of its  *)
(* sequential queue, and the interrupt service routine on another CPU.     *)
(*                                                                         *)
(* Unlike the ALSA probe, preparation goes on without a DMA buffer,        *)
(* without firmware and without an interrupt.                              *)
(***************************************************************************)
EXTENDS Integers

CONSTANTS
  PortKinds,    \* the resources BAR2 may be: "memory" or "port"
  MaxPrepares   \* bound: the times the device is prepared

ASSUME PortKindsAssumption == PortKinds \subseteq {"memory", "port"}
ASSUME MaxPreparesAssumption == MaxPrepares \in Nat \ {0}

Bars == {"bar0", "bar1", "bar2"}
Firmware == {"fw_fpga_data", "fw_init_data"}
Resources == Bars \cup Firmware \cup {"dma_buf", "lock"}

VARIABLES
  pc,         \* the framework's thread of PnP and power callbacks
  prepares,   \* the preparations begun
  port,       \* the resource BAR2 is
  enabler,    \* pal_device.dma_enabler is not NULL
  held,       \* the fields of DEVICE_CONTEXT that are not NULL
  irqSet,     \* pal_device.irq_handler and irq_ctx are not NULL
  interrupt,  \* a WDFINTERRUPT exists
  connected,  \* its service routine may be called
  isr,        \* the routine on another CPU
  req,        \* the request in the hands of EvtIoDeviceControl
  running,    \* ctx.dma_running
  intMask,    \* the card: interrupts enabled
  engine      \* the card: the DMA engine runs

cardVars == <<intMask, engine>>
irqVars == <<irqSet, interrupt, connected, isr>>
addVars == <<port, enabler>>
vars == <<pc, prepares, addVars, held, irqVars, req, running, cardVars>>

TypeOK ==
  /\ pc \in {"entry", "new", "added", "bar0", "bar1", "bar2", "check", "dma", "firmware", "init",
             "irq", "prepared", "d0", "low", "r_stop", "r_mask", "r_irq", "r_dma",
             "r_firmware", "r_unmap", "released", "gone", "bugcheck"}
  /\ prepares \in 0..MaxPrepares
  /\ port \in PortKinds
  /\ enabler \in BOOLEAN
  /\ held \subseteq Resources
  /\ irqSet \in BOOLEAN /\ interrupt \in BOOLEAN /\ connected \in BOOLEAN
  /\ isr \in {"idle", "entered", "body"}
  /\ req \in {"none", "start", "stop"}
  /\ running \in BOOLEAN
  /\ intMask \in BOOLEAN /\ engine \in BOOLEAN

Init ==
  /\ pc = "entry" /\ prepares = 0
  /\ port \in PortKinds /\ enabler = FALSE
  /\ held = {}
  /\ irqSet = FALSE /\ interrupt = FALSE /\ connected = FALSE /\ isr = "idle"
  /\ req = "none" /\ running = FALSE
  /\ intMask \in BOOLEAN /\ engine \in BOOLEAN

Has(r) == r \in held
Goto(next) == pc' = next

-------------------------------------------------------------------------------
(* DriverEntry: the driver object may fail. *)
DriverEntry ==
  /\ pc = "entry"
  /\ Goto("new") \/ Goto("gone")
  /\ UNCHANGED <<prepares, addVars, held, irqVars, req, running, cardVars>>

pal_spinlock_create == {{}, {"lock"}}

(* EvtDriverDeviceAdd: the queue may fail, the enabler is optional, and     *)
(* whether there is a lock nobody looks at.                                 *)
DeviceAdd ==
  /\ pc = "new"
  /\ \/ Goto("gone") /\ UNCHANGED <<enabler, held>>
     \/ /\ enabler' \in BOOLEAN
        /\ held' \in pal_spinlock_create
        /\ Goto("added")
  /\ UNCHANGED <<prepares, port, irqVars, req, running, cardVars>>

(* EvtDevicePrepareHardware                                                *)

Prepare ==
  /\ pc \in {"added", "released"} /\ prepares < MaxPrepares
  /\ prepares' = prepares + 1
  /\ Goto("bar0")
  /\ UNCHANGED <<addVars, held, irqVars, req, running, cardVars>>

(* A BAR that cannot be mapped fails the preparation; what is mapped stays  *)
(* until EvtDeviceReleaseHardware, which the framework then calls.          *)
MapMemory(bar, next) ==
  /\ pc = bar
  /\ \/ held' = held \cup {bar} /\ Goto(next)
     \/ Goto("r_stop") /\ UNCHANGED held
  /\ UNCHANGED <<prepares, addVars, irqVars, req, running, cardVars>>

MapBars ==
  \/ MapMemory("bar0", "bar1")
  \/ MapMemory("bar1", "bar2")
  \/ port = "memory" /\ MapMemory("bar2", "check")

(* An I/O port is logged and left alone: iobase_port stays NULL. *)
SkipPort ==
  /\ pc = "bar2" /\ port = "port"
  /\ Goto("check")
  /\ UNCHANGED <<prepares, addVars, held, irqVars, req, running, cardVars>>

CheckBars ==
  /\ pc = "check"
  /\ Goto(IF {"bar0", "bar1"} \subseteq held THEN "dma" ELSE "r_stop")
  /\ UNCHANGED <<prepares, addVars, held, irqVars, req, running, cardVars>>

AllocDma ==
  /\ pc = "dma"
  /\ held' \in {held} \cup (IF enabler THEN {held \cup {"dma_buf"}} ELSE {})
  /\ Goto("firmware")
  /\ UNCHANGED <<prepares, addVars, irqVars, req, running, cardVars>>

LoadFirmware ==
  /\ pc = "firmware"
  /\ \E F \in SUBSET Firmware : held' = held \cup F
  /\ Goto("init")
  /\ UNCHANGED <<prepares, addVars, irqVars, req, running, cardVars>>

(* motu424_full_init: its result is ignored.  The FPGA load and the         *)
(* kick-start use iobase_port; a malformed sequence ends it before the      *)
(* kick-start.  A new FPGA configuration may reset the registers.           *)
FullInit ==
  /\ pc = "init"
  /\ \/ /\ Has("bar2") \/ (~Has("fw_fpga_data") /\ Has("fw_init_data"))
        /\ IF Has("fw_fpga_data")
             THEN engine' \in {engine, FALSE} /\ intMask' \in {intMask, FALSE}
             ELSE UNCHANGED cardVars
        /\ Goto("irq")
     \/ /\ ~Has("bar2")
        /\ Goto("bugcheck")
        /\ UNCHANGED cardVars
  /\ UNCHANGED <<prepares, addVars, held, irqVars, req, running>>

(* The handler is stored first; then the interrupt object is created or not. *)
IrqRequest(created) ==
  /\ irqSet' = TRUE
  /\ IF created THEN interrupt' = TRUE ELSE UNCHANGED interrupt

RequestIrq ==
  /\ pc = "irq"
  /\ \/ IrqRequest(TRUE) /\ intMask' = TRUE
     \/ IrqRequest(FALSE) /\ UNCHANGED intMask
  /\ Goto("prepared")
  /\ UNCHANGED <<prepares, addVars, held, connected, isr, req, running, engine>>

-------------------------------------------------------------------------------
(* The framework: power, and the queue, which is power-managed.            *)

D0Entry ==
  /\ pc \in {"prepared", "low"}
  /\ connected' = interrupt
  /\ Goto("d0")
  /\ UNCHANGED <<prepares, addVars, held, irqSet, interrupt, isr, req, running, cardVars>>

(* Mutant: the queue is not power-managed. *)
D0Exit_QueueRuns ==
  /\ pc = "d0" /\ isr = "idle"
  /\ connected' = FALSE
  /\ Goto("r_stop")
  /\ UNCHANGED <<prepares, addVars, held, irqSet, interrupt, isr, req, running, cardVars>>

(* It leaves D0 for good once the request in hand is completed and the      *)
(* service routine has returned and is disconnected; then it releases.      *)
D0Exit ==
  /\ pc = "d0" /\ req = "none" /\ isr = "idle"
  /\ connected' = FALSE
  /\ Goto("r_stop")
  /\ UNCHANGED <<prepares, addVars, held, irqSet, interrupt, isr, req, running, cardVars>>

(* Sleep: the card loses its registers, and no callback writes them again. *)
Sleep ==
  /\ pc = "d0" /\ req = "none" /\ isr = "idle"
  /\ connected' = FALSE
  /\ engine' = FALSE /\ intMask' = FALSE
  /\ Goto("low")
  /\ UNCHANGED <<prepares, addVars, held, irqSet, interrupt, isr, req, running>>

(* pal_win_irq_handler and motu424_irq_callback, for any device on the line *)
IsrEnter ==
  /\ connected /\ isr = "idle" /\ pc # "bugcheck"
  /\ isr' = IF irqSet THEN "entered" ELSE "idle"
  /\ UNCHANGED <<pc, prepares, addVars, held, irqSet, interrupt, connected, req,
                 running, cardVars>>

IsrRead ==
  /\ isr = "entered" /\ pc # "bugcheck"
  /\ isr' = IF Has("bar1") THEN "body" ELSE "idle"
  /\ UNCHANGED <<pc, prepares, addVars, held, irqSet, interrupt, connected, req,
                 running, cardVars>>

IsrLeave ==
  /\ isr = "body" /\ pc # "bugcheck"
  /\ isr' = "idle"
  /\ UNCHANGED <<pc, prepares, addVars, held, irqSet, interrupt, connected, req,
                 running, cardVars>>

-------------------------------------------------------------------------------
(* EvtIoDeviceControl.  The queue presents one request at a time, in D0.    *)
Served == pc = "d0" /\ req = "none"

(* Mutant: STOP clears the flag and forgets the register. *)
IoctlEnd_FlagOnly ==
  /\ req # "none" /\ pc # "bugcheck"
  /\ engine' = (engine \/ req = "start")
  /\ running' = (req = "start")
  /\ req' = "none"
  /\ UNCHANGED <<pc, prepares, addVars, held, irqVars, intMask>>

(* START and STOP read PORT_CONF, then write it. *)
IoctlBegin ==
  /\ Served
  /\ req' \in IF Has("bar1") THEN {"start", "stop"} ELSE {"none"}
  /\ UNCHANGED <<pc, prepares, addVars, held, irqVars, running, cardVars>>

IoctlEnd ==
  /\ req # "none" /\ pc # "bugcheck"
  /\ engine' = (req = "start")
  /\ running' = (req = "start")
  /\ req' = "none"
  /\ UNCHANGED <<pc, prepares, addVars, held, irqVars, intMask>>

(* What IOCTL_MOTU424_GET_INFO answers, as far as it is told apart. *)
Info == [dma_running |-> running, port_conf |-> engine]

(* A register is read, which changes nothing if its BAR is mapped. *)
ReadFrom(bars) ==
  /\ Served
  /\ Goto(IF bars \subseteq held THEN pc ELSE "bugcheck")
  /\ UNCHANGED <<prepares, addVars, held, irqVars, req, running, cardVars>>

(* The queries answer 0 where nothing is mapped; READ_REG reads any BAR. *)
GetInfo == ReadFrom({"bar1", "bar2"} \cap held)
GetPosition == ReadFrom({"bar1"} \cap held)
GetStatus == ReadFrom({"bar2"} \cap held)
ReadReg(bar) == ReadFrom({bar})

(* IOCTL_MOTU424_WRITE_REG: any register of any BAR, behind the driver's    *)
(* back.                                                                    *)
WriteReg ==
  /\ Served
  /\ \/ engine' \in BOOLEAN /\ intMask' \in BOOLEAN /\ UNCHANGED pc
     \/ ~Has("bar2") /\ Goto("bugcheck") /\ UNCHANGED cardVars
  /\ UNCHANGED <<prepares, addVars, held, irqVars, req, running>>

-------------------------------------------------------------------------------
(* EvtDeviceReleaseHardware                                                *)

(* Mutant: the engine is not stopped. *)
HwStop_Skipped ==
  /\ pc = "r_stop"
  /\ UNCHANGED <<engine, running>>
  /\ Goto("r_mask")
  /\ UNCHANGED <<prepares, addVars, held, irqVars, req, intMask>>

HwStop ==
  /\ pc = "r_stop"
  /\ IF Has("bar1") THEN engine' = FALSE /\ running' = FALSE
                    ELSE UNCHANGED <<engine, running>>
  /\ Goto("r_mask")
  /\ UNCHANGED <<prepares, addVars, held, irqVars, req, intMask>>

Mask ==
  /\ pc = "r_mask"
  /\ intMask' = IF Has("bar1") THEN FALSE ELSE intMask
  /\ Goto("r_irq")
  /\ UNCHANGED <<prepares, addVars, held, irqVars, req, running, engine>>

(* pal_irq_free; the interrupt object itself the framework deletes. *)
IrqFree ==
  /\ pc = "r_irq"
  /\ irqSet' = FALSE /\ interrupt' = FALSE
  /\ Goto("r_dma")
  /\ UNCHANGED <<prepares, addVars, held, connected, isr, req, running, cardVars>>

Release(here, R, next) ==
  /\ pc = here
  /\ held' = held \ R
  /\ Goto(next)
  /\ UNCHANGED <<prepares, addVars, irqVars, req, running, cardVars>>

FreeDma == Release("r_dma", {"dma_buf"}, "r_firmware")

FreeFirmware == Release("r_firmware", Firmware, "r_unmap")

(* Mutant: a release for every BAR but the last. *)
UnmapBars_NotPort == Release("r_unmap", {"bar0", "bar1"}, "released")

UnmapBars == Release("r_unmap", Bars, "released")

(* EvtDeviceContextCleanup, when the device object is deleted. *)
ContextCleanup ==
  /\ pc \in {"added", "released"}
  /\ held' = held \ {"lock"}
  /\ Goto("gone")
  /\ UNCHANGED <<prepares, addVars, irqVars, req, running, cardVars>>

PrepareHardware ==
  \/ Prepare \/ MapBars \/ SkipPort \/ CheckBars \/ AllocDma \/ LoadFirmware \/ FullInit
  \/ RequestIrq

ReleaseHardware ==
  \/ HwStop \/ Mask \/ IrqFree \/ FreeDma \/ FreeFirmware \/ UnmapBars

Isr == IsrEnter \/ IsrRead \/ IsrLeave
Reading == GetInfo \/ GetPosition \/ GetStatus \/ \E bar \in Bars : ReadReg(bar)
Request == IoctlBegin \/ IoctlEnd \/ Reading \/ WriteReg

Terminated == pc \in {"gone", "bugcheck"} /\ UNCHANGED vars

Next ==
  \/ DriverEntry \/ DeviceAdd \/ PrepareHardware \/ D0Entry \/ D0Exit \/ Sleep
  \/ Isr \/ Request \/ ReleaseHardware \/ ContextCleanup \/ Terminated

Spec == Init /\ [][Next]_vars

-------------------------------------------------------------------------------
(* Properties                                                              *)

(* A request between its read and its write of PORT_CONF, and an interrupt  *)
(* service routine past its test of iobase_reg, keep the registers mapped.  *)
(* (neither takes a lock; the queue and the interrupt are the framework's)  *)
MappedWhileUsed == req # "none" \/ isr = "body" => Has("bar1")

(* After a release, also that of a preparation that failed part way, nothing *)
(* but the lock is left, so that the next preparation overwrites nothing;    *)
(* when the device goes the lock goes too.                                   *)
ReleaseComplete ==
  /\ pc = "released" => held \subseteq {"lock"} /\ ~irqSet /\ ~connected
  /\ pc = "gone" => held = {}

(* The buffer is freed and the registers are unmapped only when the engine   *)
(* is stopped, even one started by a raw register write.                     *)
StopsBeforeFree ==
  [][\A r \in {"dma_buf", "bar1"} : Has(r) /\ r \notin held' => ~engine]_vars
===============================================================================
