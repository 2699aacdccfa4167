----------------------------- MODULE Motu424Probe -----------------------------
(***************************************************************************)
(* The life of the card under Linux: motu424_probe, which may fail at any  *)
(* of its calls, motu424_remove, motu424_free, which both end with, and    *)
(* the interrupt handler, which another CPU may enter whenever it is       *)
(* registered because the line is shared (source/linux/motu424_alsa.c and  *)
(* motu424_linux_pal.c).                                                   *)
(***************************************************************************)
EXTENDS Integers

CONSTANT MaxProbes   \* bound: the times the driver is bound to the card

ASSUME MaxProbesAssumption == MaxProbes \in Nat \ {0}

(* What motu424_free gives back one by one, by the field that holds it. *)
Bars == {"iobase_dsp", "iobase_reg", "iobase_port"}
Firmware == {"fw_fpga", "fw_init"}
Resources == Bars \cup Firmware \cup {"lock", "dma_buf"}

VARIABLES
  pc,            \* the thread of probe, remove or free
  probes,        \* the probes begun
  held,          \* the fields of motu424_linux that are not NULL
  enabled,       \* pci->enable_cnt
  owner,         \* of the PCI regions: "none", "other" or "us"
  added,         \* pci_dev_is_added: FALSE while the bus is being scanned
  onLine,        \* the kernel calls pal_linux_irq
  handler, ctx,  \* pal_device.irq_handler and irq_ctx are not NULL
  hpc,           \* the handler on another CPU
  stream,        \* a client's substream
  intMask,       \* the card: interrupts enabled
  engine         \* the card: the DMA engine runs

cardVars == <<intMask, engine>>
irqVars == <<onLine, handler, ctx, hpc>>
pciVars == <<enabled, owner, added>>
vars == <<pc, probes, held, pciVars, irqVars, stream, cardVars>>

Probing == {"probe", "enable", "mask", "regions", "map", "dma", "firmware", "init",
            "irq", "irq_handler", "irq_ctx", "unmask", "pcm", "register"}
Freeing == {"f_mask", "f_stop", "f_irq", "f_sync", "f_dma", "f_firmware", "f_unmap",
            "f_lock", "f_pci"}

TypeOK ==
  /\ pc \in Probing \cup Freeing \cup {"bound", "disconnect", "gone", "panic"}
  /\ probes \in 0..MaxProbes
  /\ held \subseteq Resources
  /\ enabled \in -MaxProbes..1
  /\ owner \in {"none", "other", "us"}
  /\ added \in BOOLEAN
  /\ onLine \in BOOLEAN /\ handler \in BOOLEAN /\ ctx \in BOOLEAN
  /\ hpc \in {"idle", "entered", "called", "body"}
  /\ stream \in {"closed", "open", "running"}
  /\ intMask \in BOOLEAN /\ engine \in BOOLEAN

(* The card as a reset, or a kernel that crashed, left it. *)
Init ==
  /\ pc = "probe" /\ probes = 0
  /\ held = {}
  /\ enabled = 0 /\ owner \in {"none", "other"} /\ added \in BOOLEAN
  /\ onLine = FALSE /\ handler = FALSE /\ ctx = FALSE /\ hpc = "idle"
  /\ stream = "closed"
  /\ intMask \in BOOLEAN /\ engine \in BOOLEAN

-------------------------------------------------------------------------------
(* motu424_probe: every call may fail, and a failure goes to err_card,     *)
(* where snd_card_free calls motu424_free.                                 *)

At(here) == pc = here
Goto(next) == pc' = next
Fails == Goto("f_mask")

(* What the platform layer answers; a failed pci_iomap gives NULL for a BAR, *)
(* a failed allocation no lock.                                             *)
pal_pci_enable(err) == enabled' = IF err THEN enabled ELSE enabled + 1
pal_iomap == SUBSET Bars
pal_dma_alloc(err) == held' = IF err THEN held ELSE held \cup {"dma_buf"}
pal_spinlock_create == {{}, {"lock"}}

(* snd_card_new: a failure is returned at once.  The lock may not be       *)
(* allocated, which nothing looks at.                                      *)
SndCardNew ==
  /\ At("probe") /\ probes < MaxProbes
  /\ probes' = probes + 1
  /\ \/ Goto("gone") /\ UNCHANGED <<held, handler, ctx>>
     \/ /\ held' \in pal_spinlock_create
        /\ handler' = FALSE /\ ctx' = FALSE
        /\ Goto("enable")
  /\ UNCHANGED <<pciVars, onLine, hpc, stream, cardVars>>

EnablePci ==
  /\ At("enable")
  /\ \E err \in BOOLEAN : pal_pci_enable(err) /\ IF err THEN Fails ELSE Goto("mask")
  /\ UNCHANGED <<probes, held, owner, added, irqVars, stream, cardVars>>

SetDmaMask ==
  /\ At("mask")
  /\ Goto("regions") \/ Fails
  /\ UNCHANGED <<probes, held, pciVars, irqVars, stream, cardVars>>

RequestRegions ==
  /\ At("regions")
  /\ IF owner = "none" THEN owner' = "us" /\ Goto("map")
                       ELSE Fails /\ UNCHANGED owner
  /\ UNCHANGED <<probes, held, enabled, added, irqVars, stream, cardVars>>

MapBars ==
  /\ At("map")
  /\ \E B \in pal_iomap :
       /\ held' = held \cup B
       /\ IF B = Bars THEN Goto("dma") ELSE Fails
  /\ UNCHANGED <<probes, pciVars, irqVars, stream, cardVars>>

AllocDma ==
  /\ At("dma")
  /\ \E err \in BOOLEAN :
       pal_dma_alloc(err) /\ IF err THEN Fails ELSE Goto("firmware")
  /\ UNCHANGED <<probes, pciVars, irqVars, stream, cardVars>>

RequestFirmware ==
  /\ At("firmware")
  /\ \E F \in SUBSET Firmware : held' = held \cup F
  /\ Goto("init")
  /\ UNCHANGED <<probes, pciVars, irqVars, stream, cardVars>>

(* Its result is ignored.  A new FPGA configuration may reset the registers. *)
FullInit ==
  /\ At("init")
  /\ IF "fw_fpga" \in held
       THEN engine' \in {engine, FALSE} /\ intMask' \in {intMask, FALSE}
       ELSE UNCHANGED cardVars
  /\ Goto("irq")
  /\ UNCHANGED <<probes, held, pciVars, irqVars, stream>>

(* pal_irq_request: request_irq, then two stores the handler reads. *)
RequestIrq ==
  /\ At("irq")
  /\ \/ onLine' = TRUE /\ Goto("irq_handler")
     \/ Fails /\ UNCHANGED onLine
  /\ UNCHANGED <<probes, held, pciVars, handler, ctx, hpc, stream, cardVars>>

StoreHandler ==
  /\ At("irq_handler")
  /\ handler' = TRUE
  /\ Goto("irq_ctx")
  /\ UNCHANGED <<probes, held, pciVars, onLine, ctx, hpc, stream, cardVars>>

StoreCtx ==
  /\ At("irq_ctx")
  /\ ctx' = TRUE
  /\ Goto("unmask")
  /\ UNCHANGED <<probes, held, pciVars, onLine, handler, hpc, stream, cardVars>>

Unmask ==
  /\ At("unmask")
  /\ intMask' = TRUE
  /\ Goto("pcm")
  /\ UNCHANGED <<probes, held, pciVars, irqVars, stream, engine>>

(* motu424_pcm_new and snd_card_register *)
PcmNew ==
  /\ At("pcm")
  /\ Goto("register") \/ Fails
  /\ UNCHANGED <<probes, held, pciVars, irqVars, stream, cardVars>>

Register ==
  /\ At("register")
  /\ Goto("bound") \/ Fails
  /\ UNCHANGED <<probes, held, pciVars, irqVars, stream, cardVars>>

-------------------------------------------------------------------------------
(* A client of the registered card.  Prepare and trigger take the lock:    *)
(* without one the kernel dies there.                                      *)

Open ==
  /\ At("bound") /\ stream = "closed"
  /\ stream' = "open"
  /\ UNCHANGED <<pc, probes, held, pciVars, irqVars, cardVars>>

Start ==
  /\ At("bound") /\ stream = "open"
  /\ IF "lock" \in held
       THEN engine' = TRUE /\ stream' = "running" /\ UNCHANGED pc
       ELSE Goto("panic") /\ UNCHANGED <<engine, stream>>
  /\ UNCHANGED <<probes, held, pciVars, irqVars, intMask>>

Stop ==
  /\ pc \in {"bound", "disconnect"} /\ stream = "running"
  /\ engine' = FALSE /\ stream' = "open"
  /\ UNCHANGED <<pc, probes, held, pciVars, irqVars, intMask>>

Close ==
  /\ pc \in {"bound", "disconnect"} /\ stream = "open"
  /\ stream' = "closed"
  /\ UNCHANGED <<pc, probes, held, pciVars, irqVars, cardVars>>

-------------------------------------------------------------------------------
(* motu424_remove: snd_card_free refuses new clients and waits for the     *)
(* last one to close before it calls motu424_free.                         *)

Remove ==
  /\ At("bound")
  /\ Goto("disconnect")
  /\ UNCHANGED <<probes, held, pciVars, irqVars, stream, cardVars>>

Disconnected ==
  /\ At("disconnect") /\ stream = "closed"
  /\ Goto("f_mask")
  /\ UNCHANGED <<probes, held, pciVars, irqVars, stream, cardVars>>

(* motu424_free *)

(* Mutant: interrupts stay enabled. *)
FreeMask_Skipped ==
  /\ At("f_mask")
  /\ UNCHANGED intMask
  /\ Goto(IF "iobase_reg" \in held THEN "f_stop" ELSE "f_irq")
  /\ UNCHANGED <<probes, held, pciVars, irqVars, stream, engine>>

FreeMask ==
  /\ At("f_mask")
  /\ intMask' = IF "iobase_reg" \in held THEN FALSE ELSE intMask
  /\ Goto(IF "iobase_reg" \in held THEN "f_stop" ELSE "f_irq")
  /\ UNCHANGED <<probes, held, pciVars, irqVars, stream, engine>>

(* Mutant: motu424_hw_stop is left out. *)
HwStop_Skipped ==
  /\ At("f_stop")
  /\ UNCHANGED engine
  /\ Goto("f_irq")
  /\ UNCHANGED <<probes, held, pciVars, irqVars, stream, intMask>>

HwStop ==
  /\ At("f_stop")
  /\ engine' = FALSE
  /\ Goto("f_irq")
  /\ UNCHANGED <<probes, held, pciVars, irqVars, stream, intMask>>

(* Mutant: the handler stays on the line while free_irq waits. *)
FreeIrq_KeepsLine ==
  /\ At("f_irq")
  /\ Goto(IF onLine THEN "f_sync" ELSE "f_dma")
  /\ UNCHANGED <<probes, held, pciVars, irqVars, stream, cardVars>>

(* pal_irq_free: free_irq takes the handler off the line and waits until no *)
(* CPU runs it.                                                             *)
FreeIrq ==
  /\ At("f_irq")
  /\ onLine' = FALSE
  /\ Goto(IF onLine THEN "f_sync" ELSE "f_dma")
  /\ UNCHANGED <<probes, held, pciVars, handler, ctx, hpc, stream, cardVars>>

(* Mutant: free_irq does not wait (disable_irq_nosync and the like). *)
SyncIrq_NoWait ==
  /\ At("f_sync")
  /\ Goto("f_dma")
  /\ UNCHANGED <<probes, held, pciVars, irqVars, stream, cardVars>>

SyncIrq ==
  /\ At("f_sync") /\ hpc = "idle"
  /\ Goto("f_dma")
  /\ UNCHANGED <<probes, held, pciVars, irqVars, stream, cardVars>>

Release(here, R, next) ==
  /\ At(here)
  /\ held' = held \ R
  /\ Goto(next)
  /\ UNCHANGED <<probes, pciVars, irqVars, stream, cardVars>>

FreeDma == Release("f_dma", {"dma_buf"}, "f_firmware")

(* Mutant: the init sequence is forgotten. *)
FreeFirmware_One == Release("f_firmware", {"fw_fpga"}, "f_unmap")

FreeFirmware == Release("f_firmware", Firmware, "f_unmap")

UnmapBars == Release("f_unmap", Bars, "f_lock")

FreeLock == Release("f_lock", {"lock"}, "f_pci")

(* Mutant: motu424_remove disables the device as well. *)
ReleasePci_Twice ==
  /\ At("f_pci")
  /\ IF added THEN owner' = "none" /\ enabled' = enabled - 2
              ELSE UNCHANGED <<owner, enabled>>
  /\ Goto("gone")
  /\ UNCHANGED <<probes, held, added, irqVars, stream, cardVars>>

(* pci_release_regions frees the regions whoever requested them, and        *)
(* pci_disable_device counts down whether or not the device was enabled.    *)
ReleasePci ==
  /\ At("f_pci")
  /\ IF added THEN owner' = "none" /\ enabled' = enabled - 1
              ELSE UNCHANGED <<owner, enabled>>
  /\ Goto("gone")
  /\ UNCHANGED <<probes, held, added, irqVars, stream, cardVars>>

(* The driver is bound again.  A device not added keeps its regions and its *)
(* count for good: what a later probe makes of that is not followed.        *)
Rebind ==
  /\ At("gone") /\ probes < MaxProbes /\ added
  /\ Goto("probe")
  /\ UNCHANGED <<probes, held, pciVars, irqVars, stream, cardVars>>

-------------------------------------------------------------------------------
(* pal_linux_irq on another CPU, for the card or for another device on the  *)
(* line; it reads irq_handler, irq_ctx and the register one after the other. *)

IrqEnter ==
  /\ onLine /\ hpc = "idle" /\ pc # "panic"
  /\ hpc' = "entered"
  /\ UNCHANGED <<pc, probes, held, pciVars, onLine, handler, ctx, stream, cardVars>>

IrqTest ==
  /\ hpc = "entered" /\ pc # "panic"
  /\ hpc' = IF handler THEN "called" ELSE "idle"
  /\ UNCHANGED <<pc, probes, held, pciVars, onLine, handler, ctx, stream, cardVars>>

(* motu424_irq_handler(irq_ctx): a NULL context is the end. *)
IrqCall ==
  /\ hpc = "called" /\ pc # "panic"
  /\ IF ctx THEN hpc' = "body" /\ UNCHANGED pc
            ELSE Goto("panic") /\ UNCHANGED hpc
  /\ UNCHANGED <<probes, held, pciVars, onLine, handler, ctx, stream, cardVars>>

IrqLeave ==
  /\ hpc = "body" /\ pc # "panic"
  /\ hpc' = "idle"
  /\ UNCHANGED <<pc, probes, held, pciVars, onLine, handler, ctx, stream, cardVars>>

Probe ==
  \/ SndCardNew \/ EnablePci \/ SetDmaMask \/ RequestRegions \/ MapBars \/ AllocDma
  \/ RequestFirmware \/ FullInit \/ RequestIrq \/ StoreHandler \/ StoreCtx \/ Unmask
  \/ PcmNew \/ Register

Free ==
  \/ FreeMask \/ HwStop \/ FreeIrq \/ SyncIrq \/ FreeDma \/ FreeFirmware \/ UnmapBars
  \/ FreeLock \/ ReleasePci

Client == Open \/ Start \/ Stop \/ Close
Irq == IrqEnter \/ IrqTest \/ IrqCall \/ IrqLeave

Ended == pc = "panic" \/ (pc = "gone" /\ (probes = MaxProbes \/ ~added))
Terminated == Ended /\ UNCHANGED vars

Next == Probe \/ Free \/ Client \/ Remove \/ Disconnected \/ Rebind \/ Irq \/ Terminated

(* The threads of probe, remove and free run on, a handler returns, and a   *)
(* client whose card is gone stops and closes.                              *)
Spec ==
  /\ Init /\ [][Next]_vars
  /\ WF_vars(Probe) /\ WF_vars(Free) /\ WF_vars(Disconnected)
  /\ WF_vars(IrqTest \/ IrqCall \/ IrqLeave)
  /\ WF_vars(At("disconnect") /\ (Stop \/ Close))

-------------------------------------------------------------------------------
(* Properties                                                              *)

(* While the handler runs in the driver the registers it reads are mapped,  *)
(* and while it runs at all the card it belongs to exists.                  *)
(* (request_irq after the mapping; free_irq, which waits, before unmapping) *)
HandlerSafe ==
  /\ hpc # "idle" => pc \notin {"probe", "gone", "f_unmap", "f_lock", "f_pci"}
  /\ hpc = "body" => "iobase_reg" \in held

(* A probe that failed anywhere, or a card removed, leaves nothing behind:  *)
(* no memory, mapping, handler, and no regions of a device the bus knows.   *)
(* (the NULL tests of motu424_free, for every failure of motu424_probe)     *)
LeavesNothing ==
  pc = "gone" =>
    /\ held = {} /\ ~onLine
    /\ added => owner # "us" /\ enabled <= 0

(* The buffer is not given back, nor the registers unmapped, while the      *)
(* engine of the card may still move data, even one an earlier kernel left  *)
(* running.  (the stop comes first in motu424_free)                         *)
StopsBeforeFree ==
  [][\A r \in {"dma_buf", "iobase_reg"} : r \in held /\ r \notin held' => ~engine]_vars

(* Interrupts are enabled only once the handler and its context are there,  *)
(* and the handler leaves the line only when they are disabled.             *)
UnmaskedIsHandled ==
  [][/\ ~intMask /\ intMask' => onLine /\ handler /\ ctx
     /\ onLine /\ ~onLine' => ~intMask]_vars

(* Removing the card always comes to an end, however a handler and a client *)
(* interleave with it.  (snd_card_free waits for clients, free_irq for CPUs) *)
RemoveEnds == pc = "disconnect" ~> pc \in {"gone", "panic"}
===============================================================================
