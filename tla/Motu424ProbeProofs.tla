-------------------------- MODULE Motu424ProbeProofs --------------------------
(***************************************************************************)
(* Proofs about Motu424Probe, for any number of probes.  The invariant     *)
(* says what each point of the probe has acquired and each point of free   *)
(* has given back; the properties follow from it.                          *)
(***************************************************************************)
EXTENDS Motu424Probe, TLAPS

(* Where the line is ours, and where the card is being taken apart with its *)
(* engine stopped and its interrupts disabled.                              *)
WithIrq == {"irq_handler", "irq_ctx", "unmask", "pcm", "register", "bound", "disconnect"}
WithBars == WithIrq \cup {"dma", "firmware", "init", "irq"}
Stopped == {"f_irq", "f_sync", "f_dma", "f_firmware", "f_unmap"}
BeforeIrqFreed == WithIrq \cup {"f_mask", "f_stop", "f_irq", "panic"}

(* The interrupt: how far it is set up, and that what it uses is mapped. *)
IrqInv ==
  /\ pc \in WithIrq => onLine
  /\ onLine => pc \in BeforeIrqFreed
  /\ pc = "irq_ctx" => handler
  /\ pc = "unmask" => handler
  /\ onLine => ctx \/ pc \in {"irq_handler", "irq_ctx", "panic"}
  /\ pc = "f_sync" => ctx
  /\ hpc # "idle" => onLine \/ pc = "f_sync"
  /\ onLine \/ pc = "f_sync" => "iobase_reg" \in held

(* What is held on the way up and on the way down. *)
HeldInv ==
  /\ pc \in WithBars => "iobase_reg" \in held
  /\ "dma_buf" \in held => "iobase_reg" \in held
  /\ pc = "f_firmware" => "dma_buf" \notin held
  /\ pc = "f_unmap" => held \subseteq Bars \cup {"lock"}
  /\ pc = "f_lock" => held \subseteq {"lock"}
  /\ pc \in {"probe", "gone", "f_pci"} => held = {}

(* The card is quiet once motu424_free has had the registers. *)
CardInv ==
  /\ pc \in Stopped /\ "iobase_reg" \in held => ~engine
  /\ pc \in Stopped \cup {"f_stop"} /\ "iobase_reg" \in held => ~intMask

(* The enable count and the regions. *)
PciInv ==
  /\ enabled <= 1 /\ enabled >= 1 - probes - (IF pc \in {"probe", "gone"} THEN 1 ELSE 0)
  /\ pc \in {"probe", "enable"} \/ (pc = "gone" /\ added) => owner # "us" /\ enabled <= 0

IInv == TypeOK /\ IrqInv /\ HeldInv /\ CardInv /\ PciInv

LEMMA ProbeInit == Init => IInv
<1> SUFFICES ASSUME Init PROVE IInv
    OBVIOUS
<1> USE MaxProbesAssumption
<1>1. enabled \in -MaxProbes..1 /\ probes \in 0..MaxProbes
      BY DEF Init
<1>2. TypeOK
      BY <1>1 DEF Init, TypeOK, Probing
<1>3. IrqInv /\ HeldInv /\ CardInv
      BY DEF Init, IrqInv, HeldInv, CardInv, WithIrq, WithBars, Stopped
<1>4. PciInv
      BY DEF Init, PciInv
<1> QED BY <1>2, <1>3, <1>4 DEF IInv

(* Every step keeps the invariant. *)
LEMMA ProbeStep == IInv /\ [Next]_vars => IInv'
<1> SUFFICES ASSUME IInv, [Next]_vars PROVE IInv'
    OBVIOUS
<1> USE MaxProbesAssumption
    DEF IInv, TypeOK, IrqInv, HeldInv, CardInv, PciInv, Probing, Freeing, WithIrq,
        WithBars, Stopped, BeforeIrqFreed, Resources, Bars, Firmware, pciVars, irqVars,
        cardVars, At, Goto, Fails
<1>1. CASE SndCardNew
  <2>1. TypeOK'
    <3>1. held' \subseteq Resources
          BY <1>1 DEF SndCardNew, pal_spinlock_create
    <3>2. handler' \in BOOLEAN /\ ctx' \in BOOLEAN
          BY <1>1, ZenonT(30) DEF SndCardNew, pal_spinlock_create
    <3>3. probes' \in 0..MaxProbes /\ pc' \in {"gone", "enable"}
          BY <1>1 DEF SndCardNew, pal_spinlock_create
    <3>4. UNCHANGED <<pciVars, onLine, hpc, stream, cardVars>>
          BY <1>1 DEF SndCardNew, pal_spinlock_create
    <3> QED BY <3>1, <3>2, <3>3, <3>4
  <2>2. IrqInv'
        BY <1>1 DEF SndCardNew, pal_spinlock_create
  <2>3. HeldInv'
        BY <1>1 DEF SndCardNew, pal_spinlock_create
  <2>4. CardInv'
        BY <1>1 DEF SndCardNew, pal_spinlock_create
  <2>5. PciInv'
        BY <1>1 DEF SndCardNew, pal_spinlock_create
  <2> QED BY <2>1, <2>2, <2>3, <2>4, <2>5
<1>2. CASE EnablePci
      BY <1>2 DEF EnablePci, pal_pci_enable
<1>3. CASE SetDmaMask
      BY <1>3 DEF SetDmaMask
<1>4. CASE RequestRegions
      BY <1>4 DEF RequestRegions
<1>5. CASE MapBars
      BY <1>5 DEF MapBars, pal_iomap
<1>6. CASE AllocDma
  <2>1. TypeOK'
    <3>1. held' \subseteq held \cup {"dma_buf"} /\ pc' \in {"firmware", "f_mask"}
          BY <1>6 DEF AllocDma, pal_dma_alloc
    <3>2. UNCHANGED <<probes, pciVars, irqVars, stream, cardVars>>
          BY <1>6 DEF AllocDma, pal_dma_alloc
    <3> QED BY <3>1, <3>2
  <2>2. IrqInv'
        BY <1>6 DEF AllocDma, pal_dma_alloc
  <2>3. HeldInv'
        BY <1>6 DEF AllocDma, pal_dma_alloc
  <2>4. CardInv'
        BY <1>6 DEF AllocDma, pal_dma_alloc
  <2>5. PciInv'
        BY <1>6 DEF AllocDma, pal_dma_alloc
  <2> QED BY <2>1, <2>2, <2>3, <2>4, <2>5
<1>7. CASE RequestFirmware
  <2>1. TypeOK'
    <3>1. held' \subseteq held \cup Firmware /\ pc' = "init"
          BY <1>7 DEF RequestFirmware
    <3>2. UNCHANGED <<probes, pciVars, irqVars, stream, cardVars>>
          BY <1>7 DEF RequestFirmware
    <3> QED BY <3>1, <3>2
  <2>2. IrqInv'
        BY <1>7 DEF RequestFirmware
  <2>3. HeldInv'
        BY <1>7 DEF RequestFirmware
  <2>4. CardInv'
        BY <1>7 DEF RequestFirmware
  <2>5. PciInv'
        BY <1>7 DEF RequestFirmware
  <2> QED BY <2>1, <2>2, <2>3, <2>4, <2>5
<1>8. CASE FullInit
  <2>1. TypeOK'
        BY <1>8 DEF FullInit
  <2>2. IrqInv'
        BY <1>8 DEF FullInit
  <2>3. HeldInv'
        BY <1>8 DEF FullInit
  <2>4. CardInv'
        BY <1>8 DEF FullInit
  <2>5. PciInv'
        BY <1>8 DEF FullInit
  <2> QED BY <2>1, <2>2, <2>3, <2>4, <2>5
<1>9. CASE RequestIrq
  <2>1. TypeOK'
    <3>1. onLine' \in BOOLEAN /\ pc' \in {"irq_handler", "f_mask"}
          BY <1>9 DEF RequestIrq
    <3>2. UNCHANGED <<probes, held, pciVars, handler, ctx, hpc, stream, cardVars>>
          BY <1>9 DEF RequestIrq
    <3> QED BY <3>1, <3>2
  <2>2. IrqInv'
        BY <1>9 DEF RequestIrq
  <2>3. HeldInv'
        BY <1>9 DEF RequestIrq
  <2>4. CardInv'
        BY <1>9 DEF RequestIrq
  <2>5. PciInv'
        BY <1>9 DEF RequestIrq
  <2> QED BY <2>1, <2>2, <2>3, <2>4, <2>5
<1>10. CASE StoreHandler
      BY <1>10 DEF StoreHandler
<1>11. CASE StoreCtx
      BY <1>11 DEF StoreCtx
<1>12. CASE Unmask
      BY <1>12 DEF Unmask
<1>13. CASE PcmNew
      BY <1>13 DEF PcmNew
<1>14. CASE Register
      BY <1>14 DEF Register
<1>15. CASE FreeMask
  <2>1. TypeOK'
        BY <1>15 DEF FreeMask
  <2>2. IrqInv'
        BY <1>15 DEF FreeMask
  <2>3. HeldInv'
        BY <1>15 DEF FreeMask
  <2>4. CardInv'
        BY <1>15 DEF FreeMask
  <2>5. PciInv'
        BY <1>15 DEF FreeMask
  <2> QED BY <2>1, <2>2, <2>3, <2>4, <2>5
<1>16. CASE HwStop
  <2>1. TypeOK'
        BY <1>16 DEF HwStop
  <2>2. IrqInv'
        BY <1>16 DEF HwStop
  <2>3. HeldInv'
        BY <1>16 DEF HwStop
  <2>4. CardInv'
        BY <1>16 DEF HwStop
  <2>5. PciInv'
        BY <1>16 DEF HwStop
  <2> QED BY <2>1, <2>2, <2>3, <2>4, <2>5
<1>17. CASE FreeIrq
  <2>1. TypeOK'
        BY <1>17 DEF FreeIrq
  <2>2. IrqInv'
        BY <1>17 DEF FreeIrq
  <2>3. HeldInv'
        BY <1>17 DEF FreeIrq
  <2>4. CardInv'
        BY <1>17 DEF FreeIrq
  <2>5. PciInv'
        BY <1>17 DEF FreeIrq
  <2> QED BY <2>1, <2>2, <2>3, <2>4, <2>5
<1>18. CASE SyncIrq
      BY <1>18 DEF SyncIrq
<1>19. CASE FreeDma
      BY <1>19 DEF FreeDma, Release
<1>20. CASE FreeFirmware
      BY <1>20 DEF FreeFirmware, Release
<1>21. CASE UnmapBars
      BY <1>21 DEF UnmapBars, Release
<1>22. CASE FreeLock
      BY <1>22 DEF FreeLock, Release
<1>23. CASE ReleasePci
      BY <1>23 DEF ReleasePci
<1>24. CASE Open
      BY <1>24 DEF Open
<1>25. CASE Start
  <2>1. TypeOK'
        BY <1>25 DEF Start
  <2>2. IrqInv'
        BY <1>25 DEF Start
  <2>3. HeldInv'
        BY <1>25 DEF Start
  <2>4. CardInv'
        BY <1>25 DEF Start
  <2>5. PciInv'
        BY <1>25 DEF Start
  <2> QED BY <2>1, <2>2, <2>3, <2>4, <2>5
<1>26. CASE Stop
  <2>1. TypeOK'
        BY <1>26 DEF Stop
  <2>2. IrqInv'
        BY <1>26 DEF Stop
  <2>3. HeldInv'
        BY <1>26 DEF Stop
  <2>4. CardInv'
        BY <1>26 DEF Stop
  <2>5. PciInv'
        BY <1>26 DEF Stop
  <2> QED BY <2>1, <2>2, <2>3, <2>4, <2>5
<1>27. CASE Close
      BY <1>27 DEF Close
<1>28. CASE Remove
      BY <1>28 DEF Remove
<1>29. CASE Disconnected
      BY <1>29 DEF Disconnected
<1>30. CASE Rebind
      BY <1>30 DEF Rebind
<1>31. CASE IrqEnter
      BY <1>31 DEF IrqEnter
<1>32. CASE IrqTest
  <2>1. TypeOK'
        BY <1>32 DEF IrqTest
  <2>2. IrqInv'
        BY <1>32 DEF IrqTest
  <2>3. HeldInv'
        BY <1>32 DEF IrqTest
  <2>4. CardInv'
        BY <1>32 DEF IrqTest
  <2>5. PciInv'
        BY <1>32 DEF IrqTest
  <2> QED BY <2>1, <2>2, <2>3, <2>4, <2>5
<1>33. CASE IrqCall
  <2>1. TypeOK'
        BY <1>33 DEF IrqCall
  <2>2. IrqInv'
        BY <1>33 DEF IrqCall
  <2>3. HeldInv'
        BY <1>33 DEF IrqCall
  <2>4. CardInv'
        BY <1>33 DEF IrqCall
  <2>5. PciInv'
        BY <1>33 DEF IrqCall
  <2> QED BY <2>1, <2>2, <2>3, <2>4, <2>5
<1>34. CASE IrqLeave
      BY <1>34 DEF IrqLeave
<1>35. CASE UNCHANGED vars
      BY <1>35 DEF vars
<1> QED
    BY <1>1, <1>2, <1>3, <1>4, <1>5, <1>6, <1>7, <1>8, <1>9, <1>10, <1>11,
       <1>12, <1>13, <1>14, <1>15, <1>16, <1>17, <1>18, <1>19, <1>20, <1>21,
       <1>22, <1>23, <1>24, <1>25, <1>26, <1>27, <1>28, <1>29, <1>30, <1>31,
       <1>32, <1>33, <1>34, <1>35
    DEF Next, Probe, Free, Client, Irq, Terminated

THEOREM Invariance == Spec => []IInv
<1>1. Init => IInv
      BY ProbeInit
<1>2. IInv /\ [Next]_vars => IInv'
      BY ProbeStep
<1> QED BY <1>1, <1>2, PTL DEF Spec

(* Every variable keeps its type, and the enable count its limits: one free *)
(* undoes at most one enable.                                               *)
THEOREM TypeCorrect == Spec => []TypeOK
<1>1. IInv => TypeOK
      BY DEF IInv
<1> QED BY <1>1, Invariance, PTL

(* The handler finds the card and its registers for as long as it runs,     *)
(* through every failure of the probe and every removal.                    *)
THEOREM HandlerIsSafe == Spec => []HandlerSafe
<1>1. IInv => HandlerSafe
      BY DEF IInv, IrqInv, BeforeIrqFreed, WithIrq, HandlerSafe
<1> QED BY <1>1, Invariance, PTL

(* Whichever call failed, nothing is left behind. *)
THEOREM NothingLeft == Spec => []LeavesNothing
<1>1. IInv => LeavesNothing
      BY DEF IInv, IrqInv, HeldInv, PciInv, BeforeIrqFreed, WithIrq, LeavesNothing
<1> QED BY <1>1, Invariance, PTL

(* A step that gives back the buffer or the registers: one of motu424_free. *)
LEMMA StopsStep ==
  IInv /\ [Next]_vars =>
    \A r \in {"dma_buf", "iobase_reg"} : r \in held /\ r \notin held' => ~engine
<1> SUFFICES ASSUME IInv, [Next]_vars, NEW r \in {"dma_buf", "iobase_reg"},
                    r \in held, r \notin held'
             PROVE  ~engine
    OBVIOUS
<1>1. pc # "probe"
      BY DEF IInv, HeldInv
<1>2. pc \in Stopped /\ "iobase_reg" \in held
  <2>1. CASE FreeDma
        BY <2>1 DEF FreeDma, Release, At, IInv, HeldInv, Stopped
  <2>2. CASE FreeFirmware
        BY <2>2 DEF FreeFirmware, Release, At, Firmware
  <2>3. CASE UnmapBars
        BY <2>3 DEF UnmapBars, Release, At, IInv, HeldInv, Bars, Stopped
  <2>4. CASE FreeLock
        BY <2>4 DEF FreeLock, Release, At
  <2>5. held \subseteq held' \/ FreeDma \/ FreeFirmware \/ UnmapBars \/ FreeLock
        BY <1>1
        DEF Next, vars, Probe, Free, Client, Irq, Terminated, At, SndCardNew, EnablePci,
            SetDmaMask, RequestRegions, MapBars, AllocDma, RequestFirmware, FullInit,
            RequestIrq, StoreHandler, StoreCtx, Unmask, PcmNew, Register, FreeMask, HwStop,
            FreeIrq, SyncIrq, ReleasePci, Open, Start, Stop, Close, Remove, Disconnected,
            Rebind, IrqEnter, IrqTest, IrqCall, IrqLeave, pal_dma_alloc
  <2> QED BY <2>1, <2>2, <2>3, <2>4, <2>5
<1> QED BY <1>2 DEF IInv, CardInv

(* The engine is stopped before what it uses is given back. *)
THEOREM StopsFirst == Spec => StopsBeforeFree
<1>1. IInv /\ [Next]_vars =>
        [\A r \in {"dma_buf", "iobase_reg"} :
           r \in held /\ r \notin held' => ~engine]_vars
      BY StopsStep
<1> QED BY <1>1, Invariance, PTL DEF Spec, StopsBeforeFree

LEMMA MaskStep ==
  IInv /\ [Next]_vars =>
    /\ ~intMask /\ intMask' => onLine /\ handler /\ ctx
    /\ onLine /\ ~onLine' => ~intMask
<1> SUFFICES ASSUME IInv, [Next]_vars
             PROVE  /\ ~intMask /\ intMask' => onLine /\ handler /\ ctx
                    /\ onLine /\ ~onLine' => ~intMask
    OBVIOUS
<1>1. CASE Unmask
      BY <1>1 DEF Unmask, At, irqVars, IInv, TypeOK, IrqInv, WithIrq
<1>2. CASE FreeIrq
      BY <1>2 DEF FreeIrq, At, cardVars, IInv, TypeOK, IrqInv, CardInv, Stopped
<1>3. ((intMask' => intMask) /\ (onLine => onLine')) \/ Unmask \/ FreeIrq
      BY DEF Next, vars, cardVars, irqVars, Probe, Free, Client, Irq, Terminated,
             SndCardNew, EnablePci, SetDmaMask, RequestRegions, MapBars, AllocDma,
             RequestFirmware, FullInit, RequestIrq, StoreHandler, StoreCtx, PcmNew,
             Register, FreeMask, HwStop, SyncIrq, FreeDma, FreeFirmware, UnmapBars,
             FreeLock, Release, ReleasePci, Open, Start, Stop, Close, Remove,
             Disconnected, Rebind, IrqEnter, IrqTest, IrqCall, IrqLeave
<1> QED BY <1>1, <1>2, <1>3

(* The driver never enables interrupts before it handles them, and never    *)
(* leaves the line with them enabled.                                       *)
THEOREM MaskFollowsHandler == Spec => UnmaskedIsHandled
<1>1. IInv /\ [Next]_vars =>
        [/\ ~intMask /\ intMask' => onLine /\ handler /\ ctx
         /\ onLine /\ ~onLine' => ~intMask]_vars
      BY MaskStep
<1> QED BY <1>1, Invariance, PTL DEF Spec, UnmaskedIsHandled
===============================================================================
