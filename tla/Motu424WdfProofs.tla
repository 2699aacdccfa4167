--------------------------- MODULE Motu424WdfProofs ---------------------------
(***************************************************************************)
(* Proofs about Motu424Wdf, for either kind of BAR2 and any number of      *)
(* preparations, and about Motu424Test: the driver under its test suite    *)
(* keeps what is proved of the driver, and the suite tells the truth.      *)
(***************************************************************************)
EXTENDS Motu424Test, TLAPS

Powered == {"d0", "bugcheck"}
Prepared == {"dma", "firmware", "init", "irq", "prepared", "d0", "low"}
Preparing == {"bar0", "bar1", "bar2", "check"}
Releasing == {"r_stop", "r_mask", "r_irq", "r_dma", "r_firmware", "r_unmap"}

(* The registers are mapped once the check is passed; requests and the      *)
(* service routine exist only in D0.                                        *)
UseInv ==
  /\ pc \in Prepared => Has("bar0") /\ Has("bar1")
  /\ connected \/ isr # "idle" \/ req # "none" => pc \in Powered
  /\ isr = "body" \/ req # "none" => Has("bar1")

(* What a preparation may hold before it allocates, and what the release    *)
(* has given back.                                                          *)
HeldInv ==
  /\ pc \in {"entry", "new", "gone"} => held = {}
  /\ pc \in {"entry", "new"} => ~irqSet
  /\ pc \in {"added", "released"} => held \subseteq {"lock"} /\ ~irqSet
  /\ pc \in Preparing => held \subseteq Bars \cup {"lock"} /\ ~irqSet
  /\ Has("dma_buf") => Has("bar1")
  /\ pc = "r_firmware" => ~Has("dma_buf")
  /\ pc = "r_unmap" => held \subseteq Bars \cup {"lock"}
  /\ pc \in {"r_dma", "r_firmware", "r_unmap"} => ~irqSet

(* The engine, from its stop to the unmapping. *)
CardInv == pc \in Releasing \ {"r_stop"} /\ Has("bar1") => ~engine

IInv == TypeOK /\ UseInv /\ HeldInv /\ CardInv

LEMMA WdfInit == Init => IInv
<1> SUFFICES ASSUME Init PROVE IInv
    OBVIOUS
<1>1. TypeOK
  <2>1. prepares \in 0..MaxPrepares
        BY MaxPreparesAssumption DEF Init
  <2>2. held \subseteq Resources /\ port \in PortKinds
        BY DEF Init
  <2> QED BY <2>1, <2>2 DEF Init, TypeOK
<1>2. UseInv /\ HeldInv /\ CardInv
      BY DEF Init, UseInv, HeldInv, CardInv, Prepared, Preparing, Releasing, Has
<1> QED BY <1>1, <1>2 DEF IInv

LEMMA ReadingFacts ==
  Reading => /\ pc = "d0" /\ req = "none" /\ pc' \in {pc, "bugcheck"}
             /\ UNCHANGED <<prepares, addVars, held, irqVars, req, running, cardVars>>
BY DEF Reading, GetInfo, GetPosition, GetStatus, ReadReg, ReadFrom, Served, Goto

(* Every step keeps the invariant. *)
LEMMA WdfStep == IInv /\ [Next]_vars => IInv'
<1> SUFFICES ASSUME IInv, [Next]_vars PROVE IInv'
    OBVIOUS
<1> USE MaxPreparesAssumption, PortKindsAssumption
    DEF IInv, TypeOK, UseInv, HeldInv, CardInv, Powered, Prepared, Preparing, Releasing,
        Resources, Bars, Firmware, Has, Goto, addVars, irqVars, cardVars
<1>1. CASE DeviceAdd
  <2>1. TypeOK'
        BY <1>1 DEF DeviceAdd, pal_spinlock_create
  <2>2. UseInv'
        BY <1>1 DEF DeviceAdd, pal_spinlock_create
  <2>3. HeldInv'
    <3>1. CASE pc' = "gone" /\ UNCHANGED <<enabler, held>>
          BY <1>1, <3>1 DEF DeviceAdd, pal_spinlock_create
    <3>2. CASE pc' = "added" /\ held' \subseteq {"lock"}
      <4>1. ~irqSet' /\ ~("dma_buf" \in held')
            BY <1>1, <3>2 DEF DeviceAdd, pal_spinlock_create
      <4> QED BY <3>2, <4>1
    <3> QED BY <1>1, <3>1, <3>2 DEF DeviceAdd, pal_spinlock_create
  <2>4. CardInv'
        BY <1>1 DEF DeviceAdd, pal_spinlock_create
  <2> QED BY <2>1, <2>2, <2>3, <2>4
<1>2. CASE Prepare
      BY <1>2 DEF Prepare
<1>3. CASE MapBars
  <2>1. TypeOK'
        BY <1>3 DEF MapBars, MapMemory
  <2>2. UseInv'
        BY <1>3 DEF MapBars, MapMemory
  <2>3. HeldInv'
    <3>1. /\ pc \in Preparing /\ pc' \in {"bar1", "bar2", "check", "r_stop"}
          /\ held' \subseteq held \cup Bars /\ ~irqSet /\ ~irqSet'
          BY <1>3 DEF MapBars, MapMemory
    <3>2. held' \subseteq Bars \cup {"lock"}
          BY <3>1
    <3>3. ~("dma_buf" \in held')
          BY <3>2
    <3> QED BY <3>1, <3>2, <3>3
  <2>4. CardInv'
        BY <1>3 DEF MapBars, MapMemory
  <2> QED BY <2>1, <2>2, <2>3, <2>4
<1>4. CASE SkipPort
      BY <1>4 DEF SkipPort
<1>5. CASE CheckBars
      BY <1>5 DEF CheckBars
<1>6. CASE AllocDma
  <2>1. TypeOK'
        BY <1>6 DEF AllocDma
  <2>2. UseInv'
        BY <1>6 DEF AllocDma
  <2>3. HeldInv'
        BY <1>6 DEF AllocDma
  <2>4. CardInv'
        BY <1>6 DEF AllocDma
  <2> QED BY <2>1, <2>2, <2>3, <2>4
<1>7. CASE LoadFirmware
  <2>1. TypeOK'
        BY <1>7 DEF LoadFirmware
  <2>2. UseInv'
        BY <1>7 DEF LoadFirmware
  <2>3. HeldInv'
        BY <1>7 DEF LoadFirmware
  <2>4. CardInv'
        BY <1>7 DEF LoadFirmware
  <2> QED BY <2>1, <2>2, <2>3, <2>4
<1>8. CASE FullInit
  <2>1. TypeOK'
        BY <1>8 DEF FullInit
  <2>2. UseInv'
        BY <1>8 DEF FullInit
  <2>3. HeldInv'
        BY <1>8 DEF FullInit
  <2>4. CardInv'
        BY <1>8 DEF FullInit
  <2> QED BY <2>1, <2>2, <2>3, <2>4
<1>9. CASE RequestIrq
  <2>1. TypeOK'
        BY <1>9 DEF RequestIrq, IrqRequest
  <2>2. UseInv'
        BY <1>9 DEF RequestIrq, IrqRequest
  <2>3. HeldInv'
        BY <1>9 DEF RequestIrq, IrqRequest
  <2>4. CardInv'
        BY <1>9 DEF RequestIrq, IrqRequest
  <2> QED BY <2>1, <2>2, <2>3, <2>4
<1>10. CASE D0Entry
  <2>1. TypeOK'
        BY <1>10 DEF D0Entry
  <2>2. UseInv'
        BY <1>10 DEF D0Entry
  <2>3. HeldInv'
        BY <1>10 DEF D0Entry
  <2>4. CardInv'
        BY <1>10 DEF D0Entry
  <2> QED BY <2>1, <2>2, <2>3, <2>4
<1>11. CASE D0Exit
      BY <1>11 DEF D0Exit
<1>12. CASE Sleep
      BY <1>12 DEF Sleep
<1>13. CASE IsrEnter
      BY <1>13 DEF IsrEnter
<1>14. CASE IsrRead
      BY <1>14 DEF IsrRead
<1>15. CASE IsrLeave
      BY <1>15 DEF IsrLeave
<1>16. CASE IoctlBegin
  <2>1. TypeOK'
        BY <1>16 DEF IoctlBegin, Served
  <2>2. UseInv'
        BY <1>16 DEF IoctlBegin, Served
  <2>3. HeldInv'
        BY <1>16 DEF IoctlBegin, Served
  <2>4. CardInv'
        BY <1>16 DEF IoctlBegin, Served
  <2> QED BY <2>1, <2>2, <2>3, <2>4
<1>17. CASE IoctlEnd
  <2>1. TypeOK'
        BY <1>17 DEF IoctlEnd
  <2>2. UseInv'
        BY <1>17 DEF IoctlEnd
  <2>3. HeldInv'
        BY <1>17 DEF IoctlEnd
  <2>4. CardInv'
        BY <1>17 DEF IoctlEnd
  <2> QED BY <2>1, <2>2, <2>3, <2>4
<1>18. CASE WriteReg
  <2>1. TypeOK'
        BY <1>18 DEF WriteReg, Served
  <2>2. UseInv'
        BY <1>18 DEF WriteReg, Served
  <2>3. HeldInv'
        BY <1>18 DEF WriteReg, Served
  <2>4. CardInv'
        BY <1>18 DEF WriteReg, Served
  <2> QED BY <2>1, <2>2, <2>3, <2>4
<1>19. CASE HwStop
  <2>1. TypeOK'
        BY <1>19 DEF HwStop
  <2>2. UseInv'
        BY <1>19 DEF HwStop
  <2>3. HeldInv'
        BY <1>19 DEF HwStop
  <2>4. CardInv'
        BY <1>19 DEF HwStop
  <2> QED BY <2>1, <2>2, <2>3, <2>4
<1>20. CASE Mask
  <2>1. TypeOK'
        BY <1>20 DEF Mask
  <2>2. UseInv'
        BY <1>20 DEF Mask
  <2>3. HeldInv'
        BY <1>20 DEF Mask
  <2>4. CardInv'
        BY <1>20 DEF Mask
  <2> QED BY <2>1, <2>2, <2>3, <2>4
<1>21. CASE IrqFree
      BY <1>21 DEF IrqFree
<1>22. CASE FreeDma
      BY <1>22 DEF FreeDma, Release
<1>23. CASE FreeFirmware
      BY <1>23 DEF FreeFirmware, Release
<1>24. CASE UnmapBars
      BY <1>24 DEF UnmapBars, Release
<1>25. CASE ContextCleanup
      BY <1>25 DEF ContextCleanup
<1>26. CASE Reading
  <2>1. TypeOK'
    <3>1. /\ pc' \in {"d0", "bugcheck"}
          /\ UNCHANGED <<prepares, addVars, held, irqVars, req, running, cardVars>>
          BY <1>26, ReadingFacts
    <3> QED BY <3>1
  <2>2. UseInv'
        BY <1>26, ReadingFacts
  <2>3. HeldInv'
        BY <1>26, ReadingFacts
  <2>4. CardInv'
        BY <1>26, ReadingFacts
  <2> QED BY <2>1, <2>2, <2>3, <2>4
<1>27. CASE DriverEntry
      BY <1>27 DEF DriverEntry
<1>28. CASE UNCHANGED vars
      BY <1>28 DEF vars
<1> QED
    BY <1>1, <1>2, <1>3, <1>4, <1>5, <1>6, <1>7, <1>8, <1>9, <1>10, <1>11,
       <1>12, <1>13, <1>14, <1>15, <1>16, <1>17, <1>18, <1>19, <1>20, <1>21,
       <1>22, <1>23, <1>24, <1>25, <1>26, <1>27, <1>28
    DEF Next, PrepareHardware, ReleaseHardware, Isr, Request, Terminated

THEOREM Invariance == Spec => []IInv
<1>1. Init => IInv
      BY WdfInit
<1>2. IInv /\ [Next]_vars => IInv'
      BY WdfStep
<1> QED BY <1>1, <1>2, PTL DEF Spec

(* Every variable keeps its type: no callback assigns a field the release   *)
(* does not know.                                                           *)
THEOREM TypeCorrect == Spec => []TypeOK
<1>1. IInv => TypeOK
      BY DEF IInv
<1> QED BY <1>1, Invariance, PTL

(* Requests and the service routine find the registers mapped, although     *)
(* neither takes a lock.                                                    *)
THEOREM UsedStayMapped == Spec => []MappedWhileUsed
<1>1. IInv => MappedWhileUsed
      BY DEF IInv, UseInv, MappedWhileUsed
<1> QED BY <1>1, Invariance, PTL

(* A release, also after a preparation that failed, leaves nothing. *)
THEOREM NothingLeft == Spec => []ReleaseComplete
<1>1. IInv => ReleaseComplete
      BY DEF IInv, UseInv, HeldInv, Powered, ReleaseComplete
<1> QED BY <1>1, Invariance, PTL

(* A step that gives back the buffer or the registers is one of the release. *)
LEMMA StopsStep ==
  IInv /\ [Next]_vars =>
    \A r \in {"dma_buf", "bar1"} : Has(r) /\ r \notin held' => ~engine
<1> SUFFICES ASSUME IInv, [Next]_vars, NEW r \in {"dma_buf", "bar1"},
                    r \in held, r \notin held'
             PROVE  ~engine
    BY DEF Has
<1>1. pc \in Releasing \ {"r_stop"} /\ Has("bar1")
  <2>1. CASE FreeDma
        BY <2>1 DEF FreeDma, Release, IInv, HeldInv, Releasing, Has
  <2>2. CASE FreeFirmware
        BY <2>2 DEF FreeFirmware, Release, Firmware
  <2>3. CASE UnmapBars
        BY <2>3 DEF UnmapBars, Release, IInv, HeldInv, Bars, Releasing, Has
  <2>4. CASE ContextCleanup
        BY <2>4 DEF ContextCleanup
  <2>5. CASE DeviceAdd
        BY <2>5 DEF DeviceAdd, IInv, HeldInv
  <2>6. \/ held \subseteq held'
        \/ FreeDma \/ FreeFirmware \/ UnmapBars \/ ContextCleanup \/ DeviceAdd
        BY ReadingFacts
        DEF Next, vars, PrepareHardware, ReleaseHardware, Isr, Request, Terminated,
               DriverEntry, Prepare, MapBars, MapMemory, SkipPort, CheckBars, AllocDma, LoadFirmware,
               FullInit, RequestIrq, D0Entry, D0Exit, Sleep, IsrEnter, IsrRead, IsrLeave,
               IoctlBegin, IoctlEnd, WriteReg, HwStop, Mask, IrqFree
  <2> QED BY <2>1, <2>2, <2>3, <2>4, <2>5, <2>6
<1> QED BY <1>1 DEF IInv, CardInv

(* The engine is stopped before what it uses is given back, whatever raw    *)
(* register writes came before.                                             *)
THEOREM StopsFirst == Spec => StopsBeforeFree
<1>1. IInv /\ [Next]_vars =>
        [\A r \in {"dma_buf", "bar1"} : Has(r) /\ r \notin held' => ~engine]_vars
      BY StopsStep
<1> QED BY <1>1, Invariance, PTL DEF Spec, StopsBeforeFree

-------------------------------------------------------------------------------
(* The suite.                                                              *)

(* The request of the suite is the one its test asks for. *)
MineInv == mine => step \in Tests /\ Suite[step] \in {"start", "stop"} /\ req = Suite[step]

(* dma_running is cleared before the device can be prepared again. *)
RunInv == running => pc \in {"d0", "low", "r_stop", "bugcheck"} /\ (pc = "r_stop" => Has("bar1"))

(* From the last STOP on. *)
LastInv ==
  /\ step = 12 /\ running => "start" \in others \/ pc \in {"r_stop", "bugcheck"}
  /\ step \in {12, Done} /\ failures = 0 /\ others = {} => ~running /\ ~engine
  /\ verified = "running" => step = Done /\ "start" \in others

TestInv == IInv /\ TestTypeOK /\ MineInv /\ RunInv /\ LastInv

LEMMA SuiteFacts ==
  /\ Len(Suite) = 12 /\ Done = 13 /\ Tests = 1..12
  /\ Suite[11] = "stop" /\ Suite[12] = "info"
<1>1. Len(Suite) = 12
      BY DEF Suite
<1> QED BY <1>1 DEF Suite, Done, Tests

(* A query of the suite reads mapped registers and changes nothing. *)
LEMMA QueryReads ==
  IInv /\ Query => pc = "d0" /\ req = "none" /\ UNCHANGED vars /\ Reading
<1> SUFFICES ASSUME IInv, Query
             PROVE  pc = "d0" /\ req = "none" /\ UNCHANGED vars /\ Reading
    OBVIOUS
<1>1. step \in 1..12 /\ Suite[step] \in {"info", "status", "position", "read"}
      BY SuiteFacts DEF Query, Suite
<1>2. PICK bars \in SUBSET {"bar0", "bar1", "bar2"} :
        ReadFrom(bars) /\ (bars \subseteq held \/ bars \subseteq {"bar0", "bar1"}) /\ Reading
  <2>1. CASE Suite[step] \in {"info", "status", "position"}
        BY <2>1 DEF Query, GetInfo, GetPosition, GetStatus, Reading
  <2>2. CASE Suite[step] = "read"
    <3>1. PICK bar \in {"bar0", "bar1"} : ReadReg(bar)
          BY <2>2 DEF Query
    <3> QED BY <3>1 DEF ReadReg, Reading, Bars
  <2> QED BY <1>1, <2>1, <2>2
<1>3. pc = "d0" /\ req = "none"
      BY <1>2 DEF ReadFrom, Served
<1>4. bars \subseteq held
      BY <1>2, <1>3 DEF IInv, UseInv, Prepared, Has
<1>5. UNCHANGED vars
      BY <1>2, <1>4 DEF ReadFrom, Goto, vars
<1> QED BY <1>2, <1>3, <1>5

(* Every step of the composition is one of the driver, or leaves it alone. *)
LEMMA DriverSees == IInv /\ [TestNext]_testVars => [Next]_vars
<1> SUFFICES ASSUME IInv, [TestNext]_testVars PROVE [Next]_vars
    OBVIOUS
<1>1. CASE SuiteStep
      BY <1>1, QueryReads DEF SuiteStep, Open, Query, Command, Completed, Refused, Next, Request
<1>2. CASE OtherRequest
      BY <1>2 DEF OtherRequest, Next, Request
<1>3. CASE DriverStep
      BY <1>3 DEF DriverStep, Next
<1>4. CASE UNCHANGED testVars
      BY <1>4 DEF testVars
<1> QED BY <1>1, <1>2, <1>3, <1>4 DEF TestNext

(* What the driver's own callbacks do to what the suite looks at. *)
LEMMA DriverKeeps ==
  IInv /\ RunInv /\ DriverStep =>
    /\ req' = req
    /\ running' => running
    /\ engine' => engine
    /\ RunInv'
    /\ pc \in {"r_stop", "bugcheck"} => pc' \in {"r_stop", "bugcheck"} \/ ~running'
<1> SUFFICES ASSUME IInv, RunInv, DriverStep
             PROVE  /\ req' = req /\ (running' => running) /\ (engine' => engine) /\ RunInv'
                    /\ pc \in {"r_stop", "bugcheck"} => pc' \in {"r_stop", "bugcheck"} \/ ~running'
    OBVIOUS
<1>0. /\ running \in BOOLEAN /\ engine \in BOOLEAN
      /\ pc \in {"d0", "low"} => Has("bar1")
      BY DEF IInv, TypeOK, UseInv, Prepared
<1> USE <1>0 DEF RunInv, Has, Goto, cardVars, irqVars, addVars
<1>1. CASE DriverEntry \/ DeviceAdd
      BY <1>1 DEF DriverEntry, DeviceAdd
<1>2. CASE PrepareHardware
  <2>1. CASE Prepare
    <3>1. pc \notin {"d0", "low", "r_stop", "bugcheck"} /\ ~running
          BY <2>1 DEF Prepare
    <3>2. req' = req /\ ~running'
          BY <2>1, <3>1 DEF Prepare
    <3>3. engine' => engine
          BY <2>1 DEF Prepare
    <3> QED BY <3>1, <3>2, <3>3
  <2>2. CASE MapBars
    <3>1. pc \notin {"d0", "low", "r_stop", "bugcheck"} /\ ~running
          BY <2>2 DEF MapBars, MapMemory
    <3>2. req' = req /\ ~running'
          BY <2>2, <3>1 DEF MapBars, MapMemory
    <3>3. engine' => engine
          BY <2>2 DEF MapBars, MapMemory
    <3> QED BY <3>1, <3>2, <3>3
  <2>3. CASE SkipPort
    <3>1. pc \notin {"d0", "low", "r_stop", "bugcheck"} /\ ~running
          BY <2>3 DEF SkipPort
    <3>2. req' = req /\ ~running'
          BY <2>3, <3>1 DEF SkipPort
    <3>3. engine' => engine
          BY <2>3 DEF SkipPort
    <3> QED BY <3>1, <3>2, <3>3
  <2>4. CASE CheckBars
    <3>1. pc \notin {"d0", "low", "r_stop", "bugcheck"} /\ ~running
          BY <2>4 DEF CheckBars
    <3>2. req' = req /\ ~running'
          BY <2>4, <3>1 DEF CheckBars
    <3>3. engine' => engine
          BY <2>4 DEF CheckBars
    <3> QED BY <3>1, <3>2, <3>3
  <2>5. CASE AllocDma
    <3>1. pc \notin {"d0", "low", "r_stop", "bugcheck"} /\ ~running
          BY <2>5 DEF AllocDma
    <3>2. req' = req /\ ~running'
          BY <2>5, <3>1 DEF AllocDma
    <3>3. engine' => engine
          BY <2>5 DEF AllocDma
    <3> QED BY <3>1, <3>2, <3>3
  <2>6. CASE LoadFirmware
    <3>1. pc \notin {"d0", "low", "r_stop", "bugcheck"} /\ ~running
          BY <2>6 DEF LoadFirmware
    <3>2. req' = req /\ ~running'
          BY <2>6, <3>1 DEF LoadFirmware
    <3>3. engine' => engine
          BY <2>6 DEF LoadFirmware
    <3> QED BY <3>1, <3>2, <3>3
  <2>7. CASE FullInit
    <3>1. pc \notin {"d0", "low", "r_stop", "bugcheck"} /\ ~running
          BY <2>7 DEF FullInit
    <3>2. req' = req /\ ~running'
          BY <2>7, <3>1 DEF FullInit
    <3>3. engine' => engine
          BY <2>7 DEF FullInit
    <3> QED BY <3>1, <3>2, <3>3
  <2>8. CASE RequestIrq
    <3>1. pc \notin {"d0", "low", "r_stop", "bugcheck"} /\ ~running
          BY <2>8 DEF RequestIrq, IrqRequest
    <3>2. req' = req /\ ~running'
          BY <2>8, <3>1 DEF RequestIrq, IrqRequest
    <3>3. engine' => engine
          BY <2>8 DEF RequestIrq, IrqRequest
    <3> QED BY <3>1, <3>2, <3>3
  <2> QED BY <1>2, <2>1, <2>2, <2>3, <2>4, <2>5, <2>6, <2>7, <2>8 DEF PrepareHardware
<1>3. CASE D0Entry
      BY <1>3 DEF D0Entry
<1>4. CASE D0Exit
      BY <1>4 DEF D0Exit
<1>5. CASE Sleep
      BY <1>5 DEF Sleep
<1>6. CASE Isr
  <2>1. UNCHANGED <<pc, held, req, running, engine>>
        BY <1>6 DEF Isr, IsrEnter, IsrRead, IsrLeave
  <2> QED BY <2>1
<1>7. CASE ReleaseHardware
  <2>1. CASE HwStop
    <3>1. pc = "r_stop" /\ pc' = "r_mask" /\ req' = req
          BY <2>1 DEF HwStop
    <3>2. CASE Has("bar1")
          BY <2>1, <3>1, <3>2 DEF HwStop
    <3>3. CASE ~Has("bar1")
          BY <2>1, <3>1, <3>3 DEF HwStop
    <3> QED BY <3>2, <3>3
  <2>2. CASE Mask
    <3>1. pc \notin {"d0", "low", "r_stop", "bugcheck"} /\ ~running
          BY <2>2 DEF Mask
    <3>2. req' = req /\ ~running'
          BY <2>2, <3>1 DEF Mask
    <3>3. engine' => engine
          BY <2>2 DEF Mask
    <3> QED BY <3>1, <3>2, <3>3
  <2>3. CASE IrqFree
    <3>1. pc \notin {"d0", "low", "r_stop", "bugcheck"} /\ ~running
          BY <2>3 DEF IrqFree
    <3>2. req' = req /\ ~running'
          BY <2>3, <3>1 DEF IrqFree
    <3>3. engine' => engine
          BY <2>3 DEF IrqFree
    <3> QED BY <3>1, <3>2, <3>3
  <2>4. CASE FreeDma
    <3>1. pc \notin {"d0", "low", "r_stop", "bugcheck"} /\ ~running
          BY <2>4 DEF FreeDma, Release
    <3>2. req' = req /\ ~running'
          BY <2>4, <3>1 DEF FreeDma, Release
    <3>3. engine' => engine
          BY <2>4 DEF FreeDma, Release
    <3> QED BY <3>1, <3>2, <3>3
  <2>5. CASE FreeFirmware
    <3>1. pc \notin {"d0", "low", "r_stop", "bugcheck"} /\ ~running
          BY <2>5 DEF FreeFirmware, Release
    <3>2. req' = req /\ ~running'
          BY <2>5, <3>1 DEF FreeFirmware, Release
    <3>3. engine' => engine
          BY <2>5 DEF FreeFirmware, Release
    <3> QED BY <3>1, <3>2, <3>3
  <2>6. CASE UnmapBars
    <3>1. pc \notin {"d0", "low", "r_stop", "bugcheck"} /\ ~running
          BY <2>6 DEF UnmapBars, Release
    <3>2. req' = req /\ ~running'
          BY <2>6, <3>1 DEF UnmapBars, Release
    <3>3. engine' => engine
          BY <2>6 DEF UnmapBars, Release
    <3> QED BY <3>1, <3>2, <3>3
  <2> QED BY <1>7, <2>1, <2>2, <2>3, <2>4, <2>5, <2>6 DEF ReleaseHardware
<1>8. CASE ContextCleanup
      BY <1>8 DEF ContextCleanup
<1>9. CASE Terminated
      BY <1>9 DEF Terminated, vars
<1> QED BY <1>1, <1>2, <1>3, <1>4, <1>5, <1>6, <1>7, <1>8, <1>9 DEF DriverStep

LEMMA SuiteInit == TestInit => TestInv
<1> SUFFICES ASSUME TestInit PROVE TestInv
    OBVIOUS
<1>1. IInv
      BY WdfInit DEF TestInit
<1>2. TestTypeOK
  <2>1. mine \in BOOLEAN
    <3>1. mine = FALSE
          BY DEF TestInit
    <3> QED BY <3>1
  <2> QED BY <2>1, SuiteFacts DEF TestInit, TestTypeOK
<1>3. ~mine /\ ~running /\ step = 0 /\ verified = "nothing"
      BY DEF TestInit, Init
<1>4. MineInv /\ RunInv /\ LastInv
      BY <1>3, SuiteFacts DEF MineInv, RunInv, LastInv
<1> QED BY <1>1, <1>2, <1>4 DEF TestInv

LEMMA SuiteNext == TestInv /\ [TestNext]_testVars => TestInv'
<1> SUFFICES ASSUME TestInv, [TestNext]_testVars PROVE TestInv'
    OBVIOUS
<1>0. /\ IInv'
      /\ running \in BOOLEAN /\ engine \in BOOLEAN /\ mine \in BOOLEAN
      /\ named \in BOOLEAN
      /\ req # "none" => pc \in {"d0", "bugcheck"} /\ Has("bar1")
      /\ Query => pc = "d0" /\ req = "none" /\ UNCHANGED vars
      BY QueryReads, WdfStep, DriverSees DEF TestInv, TestTypeOK, IInv, TypeOK, UseInv, Powered
<1> USE SuiteFacts, <1>0
    DEF TestInv, TestTypeOK, MineInv, RunInv, LastInv, Served, Has, suiteVars
<1>1. CASE Open
  <2>1. TestTypeOK'
        BY <1>1 DEF Open, vars
  <2>2. MineInv'
        BY <1>1 DEF Open, vars
  <2>3. RunInv'
        BY <1>1 DEF Open, vars
  <2>4. LastInv'
        BY <1>1 DEF Open, vars
  <2> QED BY <2>1, <2>2, <2>3, <2>4
<1>2. CASE Query
  <2>1. TestTypeOK'
        BY <1>2 DEF Query, Info, vars
  <2>2. MineInv'
        BY <1>2 DEF Query, Info, vars
  <2>3. RunInv'
        BY <1>2 DEF Query, Info, vars
  <2>4. LastInv'
    <3>1. verified' = "running" => verified = "running" \/ (step = 12 /\ running)
          BY <1>2 DEF Query, Info
    <3>2. failures' = 0 => failures = 0 /\ verified' # "running"
          BY <1>2 DEF Query, Info
    <3>3. step # 11
          BY <1>2 DEF Query
    <3>4. /\ step' = step + 1 /\ step \in 1..12 /\ pc = "d0"
          /\ others' = others /\ pc' = pc
          BY <1>2 DEF Query, vars
    <3>5. UNCHANGED <<running, engine>>
      <4>1. UNCHANGED vars
            BY <1>2
      <4> QED BY <4>1 DEF vars, cardVars
    <3> QED BY <3>1, <3>2, <3>3, <3>4, <3>5
  <2> QED BY <2>1, <2>2, <2>3, <2>4
<1>3. CASE Command
  <2>1. TestTypeOK'
        BY <1>3 DEF Command, IoctlBegin, cardVars, irqVars, addVars
  <2>2. MineInv'
        BY <1>3 DEF Command, IoctlBegin, cardVars, irqVars, addVars
  <2>3. RunInv'
        BY <1>3 DEF Command, IoctlBegin, cardVars, irqVars, addVars
  <2>4. LastInv'
        BY <1>3 DEF Command, IoctlBegin, cardVars, irqVars, addVars
  <2> QED BY <2>1, <2>2, <2>3, <2>4
<1>4. CASE Completed
  <2>1. TestTypeOK'
    <3>1. mine' \in BOOLEAN
      <4>1. mine' = FALSE
            BY <1>4 DEF Completed
      <4> QED BY <4>1
    <3>2. step \in 1..12 /\ step' = step + 1 /\ others' \subseteq others
          BY <1>4 DEF Completed
    <3>3. UNCHANGED <<named, failures, verified>>
          BY <1>4 DEF Completed
    <3> QED BY <3>1, <3>2, <3>3
  <2>2. MineInv'
        BY <1>4 DEF Completed, IoctlEnd, cardVars, irqVars, addVars
  <2>3. RunInv'
        BY <1>4 DEF Completed, IoctlEnd, cardVars, irqVars, addVars
  <2>4. LastInv'
    <3>1. /\ step' = step + 1 /\ step \in 1..11 /\ verified' = verified
          /\ step = 11 => req = "stop"
          BY <1>4 DEF Completed
    <3>2. req = "stop" => ~running' /\ ~engine'
          BY <1>4 DEF Completed, IoctlEnd
    <3> QED BY <3>1, <3>2
  <2> QED BY <2>1, <2>2, <2>3, <2>4
<1>5. CASE Refused
  <2>1. TestTypeOK'
        BY <1>5 DEF Refused, Lenient, vars
  <2>2. MineInv'
        BY <1>5 DEF Refused, Lenient, vars
  <2>3. RunInv'
        BY <1>5 DEF Refused, Lenient, vars
  <2>4. LastInv'
    <3>1. /\ step' = step + 1 /\ UNCHANGED <<pc, verified, others, running, engine>>
          /\ step = 11 => failures' = failures + 1
          /\ step = 12 => failures' = failures
          BY <1>5 DEF Refused, Lenient, vars, cardVars
    <3>2. pc \notin {"d0", "low", "bugcheck"}
          BY <1>5 DEF Refused
    <3>3. step \in 1..12 /\ failures \in Nat /\ verified # "running"
          BY <1>5 DEF Refused
    <3>4. step = 11 => failures' # 0
          BY <3>1, <3>3
    <3> QED BY <3>1, <3>2, <3>3, <3>4
  <2> QED BY <2>1, <2>2, <2>3, <2>4
<1>6. CASE OtherRequest
  <2>1. TestTypeOK'
        BY <1>6, ReadingFacts DEF OtherRequest, IoctlBegin, IoctlEnd, WriteReg, Goto,
                    cardVars, irqVars, addVars
  <2>2. MineInv'
        BY <1>6, ReadingFacts DEF OtherRequest, IoctlBegin, IoctlEnd, WriteReg, Goto,
                    cardVars, irqVars, addVars
  <2>3. RunInv'
        BY <1>6, ReadingFacts DEF OtherRequest, IoctlBegin, IoctlEnd, WriteReg, Goto,
                    cardVars, irqVars, addVars
  <2>4. LastInv'
    <3>1. UNCHANGED <<step, failures, verified>>
          BY <1>6 DEF OtherRequest
    <3>2. CASE IoctlBegin /\ UNCHANGED others
      <4>1. pc' = pc /\ (running' => running) /\ (engine' => engine)
            BY <3>2 DEF IoctlBegin, cardVars
      <4> QED BY <3>1, <3>2, <4>1
    <3>3. CASE Reading /\ UNCHANGED others
      <4>1. pc' \in {pc, "bugcheck"} /\ (running' => running) /\ (engine' => engine)
            BY <3>3, ReadingFacts DEF cardVars
      <4> QED BY <3>1, <3>3, <4>1
    <3>4. CASE IoctlEnd /\ others' = others \cup ({req} \cap {"start"})
      <4>1. pc' = pc /\ (req = "start" \/ (~running' /\ ~engine'))
            BY <3>4 DEF IoctlEnd
      <4> QED BY <3>1, <3>4, <4>1
    <3>5. CASE WriteReg /\ others' = others \cup {"write"}
      <4>1. (running' => running) /\ pc' \in {pc, "bugcheck"} /\ pc = "d0"
            BY <3>5 DEF WriteReg, Goto
      <4> QED BY <3>1, <3>5, <4>1
    <3> QED BY <1>6, <3>2, <3>3, <3>4, <3>5 DEF OtherRequest
  <2> QED BY <2>1, <2>2, <2>3, <2>4
<1>7. CASE DriverStep
  <2>1. /\ req' = req /\ (running' => running) /\ (engine' => engine) /\ RunInv'
        /\ pc \in {"r_stop", "bugcheck"} => pc' \in {"r_stop", "bugcheck"} \/ ~running'
        BY <1>7, DriverKeeps
  <2>2. UNCHANGED suiteVars
        BY <1>7 DEF DriverStep
  <2>3. TestTypeOK' /\ MineInv'
        BY <2>1, <2>2
  <2>4. LastInv'
        BY <2>1, <2>2
  <2> QED BY <2>1, <2>3, <2>4
<1>8. CASE UNCHANGED testVars
  <2>1. /\ UNCHANGED <<named, step, mine, failures, verified, others, pc, held, req>>
        /\ (running' => running) /\ (engine' => engine)
        BY <1>8 DEF testVars, vars, cardVars
  <2>2. TestTypeOK' /\ MineInv'
        BY <2>1
  <2>3. RunInv' /\ LastInv'
        BY <2>1
  <2> QED BY <2>2, <2>3
<1> QED BY <1>1, <1>2, <1>3, <1>4, <1>5, <1>6, <1>7, <1>8 DEF TestNext, SuiteStep

THEOREM SuiteInvariance == TestSpec => []TestInv
<1>1. TestInit => TestInv
      BY SuiteInit
<1>2. TestInv /\ [TestNext]_testVars => TestInv'
      BY SuiteNext
<1> QED BY <1>1, <1>2, PTL DEF TestSpec

(* The composition implements the specification of the driver: what is      *)
(* proved of the driver holds under the suite and its other clients.        *)
THEOREM DriverUnderTest == TestSpec => Spec
<1>1. TestInit => Init
      BY DEF TestInit
<1>2. TestInv /\ [TestNext]_testVars => [Next]_vars
      BY DriverSees DEF TestInv
<1> QED BY <1>1, <1>2, SuiteInvariance, PTL DEF TestSpec, Spec

(* The suite fails its last test only because of another client, and passes *)
(* as a whole, with no other client, only when the card is silent.          *)
THEOREM SuiteIsRight == TestSpec => []SuiteTellsTruth
<1>1. TestInv => SuiteTellsTruth
      BY DEF TestInv, LastInv, SuiteTellsTruth
<1> QED BY <1>1, SuiteInvariance, PTL
===============================================================================
