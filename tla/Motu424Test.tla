------------------------------ MODULE Motu424Test ------------------------------
(***************************************************************************)
(* The test suite of source/windows/motu424_test.c against the Windows     *)
(* driver: one blocking request after the other, while other clients make  *)
(* requests of their own, the device sleeps, fails and goes.               *)
(*                                                                         *)
(* The driver and its INF file give the device no name; whether somebody   *)
(* else did is chosen once.                                                *)
(***************************************************************************)
EXTENDS Motu424Wdf, Sequences

VARIABLES
  named,     \* \\.\MOTU424 leads to the device
  step,      \* the test in progress; 0 before open_device
  mine,      \* the request in hand is the suite's
  failures,  \* the local of test_suite
  verified,  \* what the last test heard: "nothing", "stopped" or "running"
  others     \* what other clients did since the suite's last successful STOP

suiteVars == <<named, step, mine, failures, verified, others>>
testVars == <<vars, suiteVars>>

(* The requests of the twelve tests.  Test 10 asks for the position twice. *)
Suite == <<"info", "status", "read", "read", "read", "read", "stop", "position",
           "start", "position", "stop", "info">>
Tests == 1..Len(Suite)
Done == Len(Suite) + 1

(* The tests that pass whatever the request returns. *)
Lenient == {10, 12}

TestTypeOK ==
  /\ named \in BOOLEAN
  /\ step \in 0..Done
  /\ mine \in BOOLEAN
  /\ failures \in Nat
  /\ verified \in {"nothing", "stopped", "running"}
  /\ others \subseteq {"start", "write"}

TestInit ==
  /\ Init
  /\ named \in BOOLEAN
  /\ step = 0 /\ mine = FALSE /\ failures = 0 /\ verified = "nothing" /\ others = {}

-------------------------------------------------------------------------------
(* open_device; on an error main returns. *)
Open ==
  /\ step = 0 /\ named /\ pc \in {"d0", "low"}
  /\ step' = 1
  /\ UNCHANGED <<vars, named, mine, failures, verified, others>>

(* The answer of a query.  Test 12 looks at dma_running. *)
Query ==
  /\ step \in Tests /\ Suite[step] \notin {"start", "stop"}
  /\ CASE Suite[step] = "info"     -> GetInfo
       [] Suite[step] = "status"   -> GetStatus
       [] Suite[step] = "position" -> GetPosition
       [] Suite[step] = "read"     -> ReadReg(IF step < 5 THEN "bar1" ELSE "bar0")
  /\ step' = step + 1
  /\ verified' = IF step # Len(Suite) THEN verified
                 ELSE IF Info.dma_running THEN "running" ELSE "stopped"
  /\ failures' = IF verified' = "running" THEN failures + 1 ELSE failures
  /\ UNCHANGED <<named, mine, others>>

Command ==
  /\ step \in Tests /\ Suite[step] \in {"start", "stop"}
  /\ IoctlBegin /\ req' = Suite[step]
  /\ mine' = TRUE
  /\ UNCHANGED <<named, step, failures, verified, others>>

Completed ==
  /\ mine
  /\ IoctlEnd
  /\ mine' = FALSE
  /\ step' = step + 1
  /\ others' = IF req = "stop" THEN {} ELSE others
  /\ UNCHANGED <<named, failures, verified>>

(* A request on a device that is being released or gone fails; one on a     *)
(* sleeping device waits in the queue.                                      *)
Refused ==
  /\ step \in Tests /\ ~mine
  /\ pc \in {"r_stop", "r_mask", "r_irq", "r_dma", "r_firmware", "r_unmap", "released", "gone"}
  /\ step' = step + 1
  /\ failures' = IF step \in Lenient THEN failures ELSE failures + 1
  /\ UNCHANGED <<vars, named, mine, verified, others>>

SuiteStep == Open \/ Query \/ Command \/ Completed \/ Refused

(* Another client's request. *)
OtherRequest ==
  /\ ~mine
  /\ \/ (IoctlBegin \/ Reading) /\ UNCHANGED others
     \/ IoctlEnd /\ others' = others \cup ({req} \cap {"start"})
     \/ WriteReg /\ others' = others \cup {"write"}
  /\ UNCHANGED <<named, step, mine, failures, verified>>

(* The framework, the driver's callbacks and the interrupt. *)
DriverStep ==
  /\ \/ DriverEntry \/ DeviceAdd \/ PrepareHardware \/ D0Entry \/ D0Exit \/ Sleep
     \/ Isr \/ ReleaseHardware \/ ContextCleanup \/ Terminated
  /\ UNCHANGED suiteVars

TestNext == SuiteStep \/ OtherRequest \/ DriverStep

TestSpec == TestInit /\ [][TestNext]_testVars

-------------------------------------------------------------------------------
(* The suite's word is good.  Test 12 fails only if another client started  *)
(* the engine after the suite's last STOP (or before a STOP that failed),   *)
(* and "ALL TESTS PASSED" without another client means a silent card and a  *)
(* driver that knows it, also when the device slept or was released and     *)
(* prepared again between two tests.                                        *)
SuiteTellsTruth ==
  /\ verified = "running" => "start" \in others
  /\ step = Done /\ failures = 0 /\ others = {} => ~running /\ ~engine
===============================================================================
