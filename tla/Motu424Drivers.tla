---------------------------- MODULE Motu424Drivers ----------------------------
(***************************************************************************)
(* How the three kernel modules of source/tools/drivers come and go: the    *)
(* prototype ALSA driver (motu_pci_alsa.c), the skeleton it grew from       *)
(* (motu_driver_skeleton.c), and the register window for the tools          *)
(* (motu_poke_driver.c).  Each acquires resources one after the other,      *)
(* gives back a list of its own when one fails, and another one at the end. *)
(* The lists are the code's; whether they fit together is the question.     *)
(***************************************************************************)
EXTENDS Sequences, Naturals

Drivers == {"pci_alsa", "skeleton", "poke"}

(* Steps that acquire nothing: they can only fail. *)
Checks == {"mask", "test", "pcm", "registered"}

(* What the probe does, in order.  The PCM and its registration belong to   *)
(* the card and go with it; "test" is the first use of the registers.       *)
Steps(d) ==
  CASE d = "pci_alsa" ->
         <<"card", "enabled", "mask", "regions", "map0", "map1", "map2", "test",
           "irq", "pcm", "registered">>
    [] d = "skeleton" ->
         <<"enabled", "card", "regions", "map0", "irq", "pcm", "registered">>
    [] d = "poke" ->
         <<"device", "enabled", "dma", "regions", "map0", "map1", "map2", "misc">>

(* The steps whose failure the code does not look at. *)
Ignored(d) ==
  CASE d = "pci_alsa" -> {"map0", "map1", "map2"}
    [] d = "skeleton" -> {}
    [] d = "poke"     -> {"dma", "regions", "map0", "map1", "map2"}

(* What an error path gives back, from a place in the list to its end: the  *)
(* labels of the skeleton, and the lists the other two spell out.           *)
Cleanup(d) ==
  CASE d = "pci_alsa" -> <<"irq", "map1", "map0", "regions", "enabled", "card">>
    [] d = "skeleton" -> <<"irq", "map0", "regions", "card", "enabled">>
    [] d = "poke"     -> <<"device">>

(* Mutant: a PCM that cannot be made goes to error_iomap. *)
Label_TooLow(d, r) ==
  CASE r \in {"pcm", "registered"} -> 2
    [] r = "irq"     -> 2
    [] r = "map0"    -> 3
    [] r = "mask"    -> 5
    [] r = "regions" -> IF d = "skeleton" THEN 4 ELSE 5
    [] r = "enabled" -> IF d = "poke" THEN 1 ELSE 6
    [] r = "card"    -> IF d = "skeleton" THEN 5 ELSE 7
    [] OTHER         -> 8

(* Where the failure of step r enters the list; 8 is past the end. *)
Label(d, r) ==
  CASE r \in {"pcm", "registered"} -> 1
    [] r = "irq"     -> 2
    [] r = "map0"    -> 3
    [] r = "mask"    -> 5
    [] r = "regions" -> IF d = "skeleton" THEN 4 ELSE 5
    [] r = "enabled" -> IF d = "poke" THEN 1 ELSE 6
    [] r = "card"    -> IF d = "skeleton" THEN 5 ELSE 7
    [] OTHER         -> 8

Unwind(d, r) == SubSeq(Cleanup(d), Label(d, r), Len(Cleanup(d)))

(* Mutant: the prototype unmaps the registers before it frees the interrupt. *)
Removal_UnmapsFirst(d) ==
  CASE d = "pci_alsa" ->
         <<"card", "map2", "map1", "irq", "map0", "regions", "enabled">>
    [] d = "skeleton" -> <<"irq", "map0", "regions", "card", "enabled">>
    [] d = "poke" -> <<"misc", "map2", "map1", "map0", "regions", "dma",
                       "enabled", "device">>

(* What remove, or the exit of the module, gives back. *)
Removal(d) ==
  CASE d = "pci_alsa" ->
         <<"card", "irq", "map2", "map1", "map0", "regions", "enabled">>
    [] d = "skeleton" -> <<"irq", "map0", "regions", "card", "enabled">>
    [] d = "poke" -> <<"misc", "map2", "map1", "map0", "regions", "dma",
                       "enabled", "device">>

(* Given back only if it is there: "if (iobase_bar2)", "if (dma_buf)", and   *)
(* pci_iounmap of NULL does nothing.                                        *)
Optional == {"map0", "map1", "map2", "dma"}

(* The mapping the driver's own code goes through. *)
Window(d) == IF d = "skeleton" THEN "map0" ELSE "map1"

Phases == {"probing", "unwinding", "failed", "bound", "removing", "removed",
           "panic"}

VARIABLES
  driver,  \* which of the three
  phase,   \* where its life is
  todo,    \* the steps, or the releases, still to do
  held     \* what it has

driverVars == <<driver, phase, todo, held>>

Resources == {"device", "card", "enabled", "regions", "map0", "map1", "map2",
              "dma", "irq", "misc"}

DriverTypeOK ==
  /\ driver \in Drivers /\ phase \in Phases
  /\ todo \in Seq(Resources \cup Checks)
  /\ held \subseteq Resources

DriverInit ==
  /\ driver \in Drivers
  /\ phase = "probing"
  /\ todo = Steps(driver)
  /\ held = {}

Acquire ==
  /\ phase = "probing" /\ todo # <<>>
  /\ Head(todo) = "test" => Window(driver) \in held
  /\ held' = held \cup ({Head(todo)} \ Checks)
  /\ todo' = Tail(todo)
  /\ UNCHANGED <<driver, phase>>

(* A step fails, and nobody looks. *)
Overlook ==
  /\ phase = "probing" /\ todo # <<>>
  /\ Head(todo) \in Ignored(driver)
  /\ todo' = Tail(todo)
  /\ UNCHANGED <<driver, phase, held>>

Fail ==
  /\ phase = "probing" /\ todo # <<>>
  /\ Head(todo) \notin Ignored(driver) \cup {"test"}
  /\ phase' = "unwinding"
  /\ todo' = Unwind(driver, Head(todo))
  /\ UNCHANGED <<driver, held>>

(* The registers are used through a mapping that is NULL. *)
TestUnmapped ==
  /\ phase = "probing" /\ todo # <<>>
  /\ Head(todo) = "test" /\ Window(driver) \notin held
  /\ phase' = "panic"
  /\ UNCHANGED <<driver, todo, held>>

(* motu_load_fpga, given the firmware and the port, toggles a bit of        *)
(* PORT_CONF before that.                                                   *)
LoadFpga ==
  /\ driver = "pci_alsa" /\ phase = "probing" /\ todo # <<>>
  /\ Head(todo) = "test" /\ "map2" \in held
  /\ phase' = IF Window(driver) \in held THEN phase ELSE "panic"
  /\ UNCHANGED <<driver, todo, held>>

Bind ==
  /\ phase = "probing" /\ todo = <<>>
  /\ phase' = "bound"
  /\ UNCHANGED <<driver, todo, held>>

Unbind ==
  /\ phase = "bound"
  /\ phase' = "removing"
  /\ todo' = Removal(driver)
  /\ UNCHANGED <<driver, held>>

Release(r) ==
  /\ phase \in {"unwinding", "removing"} /\ todo # <<>> /\ r = Head(todo)
  /\ held' = held \ {r}
  /\ todo' = Tail(todo)
  /\ UNCHANGED <<driver, phase>>

Done ==
  /\ phase \in {"unwinding", "removing"} /\ todo = <<>>
  /\ phase' = IF phase = "unwinding" THEN "failed" ELSE "removed"
  /\ UNCHANGED <<driver, todo, held>>

-------------------------------------------------------------------------------
(* motu_ioctl of the register window.  A read and a write of a BAR test the *)
(* mapping; a read of the DMA buffer tests the offset only.                 *)

Poke(r) ==
  /\ driver = "poke" /\ phase = "bound"
  /\ phase' = IF r = "dma" /\ r \notin held THEN "panic" ELSE phase
  /\ UNCHANGED <<driver, todo, held>>

(* The PCM of the skeleton has no open; the core calls it untested. *)
OpenSkeleton ==
  /\ driver = "skeleton" /\ phase = "bound"
  /\ phase' = "panic"
  /\ UNCHANGED <<driver, todo, held>>

-------------------------------------------------------------------------------
(* Properties                                                              *)

(* What a failed probe forgets: the prototype its port mapping, which only  *)
(* remove gives back; the skeleton nothing; the register window, which      *)
(* returns the result of misc_register, everything it had by then.          *)
FailedKeepsKnown ==
  phase = "failed" =>
    CASE driver = "pci_alsa" -> held \subseteq {"map2"}
      [] driver = "skeleton" -> held = {}
      [] driver = "poke"     -> "misc" \notin held
                                /\ (held # {} => {"device", "enabled"} \subseteq held)

(* Nothing is given back that was never got, or twice; except the regions   *)
(* of the register window, whose request may have been refused: then they   *)
(* are those of the driver bound to the card.                               *)
ReleasesItsOwn ==
  phase \in {"unwinding", "removing"} /\ todo # <<>>
     /\ Head(todo) \notin Optional /\ ~(driver = "poke" /\ Head(todo) = "regions")
  => Head(todo) \in held

(* The release lists fit what was acquired: on every error path each is of  *)
(* something held, a failed probe forgets only what is known, and a removed *)
(* driver has given everything back.                                        *)
(* (the error paths and the remove functions of the three modules)          *)
ReleasesFit ==
  /\ FailedKeepsKnown
  /\ ReleasesItsOwn
  /\ phase = "removed" => held = {}

(* The handler reads through the mapping whenever it is connected, and its  *)
(* data is part of the card: only the remove of the prototype frees the     *)
(* card first.  (snd_card_free, free_irq and the unmapping in the lists)    *)
HandlerSafe ==
  "irq" \in held =>
    /\ Window(driver) \in held
    /\ "card" \in held \/ (driver = "pci_alsa" /\ phase \in {"removing", "panic"})
===============================================================================
