------------------------ MODULE Motu424PrototypeProofs ------------------------
(***************************************************************************)
(* Theorems about the kernel modules of source/tools/drivers: their lists   *)
(* of releases, and the prototype ALSA driver at run time for buffers of    *)
(* any sizes.                                                               *)
(***************************************************************************)
EXTENDS Motu424Prototype, SequenceTheorems, TLAPS

-------------------------------------------------------------------------------
(* What the proofs keep of the lists                                       *)

Elements(s) == {s[n] : n \in 1..Len(s)}
Distinct(s) == \A m, n \in 1..Len(s) : s[m] = s[n] => m = n

(* How far the probe has come, and what it has done by then. *)
Reached == Len(Steps(driver)) - Len(todo)
Passed  == {Steps(driver)[n] : n \in 1..Reached}

(* The probe has done the first steps of its list and has the rest to do;   *)
(* it holds what it acquired, but for failures the code does not look at,   *)
(* and has passed the test of the prototype only with its window mapped.    *)
ProbingInv ==
  phase = "probing" =>
    /\ Len(todo) <= Len(Steps(driver))
    /\ \A n \in 1..Len(todo) : todo[n] = Steps(driver)[Reached + n]
    /\ Passed \ (Checks \cup Ignored(driver)) \subseteq held
    /\ held \subseteq Passed \ Checks
    /\ "test" \in Passed => Window(driver) \in held

BoundInv ==
  phase = "bound" =>
    /\ Elements(Steps(driver)) \ (Checks \cup Ignored(driver)) \subseteq held
    /\ held \subseteq Elements(Steps(driver)) \ Checks

(* A release list has no resource twice, and only resources that are held   *)
(* or that are tested for; what it lacks of those held is what a failed     *)
(* probe is known to forget; and the interrupt goes before its window and,  *)
(* the remove of the prototype excepted, before the card.                   *)
Forgotten ==
  CASE driver = "pci_alsa" -> held \subseteq Elements(todo) \cup {"map2"}
    [] driver = "skeleton" -> held \subseteq Elements(todo)
    [] driver = "poke"     -> /\ "misc" \notin held
                              /\ \/ held \subseteq Elements(todo)
                                 \/ todo = <<>> /\ {"device", "enabled"} \subseteq held

ReleaseInv ==
  phase \in {"unwinding", "removing"} =>
    /\ Distinct(todo)
    /\ \A n \in 1..Len(todo) :
         \/ todo[n] \in held \cup Optional
         \/ driver = "poke" /\ todo[n] = "regions"
    /\ phase = "removing" => held \subseteq Elements(todo)
    /\ phase = "unwinding" => Forgotten
    /\ \A m, n \in 1..Len(todo) : m < n /\ todo[n] = "irq" =>
         todo[m] = "card" /\ driver = "pci_alsa" /\ phase = "removing"

EndInv == FailedKeepsKnown /\ (phase = "removed" => held = {})

DriverInv ==
  DriverTypeOK /\ ProbingInv /\ BoundInv /\ ReleaseInv /\ EndInv /\ HandlerSafe

-------------------------------------------------------------------------------
(* The prototype at run time                                               *)

(* Who is in trigger has the stream lock; the core has called it in a state *)
(* it may be called in, which stays so until trigger returns.               *)
CallInv ==
  /\ \A p \in Procs : pc[p] # "idle" =>
       /\ streamLock = p /\ op[p] \in Ops
       /\ state = IF op[p] = "START" THEN "PREPARED" ELSE "RUNNING"
       /\ p # "client" => op[p] = "STOP"
  /\ pc["timer"] # "idle" => timerPc = "stop" /\ pc["timer"] # "return"
  /\ pc["irq"] # "idle" => irqPc = "stop"
  /\ timerPc = "elapsed" => streamLock = "timer"
  /\ irqPc = "elapsed" => streamLock = "irq"
  /\ timerPc = "stop" => pc["timer"] # "idle"

(* A substream that is open keeps the card, and its pointer is set. *)
CardInv ==
  /\ sub <=> state # "CLOSED"
  /\ state # "CLOSED" => /\ driver = "pci_alsa" /\ "card" \in held
                         /\ phase \in {"bound", "removing", "panic"}

(* START has taken effect, and has not returned. *)
Starting == \E p \in Procs : pc[p] = "return" /\ op[p] = "START"

(* The timer and the engine go on only in a running substream, unless a     *)
(* suspend was refused; the stop has ended both before it returns.          *)
StopInv ==
  /\ \A p \in Procs :
       /\ pc[p] = "sync" => op[p] = "STOP" /\ ~EngineOn(conf)
       /\ pc[p] = "return" /\ op[p] = "STOP" =>
            ~EngineOn(conf) /\ ~timer /\ timerPc = "idle"
  /\ ~suspended => /\ timer \/ timerPc # "idle" => state = "RUNNING" \/ Starting
                   /\ EngineOn(conf) => state = "RUNNING" \/ Starting

(* The size that hw_params compares with is the size of the shadow buffer   *)
(* whenever there is one.                                                   *)
ShadowInv ==
  /\ shadow # 0 => shadow = shadowSize /\ frames <= shadow
  /\ state \in {"CLOSED", "OPEN"} => shadow = 0

PrototypeInv ==
  /\ TypeOK /\ DriverInv
  /\ CallInv /\ CardInv /\ StopInv /\ ShadowInv

-------------------------------------------------------------------------------
(* Lemmas about lists                                                      *)

LEMMA TailOf ==
  ASSUME NEW S, NEW t \in Seq(S), t # <<>>
  PROVE  /\ Tail(t) \in Seq(S) /\ Len(Tail(t)) = Len(t) - 1
         /\ Head(t) = t[1] /\ 1 \in 1..Len(t) /\ Head(t) \in S
         /\ \A n \in 1..Len(Tail(t)) : Tail(t)[n] = t[n + 1] /\ n + 1 \in 1..Len(t)
         /\ Elements(t) = {Head(t)} \cup Elements(Tail(t))
<1>1. Len(t) \in Nat \ {0}
  OBVIOUS
<1>2. Tail(t) \in Seq(S) /\ Len(Tail(t)) = Len(t) - 1
  BY <1>1
<1>3. /\ Head(t) = t[1] /\ 1 \in 1..Len(t) /\ Head(t) \in S
  BY <1>1
<1>4. \A n \in 1..Len(Tail(t)) : Tail(t)[n] = t[n + 1] /\ n + 1 \in 1..Len(t)
  BY <1>1, <1>2
<1>5. \A n \in 1..Len(t) : n # 1 => n - 1 \in 1..Len(Tail(t)) /\ Tail(t)[n - 1] = t[n]
  BY <1>1, <1>2, <1>4
<1>6. Elements(t) = {Head(t)} \cup Elements(Tail(t))
  <2>1. ASSUME NEW x \in Elements(t) PROVE x \in {Head(t)} \cup Elements(Tail(t))
    <3>1. PICK n \in 1..Len(t) : x = t[n]
      BY <2>1 DEF Elements
    <3>2. CASE n = 1
      BY <1>3, <3>1, <3>2
    <3>3. CASE n # 1
      BY <1>5, <3>1, <3>3 DEF Elements
    <3>4. QED
      BY <3>2, <3>3
  <2>2. ASSUME NEW x \in {Head(t)} \cup Elements(Tail(t)) PROVE x \in Elements(t)
    <3>1. CASE x = Head(t)
      BY <1>3, <3>1 DEF Elements
    <3>2. CASE x \in Elements(Tail(t))
      BY <1>4, <3>2 DEF Elements
    <3>3. QED
      BY <2>2, <3>1, <3>2
  <2>3. QED
    BY <2>1, <2>2
<1>7. QED
  BY <1>2, <1>3, <1>4, <1>6

(* The lists of the drivers, place by place. *)
LEMMA PrototypeLists ==
  /\ LET S == Steps("pci_alsa") IN
       /\ Len(S) = 11 /\ S \in Seq(Resources \cup Checks)
       /\ S[1] = "card" /\ S[2] = "enabled" /\ S[3] = "mask" /\ S[4] = "regions"
       /\ S[5] = "map0" /\ S[6] = "map1" /\ S[7] = "map2" /\ S[8] = "test"
       /\ S[9] = "irq" /\ S[10] = "pcm" /\ S[11] = "registered"
  /\ LET C == Cleanup("pci_alsa") IN
       /\ Len(C) = 6 /\ C \in Seq(Resources)
       /\ C[1] = "irq" /\ C[2] = "map1" /\ C[3] = "map0" /\ C[4] = "regions"
       /\ C[5] = "enabled" /\ C[6] = "card"
  /\ LET R == Removal("pci_alsa") IN
       /\ Len(R) = 7 /\ R \in Seq(Resources)
       /\ R[1] = "card" /\ R[2] = "irq" /\ R[3] = "map2" /\ R[4] = "map1"
       /\ R[5] = "map0" /\ R[6] = "regions" /\ R[7] = "enabled"
BY DEF Steps, Cleanup, Removal, Resources, Checks

LEMMA SkeletonLists ==
  /\ LET S == Steps("skeleton") IN
       /\ Len(S) = 7 /\ S \in Seq(Resources \cup Checks)
       /\ S[1] = "enabled" /\ S[2] = "card" /\ S[3] = "regions" /\ S[4] = "map0"
       /\ S[5] = "irq" /\ S[6] = "pcm" /\ S[7] = "registered"
  /\ Cleanup("skeleton") = Removal("skeleton")
  /\ LET R == Removal("skeleton") IN
       /\ Len(R) = 5 /\ R \in Seq(Resources)
       /\ R[1] = "irq" /\ R[2] = "map0" /\ R[3] = "regions" /\ R[4] = "card"
       /\ R[5] = "enabled"
BY DEF Steps, Cleanup, Removal, Resources, Checks

LEMMA PokeLists ==
  /\ LET S == Steps("poke") IN
       /\ Len(S) = 8 /\ S \in Seq(Resources \cup Checks)
       /\ S[1] = "device" /\ S[2] = "enabled" /\ S[3] = "dma" /\ S[4] = "regions"
       /\ S[5] = "map0" /\ S[6] = "map1" /\ S[7] = "map2" /\ S[8] = "misc"
  /\ LET C == Cleanup("poke") IN
       Len(C) = 1 /\ C \in Seq(Resources) /\ C[1] = "device"
  /\ LET R == Removal("poke") IN
       /\ Len(R) = 8 /\ R \in Seq(Resources)
       /\ R[1] = "misc" /\ R[2] = "map2" /\ R[3] = "map1" /\ R[4] = "map0"
       /\ R[5] = "regions" /\ R[6] = "dma" /\ R[7] = "enabled" /\ R[8] = "device"
BY DEF Steps, Cleanup, Removal, Resources, Checks

(* What the failure of step r makes driver d give back. *)
GivenBack(d, r) == Elements(Unwind(d, r))

(* A list has nothing twice if its elements tell their places. *)
LEMMA DistinctBy ==
  ASSUME NEW s, NEW place, \A n \in 1..Len(s) : place[s[n]] = n
  PROVE  Distinct(s)
BY DEF Distinct

LEMMA CleanupOf ==
  ASSUME NEW d \in Drivers
  PROVE  /\ Cleanup(d) \in Seq(Resources) /\ Len(Cleanup(d)) \in 1..6
         /\ Distinct(Cleanup(d))
         /\ \A n \in 1..Len(Cleanup(d)) : Cleanup(d)[n] = "irq" => n = 1
<1>1. CASE d = "pci_alsa"
  <2> DEFINE C == Cleanup(d)
             place == [irq |-> 1, map1 |-> 2, map0 |-> 3, regions |-> 4,
                       enabled |-> 5, card |-> 6]
  <2>1. /\ Len(C) = 6 /\ C \in Seq(Resources)
        /\ C[1] = "irq" /\ C[2] = "map1" /\ C[3] = "map0" /\ C[4] = "regions"
        /\ C[5] = "enabled" /\ C[6] = "card"
    BY <1>1, PrototypeLists
  <2> HIDE DEF C
  <2>2. \A n \in 1..6 : place[C[n]] = n /\ (C[n] = "irq" => n = 1)
    BY <2>1
  <2>3. QED
    BY <2>1, <2>2, DistinctBy DEF C
<1>2. CASE d = "skeleton"
  <2> DEFINE C == Cleanup(d)
             place == [irq |-> 1, map0 |-> 2, regions |-> 3, card |-> 4,
                       enabled |-> 5]
  <2>1. /\ Len(C) = 5 /\ C \in Seq(Resources)
        /\ C[1] = "irq" /\ C[2] = "map0" /\ C[3] = "regions" /\ C[4] = "card"
        /\ C[5] = "enabled"
    BY <1>2, SkeletonLists
  <2> HIDE DEF C
  <2>2. \A n \in 1..5 : place[C[n]] = n /\ (C[n] = "irq" => n = 1)
    BY <2>1
  <2>3. QED
    BY <2>1, <2>2, DistinctBy DEF C
<1>3. CASE d = "poke"
  <2>1. Cleanup(d) \in Seq(Resources) /\ Len(Cleanup(d)) = 1
    BY <1>3, PokeLists
  <2>2. QED
    BY <2>1 DEF Distinct
<1>4. QED
  BY <1>1, <1>2, <1>3 DEF Drivers

(* An error path gives back the end of the list, so nothing twice, and the  *)
(* interrupt first.                                                         *)
LEMMA UnwindIs ==
  ASSUME NEW d \in Drivers, NEW r
  PROVE  /\ Unwind(d, r) \in Seq(Resources)
         /\ Distinct(Unwind(d, r))
         /\ \A n \in 1..Len(Unwind(d, r)) : Unwind(d, r)[n] = "irq" => n = 1
         /\ GivenBack(d, r) =
              {Cleanup(d)[j] : j \in Label(d, r)..Len(Cleanup(d))}
         /\ Label(d, r) = 8 => Unwind(d, r) = <<>>
<1>1. PICK m \in 1..8 : m = Label(d, r)
  BY DEF Label
<1>2. PICK C : /\ C = Cleanup(d)
               /\ C \in Seq(Resources) /\ Len(C) \in 1..6 /\ Distinct(C)
               /\ \A n \in 1..Len(C) : C[n] = "irq" => n = 1
  BY CleanupOf
<1>3. PICK U : U = Unwind(d, r) /\ U = SubSeq(C, m, Len(C))
  BY <1>1, <1>2 DEF Unwind
<1>4. \A j \in m..Len(C) : C[j] \in Resources
  BY <1>1, <1>2
<1>5. /\ U \in Seq(Resources)
      /\ Len(U) = IF m <= Len(C) THEN Len(C) - m + 1 ELSE 0
      /\ \A n \in 1..(Len(C) - m + 1) : U[n] = C[m + n - 1]
  BY <1>1, <1>2, <1>3, <1>4, SubSeqProperties
<1>6. \A n \in 1..Len(U) : U[n] = C[m + n - 1] /\ m + n - 1 \in m..Len(C)
  BY <1>1, <1>2, <1>5
<1>7. Distinct(U) /\ \A n \in 1..Len(U) : U[n] = "irq" => n = 1
  <2>1. \A n \in 1..Len(U) : m + n - 1 \in 1..Len(C)
    BY <1>1, <1>2, <1>6
  <2>2. ASSUME NEW j \in 1..Len(U), NEW n \in 1..Len(U), U[j] = U[n]
        PROVE  j = n
    <3>1. PICK a \in 1..Len(C), b \in 1..Len(C) : a = m + j - 1 /\ b = m + n - 1
      BY <2>1, <2>2
    <3>2. C[a] = C[b]
      BY <1>6, <2>2, <3>1
    <3>3. a = b
      BY <1>2, <3>2 DEF Distinct
    <3>4. QED
      BY <1>1, <3>1, <3>3
  <2>3. ASSUME NEW n \in 1..Len(U), U[n] = "irq" PROVE n = 1
    <3>1. m + n - 1 = 1
      BY <1>2, <1>6, <2>1, <2>3
    <3>2. QED
      BY <1>1, <3>1
  <2>4. QED
    BY <2>2, <2>3 DEF Distinct
<1>8. Elements(U) = {C[j] : j \in m..Len(C)}
  <2>1. ASSUME NEW j \in m..Len(C)
        PROVE  j - m + 1 \in 1..Len(U) /\ U[j - m + 1] = C[j]
    <3>1. m <= Len(C) /\ j - m + 1 \in 1..(Len(C) - m + 1) /\ m + (j - m + 1) - 1 = j
      BY <1>1, <1>2, <2>1
    <3>2. Len(U) = Len(C) - m + 1
      BY <1>5, <3>1
    <3>3. U[j - m + 1] = C[m + (j - m + 1) - 1]
      BY <1>5, <3>1
    <3>4. QED
      BY <3>1, <3>2, <3>3
  <2>2. ASSUME NEW x \in Elements(U) PROVE \E j \in m..Len(C) : x = C[j]
    BY <1>6, <2>2 DEF Elements
  <2>3. ASSUME NEW x \in {C[j] : j \in m..Len(C)} PROVE x \in Elements(U)
    BY <2>1, <2>3 DEF Elements
  <2>4. QED
    BY <2>2, <2>3
<1>9. m = 8 => U = <<>>
  BY <1>2, <1>5, SMTT(30)
<1>10. QED
  BY <1>1, <1>2, <1>3, <1>5, <1>7, <1>8, <1>9 DEF GivenBack

LEMMA GivenBackIs ==
  /\ GivenBack("pci_alsa", "card") = {}
  /\ GivenBack("pci_alsa", "enabled") = {"card"}
  /\ \A r \in {"mask", "regions"} : GivenBack("pci_alsa", r) = {"card", "enabled"}
  /\ GivenBack("pci_alsa", "irq") = {"card", "enabled", "regions", "map0", "map1"}
  /\ \A r \in {"pcm", "registered"} : GivenBack("pci_alsa", r) =
       {"card", "enabled", "regions", "map0", "map1", "irq"}
  /\ GivenBack("skeleton", "enabled") = {}
  /\ GivenBack("skeleton", "card") = {"enabled"}
  /\ GivenBack("skeleton", "regions") = {"enabled", "card"}
  /\ GivenBack("skeleton", "map0") = {"enabled", "card", "regions"}
  /\ GivenBack("skeleton", "irq") = {"enabled", "card", "regions", "map0"}
  /\ \A r \in {"pcm", "registered"} : GivenBack("skeleton", r) =
       {"enabled", "card", "regions", "map0", "irq"}
  /\ GivenBack("poke", "enabled") = {"device"}
  /\ \A r \in {"device", "misc"} : Unwind("poke", r) = <<>>
<1>1. \A d \in Drivers : \A r :
        GivenBack(d, r) = {Cleanup(d)[j] : j \in Label(d, r)..Len(Cleanup(d))}
  BY UnwindIs
<1>2. /\ Label("pci_alsa", "card") = 7 /\ Label("pci_alsa", "enabled") = 6
      /\ \A r \in {"mask", "regions"} : Label("pci_alsa", r) = 5
      /\ Label("pci_alsa", "irq") = 2
      /\ \A r \in {"pcm", "registered"} : Label("pci_alsa", r) = 1
      /\ Label("skeleton", "enabled") = 6 /\ Label("skeleton", "card") = 5
      /\ Label("skeleton", "regions") = 4 /\ Label("skeleton", "map0") = 3
      /\ Label("skeleton", "irq") = 2
      /\ \A r \in {"pcm", "registered"} : Label("skeleton", r) = 1
      /\ Label("poke", "enabled") = 1
      /\ \A r \in {"device", "misc"} : Label("poke", r) = 8
  BY DEF Label
<1>3. \A d \in Drivers : \A r : Label(d, r) = 8 => Unwind(d, r) = <<>>
  BY UnwindIs
<1>4. PICK C : /\ C = Cleanup("pci_alsa") /\ Len(C) = 6
               /\ C[1] = "irq" /\ C[2] = "map1" /\ C[3] = "map0"
               /\ C[4] = "regions" /\ C[5] = "enabled" /\ C[6] = "card"
  BY PrototypeLists
<1>5. /\ {C[j] : j \in 7..6} = {} /\ {C[j] : j \in 6..6} = {"card"}
      /\ {C[j] : j \in 5..6} = {"card", "enabled"}
      /\ {C[j] : j \in 2..6} = {"card", "enabled", "regions", "map0", "map1"}
      /\ {C[j] : j \in 1..6} = {"card", "enabled", "regions", "map0", "map1", "irq"}
  BY <1>4
<1>6. PICK D : /\ D = Cleanup("skeleton") /\ Len(D) = 5
               /\ D[1] = "irq" /\ D[2] = "map0" /\ D[3] = "regions"
               /\ D[4] = "card" /\ D[5] = "enabled"
  BY SkeletonLists
<1>7. /\ {D[j] : j \in 6..5} = {} /\ {D[j] : j \in 5..5} = {"enabled"}
      /\ {D[j] : j \in 4..5} = {"enabled", "card"}
      /\ {D[j] : j \in 3..5} = {"enabled", "card", "regions"}
      /\ {D[j] : j \in 2..5} = {"enabled", "card", "regions", "map0"}
      /\ {D[j] : j \in 1..5} = {"enabled", "card", "regions", "map0", "irq"}
  BY <1>6
<1>8. GivenBack("poke", "enabled") = {"device"}
  BY <1>1, <1>2, PokeLists, SMTT(30) DEF Drivers
<1>9. \A r : GivenBack("pci_alsa", r) = {C[j] : j \in Label("pci_alsa", r)..6}
  BY <1>1, <1>4 DEF Drivers
<1>10. \A r : GivenBack("skeleton", r) = {D[j] : j \in Label("skeleton", r)..5}
  BY <1>1, <1>6 DEF Drivers
<1>11. /\ GivenBack("pci_alsa", "card") = {}
       /\ GivenBack("pci_alsa", "enabled") = {"card"}
       /\ \A r \in {"mask", "regions"} : GivenBack("pci_alsa", r) = {"card", "enabled"}
       /\ GivenBack("pci_alsa", "irq") = {"card", "enabled", "regions", "map0", "map1"}
       /\ \A r \in {"pcm", "registered"} : GivenBack("pci_alsa", r) =
            {"card", "enabled", "regions", "map0", "map1", "irq"}
  BY <1>2, <1>5, <1>9, Zenon
<1>12. /\ GivenBack("skeleton", "enabled") = {}
       /\ GivenBack("skeleton", "card") = {"enabled"}
       /\ GivenBack("skeleton", "regions") = {"enabled", "card"}
       /\ GivenBack("skeleton", "map0") = {"enabled", "card", "regions"}
       /\ GivenBack("skeleton", "irq") = {"enabled", "card", "regions", "map0"}
       /\ \A r \in {"pcm", "registered"} : GivenBack("skeleton", r) =
            {"enabled", "card", "regions", "map0", "irq"}
  BY <1>2, <1>7, <1>10, Zenon
<1>13. \A r \in {"device", "misc"} : Unwind("poke", r) = <<>>
  BY <1>2, <1>3 DEF Drivers
<1>14. QED
  BY <1>8, <1>11, <1>12, <1>13

-------------------------------------------------------------------------------
(* A step that fails                                                       *)

LEMMA ProbingMeans ==
  ASSUME DriverTypeOK, ProbingInv, phase = "probing", todo # <<>>
  PROVE  LET S == Steps(driver) IN
         /\ Reached \in 0..(Len(S) - 1) /\ Head(todo) = S[Reached + 1]
         /\ \A n \in 1..Reached : S[n] \in held \cup Checks \cup Ignored(driver)
         /\ \A x \in held : x \notin Checks /\ \E n \in 1..Reached : x = S[n]
         /\ (\E n \in 1..Reached : S[n] = "test") => Window(driver) \in held
<1>1. Len(Steps(driver)) \in Nat
  BY PrototypeLists, SkeletonLists, PokeLists DEF DriverTypeOK, Drivers
<1>2. /\ Len(todo) \in Nat \ {0} /\ 1 \in 1..Len(todo) /\ Head(todo) = todo[1]
  BY TailOf DEF DriverTypeOK
<1>3. Reached \in 0..(Len(Steps(driver)) - 1)
  BY <1>1, <1>2 DEF ProbingInv, Reached
<1>4. Head(todo) = Steps(driver)[Reached + 1]
  BY <1>2 DEF ProbingInv
<1>5. QED
  BY <1>3, <1>4 DEF ProbingInv, Passed

(* Whatever fails, the error path it takes gives back what is held, and all *)
(* of it but what is known to be forgotten.                                 *)
LEMMA FailFits ==
  ASSUME DriverTypeOK, ProbingInv, phase = "probing", todo # <<>>,
         Head(todo) \notin Ignored(driver) \cup {"test"}
  PROVE  LET G == GivenBack(driver, Head(todo)) IN
         /\ G \subseteq held \cup Optional
         /\ CASE driver = "pci_alsa" -> held \subseteq G \cup {"map2"}
              [] driver = "skeleton" -> held \subseteq G
              [] driver = "poke"     ->
                   /\ "misc" \notin held
                   /\ \/ held \subseteq G
                      \/ /\ Unwind(driver, Head(todo)) = <<>>
                         /\ {"device", "enabled"} \subseteq held
<1> DEFINE S == Steps(driver)
<1>1. /\ Reached \in 0..(Len(S) - 1) /\ Head(todo) = S[Reached + 1]
      /\ \A n \in 1..Reached : S[n] \in held \cup Checks \cup Ignored(driver)
      /\ \A x \in held : x \notin Checks /\ \E n \in 1..Reached : x = S[n]
  BY ProbingMeans
<1>2. CASE driver = "pci_alsa"
  <2>1. /\ Len(S) = 11
        /\ S[1] = "card" /\ S[2] = "enabled" /\ S[3] = "mask" /\ S[4] = "regions"
        /\ S[5] = "map0" /\ S[6] = "map1" /\ S[7] = "map2" /\ S[8] = "test"
        /\ S[9] = "irq" /\ S[10] = "pcm" /\ S[11] = "registered"
    BY <1>2, PrototypeLists
  <2>2. Ignored(driver) = {"map0", "map1", "map2"}
    BY <1>2 DEF Ignored
  <2> HIDE DEF S
  <2>3. /\ Reached >= 1 => "card" \in held
        /\ Reached >= 2 => "enabled" \in held
        /\ Reached >= 4 => "regions" \in held
        /\ Reached >= 9 => "irq" \in held
    BY <1>1, <2>1, <2>2, SMTT(30) DEF Checks
  <2>4. ASSUME NEW x \in held
        PROVE  \/ x = "card" /\ Reached >= 1
               \/ x = "enabled" /\ Reached >= 2
               \/ x = "regions" /\ Reached >= 4
               \/ x \in {"map0", "map1", "map2"} /\ Reached >= 5
               \/ x = "irq" /\ Reached >= 9
    BY <1>1, <2>1, <2>4 DEF Checks
  <2>5. \/ Head(todo) = "card" /\ Reached = 0
        \/ Head(todo) = "enabled" /\ Reached = 1
        \/ Head(todo) \in {"mask", "regions"} /\ Reached \in {2, 3}
        \/ Head(todo) = "irq" /\ Reached = 8
        \/ Head(todo) \in {"pcm", "registered"} /\ Reached \in {9, 10}
    BY <1>1, <2>1, <2>2
  <2>6. QED
    BY <1>2, <2>3, <2>4, <2>5, GivenBackIs DEF Optional
<1>3. CASE driver = "skeleton"
  <2>1. /\ Len(S) = 7
        /\ S[1] = "enabled" /\ S[2] = "card" /\ S[3] = "regions" /\ S[4] = "map0"
        /\ S[5] = "irq" /\ S[6] = "pcm" /\ S[7] = "registered"
    BY <1>3, SkeletonLists
  <2>2. Ignored(driver) = {}
    BY <1>3 DEF Ignored
  <2> HIDE DEF S
  <2>3. /\ Reached >= 1 => "enabled" \in held
        /\ Reached >= 2 => "card" \in held
        /\ Reached >= 3 => "regions" \in held
        /\ Reached >= 4 => "map0" \in held
        /\ Reached >= 5 => "irq" \in held
    BY <1>1, <2>1, <2>2 DEF Checks
  <2>4. ASSUME NEW x \in held
        PROVE  \/ x = "enabled" /\ Reached >= 1
               \/ x = "card" /\ Reached >= 2
               \/ x = "regions" /\ Reached >= 3
               \/ x = "map0" /\ Reached >= 4
               \/ x = "irq" /\ Reached >= 5
    BY <1>1, <2>1, <2>4 DEF Checks
  <2>5. \/ Head(todo) = "enabled" /\ Reached = 0
        \/ Head(todo) = "card" /\ Reached = 1
        \/ Head(todo) = "regions" /\ Reached = 2
        \/ Head(todo) = "map0" /\ Reached = 3
        \/ Head(todo) = "irq" /\ Reached = 4
        \/ Head(todo) \in {"pcm", "registered"} /\ Reached \in {5, 6}
    BY <1>1, <2>1
  <2>6. QED
    BY <1>3, <2>3, <2>4, <2>5, GivenBackIs
<1>4. CASE driver = "poke"
  <2>1. /\ Len(S) = 8
        /\ S[1] = "device" /\ S[2] = "enabled" /\ S[3] = "dma" /\ S[4] = "regions"
        /\ S[5] = "map0" /\ S[6] = "map1" /\ S[7] = "map2" /\ S[8] = "misc"
    BY <1>4, PokeLists
  <2>2. Ignored(driver) = {"dma", "regions", "map0", "map1", "map2"}
    BY <1>4 DEF Ignored
  <2> HIDE DEF S
  <2>3. /\ Reached >= 1 => "device" \in held
        /\ Reached >= 2 => "enabled" \in held
        /\ "misc" \notin held
    BY <1>1, <2>1, <2>2 DEF Checks
  <2>4. ASSUME NEW x \in held
        PROVE  (x = "device" /\ Reached >= 1) \/ Reached >= 2
    BY <1>1, <2>1, <2>4
  <2>5. \/ Head(todo) = "device" /\ Reached = 0
        \/ Head(todo) = "enabled" /\ Reached = 1
        \/ Head(todo) = "misc" /\ Reached = 7
    BY <1>1, <2>1, <2>2
  <2>6. \A r \in {"device", "misc"} : GivenBack("poke", r) = {}
    BY GivenBackIs DEF GivenBack, Elements
  <2>7. QED
    BY <1>4, <2>3, <2>4, <2>5, <2>6, GivenBackIs
<1>5. QED
  BY <1>2, <1>3, <1>4 DEF DriverTypeOK, Drivers

-------------------------------------------------------------------------------
(* The other steps of a driver's life                                      *)

(* What a driver that is bound holds, and what its remove gives back. *)
LEMMA RemovalFits ==
  ASSUME DriverTypeOK, phase = "bound", BoundInv
  PROVE  LET R == Removal(driver) IN
         /\ R \in Seq(Resources) /\ Distinct(R)
         /\ \A n \in 1..Len(R) : \/ R[n] \in held \cup Optional
                                 \/ driver = "poke" /\ R[n] = "regions"
         /\ held \subseteq Elements(R)
         /\ \A m, n \in 1..Len(R) : m < n /\ R[n] = "irq" =>
              R[m] = "card" /\ driver = "pci_alsa"
<1> DEFINE R == Removal(driver) S == Steps(driver)
<1>1. /\ \A n \in 1..Len(S) : S[n] \in held \cup Checks \cup Ignored(driver)
      /\ \A x \in held : x \notin Checks /\ \E n \in 1..Len(S) : x = S[n]
  BY DEF BoundInv, Elements
<1>2. CASE driver = "pci_alsa"
  <2> DEFINE place == [card |-> 1, irq |-> 2, map2 |-> 3, map1 |-> 4, map0 |-> 5,
                       regions |-> 6, enabled |-> 7]
  <2>1. /\ Len(S) = 11
        /\ S[1] = "card" /\ S[2] = "enabled" /\ S[3] = "mask" /\ S[4] = "regions"
        /\ S[5] = "map0" /\ S[6] = "map1" /\ S[7] = "map2" /\ S[8] = "test"
        /\ S[9] = "irq" /\ S[10] = "pcm" /\ S[11] = "registered"
    BY <1>2, PrototypeLists
  <2>2. /\ Len(R) = 7 /\ R \in Seq(Resources)
        /\ R[1] = "card" /\ R[2] = "irq" /\ R[3] = "map2" /\ R[4] = "map1"
        /\ R[5] = "map0" /\ R[6] = "regions" /\ R[7] = "enabled"
    BY <1>2, PrototypeLists
  <2>3. Ignored(driver) = {"map0", "map1", "map2"}
    BY <1>2 DEF Ignored
  <2> HIDE DEF R, S
  <2>4. \A n \in 1..7 : place[R[n]] = n /\ (R[n] = "irq" => n = 2)
    BY <2>2
  <2>5. {"card", "enabled", "regions", "irq"} \subseteq held
    BY <1>1, <2>1, <2>3 DEF Checks
  <2>6. held \subseteq {"card", "enabled", "regions", "irq", "map0", "map1", "map2"}
    BY <1>1, <2>1 DEF Checks
  <2>7. \A n \in 1..7 : R[n] \in held \cup Optional
    BY <2>2, <2>5 DEF Optional
  <2>8. Elements(R) = {"card", "irq", "map2", "map1", "map0", "regions", "enabled"}
    BY <2>2 DEF Elements
  <2>9. \A m, n \in 1..7 : m < n /\ R[n] = "irq" => R[m] = "card"
    BY <2>2, <2>4
  <2>10. Distinct(R)
    BY <2>2, <2>4, DistinctBy
  <2>11. held \subseteq Elements(R)
    BY <2>6, <2>8
  <2>12. QED
    BY <1>2, <2>2, <2>7, <2>9, <2>10, <2>11 DEF R
<1>3. CASE driver = "skeleton"
  <2> DEFINE place == [irq |-> 1, map0 |-> 2, regions |-> 3, card |-> 4,
                       enabled |-> 5]
  <2>1. /\ Len(S) = 7
        /\ S[1] = "enabled" /\ S[2] = "card" /\ S[3] = "regions" /\ S[4] = "map0"
        /\ S[5] = "irq" /\ S[6] = "pcm" /\ S[7] = "registered"
    BY <1>3, SkeletonLists
  <2>2. /\ Len(R) = 5 /\ R \in Seq(Resources)
        /\ R[1] = "irq" /\ R[2] = "map0" /\ R[3] = "regions" /\ R[4] = "card"
        /\ R[5] = "enabled"
    BY <1>3, SkeletonLists
  <2>3. Ignored(driver) = {}
    BY <1>3 DEF Ignored
  <2> HIDE DEF R, S
  <2>4. \A n \in 1..5 : place[R[n]] = n /\ (R[n] = "irq" => n = 1)
    BY <2>2
  <2>5. {"card", "enabled", "regions", "irq", "map0"} \subseteq held
    BY <1>1, <2>1, <2>3 DEF Checks
  <2>6. held \subseteq {"card", "enabled", "regions", "irq", "map0"}
    BY <1>1, <2>1 DEF Checks
  <2>7. \A n \in 1..5 : R[n] \in held
    BY <2>2, <2>5
  <2>8. Elements(R) = {"card", "irq", "map0", "regions", "enabled"}
    BY <2>2 DEF Elements
  <2>9. Distinct(R)
    BY <2>2, <2>4, DistinctBy
  <2>10. held \subseteq Elements(R)
    BY <2>6, <2>8
  <2>11. \A m, n \in 1..5 : m < n => R[n] # "irq"
    BY <2>4
  <2>12. QED
    BY <1>3, <2>2, <2>7, <2>9, <2>10, <2>11 DEF R
<1>4. CASE driver = "poke"
  <2> DEFINE place == [misc |-> 1, map2 |-> 2, map1 |-> 3, map0 |-> 4,
                       regions |-> 5, dma |-> 6, enabled |-> 7, device |-> 8]
  <2>1. /\ Len(S) = 8
        /\ S[1] = "device" /\ S[2] = "enabled" /\ S[3] = "dma" /\ S[4] = "regions"
        /\ S[5] = "map0" /\ S[6] = "map1" /\ S[7] = "map2" /\ S[8] = "misc"
    BY <1>4, PokeLists
  <2>2. /\ Len(R) = 8 /\ R \in Seq(Resources)
        /\ R[1] = "misc" /\ R[2] = "map2" /\ R[3] = "map1" /\ R[4] = "map0"
        /\ R[5] = "regions" /\ R[6] = "dma" /\ R[7] = "enabled" /\ R[8] = "device"
    BY <1>4, PokeLists
  <2>3. Ignored(driver) = {"dma", "regions", "map0", "map1", "map2"}
    BY <1>4 DEF Ignored
  <2> HIDE DEF R, S
  <2>4. \A n \in 1..8 : place[R[n]] = n /\ R[n] # "irq"
    BY <2>2
  <2>5. {"device", "enabled", "misc"} \subseteq held
    BY <1>1, <2>1, <2>3 DEF Checks
  <2>6. held \subseteq {"device", "enabled", "dma", "regions", "map0", "map1",
                        "map2", "misc"}
    BY <1>1, <2>1
  <2>7. \A n \in 1..8 : R[n] \in held \cup Optional \/ R[n] = "regions"
    BY <2>2, <2>5 DEF Optional
  <2>8. Elements(R) = {"misc", "map2", "map1", "map0", "regions", "dma", "enabled",
                       "device"}
    BY <2>2 DEF Elements
  <2>9. Distinct(R)
    BY <2>2, <2>4, DistinctBy
  <2>10. held \subseteq Elements(R)
    BY <2>6, <2>8
  <2>11. \A n \in 1..8 : R[n] # "irq"
    BY <2>4
  <2>12. QED
    BY <1>4, <2>2, <2>7, <2>9, <2>10, <2>11 DEF R
<1>5. QED
  BY <1>2, <1>3, <1>4 DEF DriverTypeOK, Drivers

(* The interrupt is requested once the window is mapped and there is a card. *)
LEMMA RequestFits ==
  ASSUME DriverTypeOK, ProbingInv, phase = "probing", todo # <<>>,
         Head(todo) = "irq"
  PROVE  Window(driver) \in held /\ "card" \in held
<1> DEFINE S == Steps(driver)
<1>1. /\ Reached \in 0..(Len(S) - 1) /\ Head(todo) = S[Reached + 1]
      /\ \A n \in 1..Reached : S[n] \in held \cup Checks \cup Ignored(driver)
      /\ (\E n \in 1..Reached : S[n] = "test") => Window(driver) \in held
  BY ProbingMeans
<1>2. CASE driver = "pci_alsa"
  <2>1. /\ Len(S) = 11
        /\ S[1] = "card" /\ S[2] = "enabled" /\ S[3] = "mask" /\ S[4] = "regions"
        /\ S[5] = "map0" /\ S[6] = "map1" /\ S[7] = "map2" /\ S[8] = "test"
        /\ S[9] = "irq" /\ S[10] = "pcm" /\ S[11] = "registered"
    BY <1>2, PrototypeLists
  <2> HIDE DEF S
  <2>2. Reached = 8
    BY <1>1, <2>1
  <2>3. QED
    BY <1>1, <1>2, <2>1, <2>2 DEF Checks, Ignored
<1>3. CASE driver = "skeleton"
  <2>1. /\ Len(S) = 7
        /\ S[1] = "enabled" /\ S[2] = "card" /\ S[3] = "regions" /\ S[4] = "map0"
        /\ S[5] = "irq" /\ S[6] = "pcm" /\ S[7] = "registered"
    BY <1>3, SkeletonLists
  <2> HIDE DEF S
  <2>2. Reached = 4
    BY <1>1, <2>1
  <2>3. QED
    BY <1>1, <1>3, <2>1, <2>2 DEF Checks, Ignored, Window
<1>4. CASE driver = "poke"
  <2>1. /\ Len(S) = 8
        /\ S[1] = "device" /\ S[2] = "enabled" /\ S[3] = "dma" /\ S[4] = "regions"
        /\ S[5] = "map0" /\ S[6] = "map1" /\ S[7] = "map2" /\ S[8] = "misc"
    BY <1>4, PokeLists
  <2> HIDE DEF S
  <2>2. QED
    BY <1>1, <2>1
<1>5. QED
  BY <1>2, <1>3, <1>4 DEF DriverTypeOK, Drivers

LEMMA StepsType ==
  ASSUME NEW d \in Drivers
  PROVE  Steps(d) \in Seq(Resources \cup Checks) /\ Len(Steps(d)) \in 7..11
<1>1. CASE d = "pci_alsa"
  BY <1>1, PrototypeLists
<1>2. CASE d = "skeleton"
  BY <1>2, SkeletonLists
<1>3. CASE d = "poke"
  BY <1>3, PokeLists
<1>4. QED
  BY <1>1, <1>2, <1>3 DEF Drivers

LEMMA DriverStart == DriverInit => DriverInv
<1> SUFFICES ASSUME DriverInit PROVE DriverInv
  OBVIOUS
<1>1. Steps(driver) \in Seq(Resources \cup Checks) /\ Len(Steps(driver)) \in 7..11
  BY StepsType DEF DriverInit
<1>2. DriverTypeOK
  BY <1>1 DEF DriverInit, DriverTypeOK, Phases
<1>3. Reached = 0 /\ Passed = {}
  BY <1>1 DEF DriverInit, Reached, Passed
<1>4. ProbingInv
  BY <1>1, <1>3 DEF DriverInit, ProbingInv
<1>5. QED
  BY <1>2, <1>4 DEF DriverInit, DriverInv, BoundInv, ReleaseInv, EndInv,
                    FailedKeepsKnown, HandlerSafe

(* A step of the probe that is done, or overlooked. *)
LEMMA PassedStep ==
  ASSUME DriverTypeOK, ProbingInv, phase = "probing", todo # <<>>,
         todo' = Tail(todo), driver' = driver
  PROVE  /\ Len(todo') <= Len(Steps(driver))
         /\ \A n \in 1..Len(todo') : todo'[n] = Steps(driver)[Reached' + n]
         /\ Passed' = Passed \cup {Head(todo)}
<1> DEFINE S == Steps(driver)
<1>1. Len(S) \in Nat /\ S' = S
  BY StepsType DEF DriverTypeOK
<1>2. /\ Len(todo) \in Nat \ {0} /\ Len(todo') = Len(todo) - 1
      /\ \A n \in 1..Len(todo') : todo'[n] = todo[n + 1] /\ n + 1 \in 1..Len(todo)
  BY TailOf DEF DriverTypeOK
<1>3. Reached \in 0..(Len(S) - 1) /\ Head(todo) = S[Reached + 1]
  BY ProbingMeans
<1>4. Reached' = Reached + 1
  BY <1>1, <1>2 DEF Reached
<1>5. Len(todo) <= Len(S) /\ \A n \in 1..Len(todo) : todo[n] = S[Reached + n]
  BY DEF ProbingInv
<1>6. \A n \in 1..Len(todo') : todo'[n] = S[Reached' + n]
  <2> SUFFICES ASSUME NEW n \in 1..Len(todo') PROVE todo'[n] = S[Reached' + n]
    OBVIOUS
  <2>1. todo'[n] = S[Reached + (n + 1)]
    BY <1>2, <1>5
  <2>2. Reached + (n + 1) = Reached' + n
    BY <1>2, <1>3, <1>4
  <2>3. QED
    BY <2>1, <2>2
<1>7. Passed' = Passed \cup {Head(todo)}
  <2>1. 1..Reached' = (1..Reached) \cup {Reached + 1}
    BY <1>3, <1>4
  <2>2. Passed' = {S[n] : n \in 1..Reached'}
    BY <1>1 DEF Passed
  <2>3. Passed = {S[n] : n \in 1..Reached}
    BY DEF Passed
  <2> HIDE DEF S
  <2>4. QED
    BY <1>3, <2>1, <2>2, <2>3
<1>8. QED
  BY <1>2, <1>5, <1>6, <1>7

LEMMA AcquireKeeps == DriverInv /\ Acquire => DriverInv'
<1> SUFFICES ASSUME DriverInv, Acquire PROVE DriverInv'
  OBVIOUS
<1> USE DEF DriverInv
<1>1. /\ phase = "probing" /\ phase' = "probing" /\ driver' = driver /\ todo # <<>>
      /\ Head(todo) = "test" => Window(driver) \in held
      /\ todo' = Tail(todo) /\ held' = held \cup ({Head(todo)} \ Checks)
  BY DEF Acquire
<1>2. Tail(todo) \in Seq(Resources \cup Checks) /\ Head(todo) \in Resources \cup Checks
  BY <1>1, TailOf DEF DriverTypeOK
<1>3. DriverTypeOK'
  BY <1>1, <1>2 DEF DriverTypeOK
<1>4. ProbingInv'
  <2>1. /\ Len(todo') <= Len(Steps(driver))
        /\ \A n \in 1..Len(todo') : todo'[n] = Steps(driver)[Reached' + n]
        /\ Passed' = Passed \cup {Head(todo)}
    BY <1>1, PassedStep
  <2>2. /\ Passed \ (Checks \cup Ignored(driver)) \subseteq held
        /\ held \subseteq Passed \ Checks
        /\ "test" \in Passed => Window(driver) \in held
    BY <1>1 DEF ProbingInv
  <2>3. /\ Passed' \ (Checks \cup Ignored(driver)) \subseteq held'
        /\ held' \subseteq Passed' \ Checks
        /\ "test" \in Passed' => Window(driver) \in held'
    BY <1>1, <2>1, <2>2
  <2>4. QED
    BY <1>1, <2>1, <2>3 DEF ProbingInv
<1>5. HandlerSafe'
  <2>1. CASE Head(todo) = "irq"
    BY <1>1, <2>1, RequestFits DEF HandlerSafe
  <2>2. CASE Head(todo) # "irq"
    BY <1>1, <2>2 DEF HandlerSafe
  <2>3. QED
    BY <2>1, <2>2
<1>6. QED
  BY <1>1, <1>3, <1>4, <1>5 DEF BoundInv, ReleaseInv, EndInv, FailedKeepsKnown

LEMMA OverlookKeeps == DriverInv /\ Overlook => DriverInv'
<1> SUFFICES ASSUME DriverInv, Overlook PROVE DriverInv'
  OBVIOUS
<1> USE DEF DriverInv
<1>1. /\ phase = "probing" /\ phase' = "probing" /\ driver' = driver /\ todo # <<>>
      /\ Head(todo) \in Ignored(driver)
      /\ todo' = Tail(todo) /\ held' = held
  BY DEF Overlook
<1>2. Tail(todo) \in Seq(Resources \cup Checks) /\ Head(todo) # "test"
  BY <1>1, TailOf DEF DriverTypeOK, Ignored, Drivers
<1>3. ProbingInv'
  <2>1. /\ Len(todo') <= Len(Steps(driver))
        /\ \A n \in 1..Len(todo') : todo'[n] = Steps(driver)[Reached' + n]
        /\ Passed' = Passed \cup {Head(todo)}
    BY <1>1, PassedStep
  <2>2. /\ Passed \ (Checks \cup Ignored(driver)) \subseteq held
        /\ held \subseteq Passed \ Checks
        /\ "test" \in Passed => Window(driver) \in held
    BY <1>1 DEF ProbingInv
  <2>3. /\ Passed' \ (Checks \cup Ignored(driver)) \subseteq held'
        /\ held' \subseteq Passed' \ Checks
        /\ "test" \in Passed' => Window(driver) \in held'
    BY <1>1, <1>2, <2>1, <2>2
  <2>4. QED
    BY <1>1, <2>1, <2>3 DEF ProbingInv
<1>4. QED
  BY <1>1, <1>2, <1>3 DEF DriverTypeOK, HandlerSafe, BoundInv, ReleaseInv, EndInv,
                          FailedKeepsKnown

LEMMA FailKeeps == DriverInv /\ Fail => DriverInv'
<1> SUFFICES ASSUME DriverInv, Fail PROVE DriverInv'
  OBVIOUS
<1> USE DEF DriverInv
<1>1. PICK U : /\ phase = "probing" /\ phase' = "unwinding" /\ driver' = driver
               /\ todo # <<>> /\ Head(todo) \notin Ignored(driver) \cup {"test"}
               /\ U = Unwind(driver, Head(todo)) /\ todo' = U /\ held' = held
  BY DEF Fail
<1>2. /\ U \in Seq(Resources) /\ Distinct(U)
      /\ \A n \in 1..Len(U) : U[n] = "irq" => n = 1
      /\ Elements(U) = GivenBack(driver, Head(todo))
  BY <1>1, UnwindIs DEF DriverTypeOK, GivenBack
<1>3. /\ Elements(U) \subseteq held \cup Optional
      /\ CASE driver = "pci_alsa" -> held \subseteq Elements(U) \cup {"map2"}
           [] driver = "skeleton" -> held \subseteq Elements(U)
           [] driver = "poke"     ->
                /\ "misc" \notin held
                /\ \/ held \subseteq Elements(U)
                   \/ U = <<>> /\ {"device", "enabled"} \subseteq held
  BY <1>1, <1>2, FailFits
<1>4. DriverTypeOK'
  BY <1>1, <1>2 DEF DriverTypeOK, Phases
<1>5. ReleaseInv'
  <2>1. Forgotten'
    <3>1. Elements(todo)' = Elements(U)
      BY <1>1 DEF Elements
    <3>2. CASE driver = "pci_alsa"
      BY <1>1, <1>3, <3>1, <3>2 DEF Forgotten
    <3>3. CASE driver = "skeleton"
      BY <1>1, <1>3, <3>1, <3>3 DEF Forgotten
    <3>4. CASE driver = "poke"
      BY <1>1, <1>3, <3>1, <3>4 DEF Forgotten
    <3>5. QED
      BY <3>2, <3>3, <3>4 DEF DriverTypeOK, Drivers
  <2>2. \A n \in 1..Len(U) : U[n] \in held \cup Optional
    BY <1>3 DEF Elements
  <2>3. \A m, n \in 1..Len(U) : m < n => U[n] # "irq"
    BY <1>2
  <2>4. Distinct(todo')
    BY <1>1, <1>2
  <2>5. QED
    BY <1>1, <2>1, <2>2, <2>3, <2>4 DEF ReleaseInv, Distinct
<1>6. QED
  BY <1>1, <1>4, <1>5 DEF ProbingInv, HandlerSafe, BoundInv, EndInv, FailedKeepsKnown

LEMMA BindKeeps == DriverInv /\ Bind => DriverInv'
<1> SUFFICES ASSUME DriverInv, Bind PROVE DriverInv'
  OBVIOUS
<1> USE DEF DriverInv
<1>1. /\ phase = "probing" /\ phase' = "bound" /\ driver' = driver
      /\ todo = <<>> /\ todo' = todo /\ held' = held
  BY DEF Bind
<1>2. Passed = Elements(Steps(driver))
  <2>1. Len(Steps(driver)) \in Nat /\ Len(todo) = 0
    BY <1>1, StepsType DEF DriverTypeOK
  <2>2. QED
    BY <2>1 DEF Passed, Reached, Elements
<1>3. BoundInv'
  BY <1>1, <1>2 DEF ProbingInv, BoundInv, Elements
<1>4. QED
  BY <1>1, <1>3 DEF DriverTypeOK, Phases, ProbingInv, HandlerSafe, ReleaseInv, EndInv,
                    FailedKeepsKnown

LEMMA UnbindKeeps == DriverInv /\ Unbind => DriverInv'
<1> SUFFICES ASSUME DriverInv, Unbind PROVE DriverInv'
  OBVIOUS
<1> USE DEF DriverInv
<1>1. PICK R : /\ phase = "bound" /\ phase' = "removing" /\ driver' = driver
               /\ R = Removal(driver) /\ todo' = R /\ held' = held
  BY DEF Unbind
<1>2. /\ R \in Seq(Resources) /\ Distinct(R)
      /\ \A n \in 1..Len(R) : \/ R[n] \in held \cup Optional
                              \/ driver = "poke" /\ R[n] = "regions"
      /\ held \subseteq Elements(R)
      /\ \A m, n \in 1..Len(R) : m < n /\ R[n] = "irq" =>
           R[m] = "card" /\ driver = "pci_alsa"
  BY <1>1, RemovalFits
<1>3. DriverTypeOK'
  BY <1>1, <1>2 DEF DriverTypeOK, Phases
<1>4. ReleaseInv'
  BY <1>1, <1>2 DEF ReleaseInv, Distinct, Elements
<1>5. QED
  BY <1>1, <1>3, <1>4 DEF ProbingInv, HandlerSafe, BoundInv, EndInv, FailedKeepsKnown

LEMMA ReleaseKeeps ==
  ASSUME NEW r, DriverInv, Release(r)
  PROVE  DriverInv'
<1> USE DEF DriverInv
<1>1. /\ phase \in {"unwinding", "removing"} /\ phase' = phase /\ driver' = driver
      /\ todo # <<>> /\ r = Head(todo)
      /\ todo' = Tail(todo) /\ held' = held \ {r}
  BY DEF Release
<1>2. PICK T : /\ T = Tail(todo)
               /\ T \in Seq(Resources \cup Checks) /\ Len(T) = Len(todo) - 1
               /\ r = todo[1] /\ 1 \in 1..Len(todo) /\ Len(todo) \in Nat
               /\ \A n \in 1..Len(T) : T[n] = todo[n + 1] /\ n + 1 \in 1..Len(todo)
               /\ Elements(todo) = {r} \cup Elements(T)
  <2>1. todo \in Seq(Resources \cup Checks) /\ Len(todo) \in Nat
    BY DEF DriverTypeOK
  <2>2. QED
    BY <1>1, <2>1, TailOf
<1>3. /\ Distinct(todo)
      /\ \A n \in 1..Len(todo) : \/ todo[n] \in held \cup Optional
                                 \/ driver = "poke" /\ todo[n] = "regions"
      /\ phase = "removing" => held \subseteq Elements(todo)
      /\ phase = "unwinding" => Forgotten
      /\ \A m, n \in 1..Len(todo) : m < n /\ todo[n] = "irq" =>
           todo[m] = "card" /\ driver = "pci_alsa" /\ phase = "removing"
  BY <1>1 DEF ReleaseInv
<1>4. DriverTypeOK'
  BY <1>1, <1>2 DEF DriverTypeOK
<1>5. ReleaseInv'
  <2>1. Distinct(T)
    <3>1. ASSUME NEW m \in 1..Len(T), NEW n \in 1..Len(T), T[m] = T[n]
          PROVE  m = n
      <4>1. todo[m + 1] = todo[n + 1]
        BY <1>2, <3>1
      <4>2. m + 1 = n + 1
        BY <1>2, <1>3, <4>1 DEF Distinct
      <4>3. QED
        BY <1>2, <4>2
    <3>2. QED
      BY <3>1 DEF Distinct
  <2>2. ASSUME NEW n \in 1..Len(T)
        PROVE  \/ T[n] \in held' \cup Optional
               \/ driver = "poke" /\ T[n] = "regions"
    <3>1. T[n] = todo[n + 1] /\ n + 1 \in 1..Len(todo) /\ n + 1 # 1
      BY <1>2
    <3>2. todo[n + 1] # r
      BY <1>2, <1>3, <3>1 DEF Distinct
    <3>3. QED
      BY <1>1, <1>3, <3>1, <3>2
  <2>3. ASSUME NEW m \in 1..Len(T), NEW n \in 1..Len(T), m < n, T[n] = "irq"
        PROVE  T[m] = "card" /\ driver = "pci_alsa" /\ phase = "removing"
    <3>1. /\ m + 1 \in 1..Len(todo) /\ n + 1 \in 1..Len(todo) /\ m + 1 < n + 1
          /\ todo[n + 1] = "irq" /\ todo[m + 1] = T[m]
      BY <1>2, <2>3
    <3>2. QED
      BY <1>3, <3>1
  <2>4. Elements(todo)' = Elements(T)
    BY <1>1, <1>2 DEF Elements
  <2>5. phase = "removing" => held' \subseteq Elements(T)
    BY <1>1, <1>2, <1>3
  <2>6. phase = "unwinding" => Forgotten'
    <3>1. CASE driver = "pci_alsa"
      BY <1>1, <1>2, <1>3, <2>4, <3>1 DEF Forgotten
    <3>2. CASE driver = "skeleton"
      BY <1>1, <1>2, <1>3, <2>4, <3>2 DEF Forgotten
    <3>3. CASE driver = "poke"
      BY <1>1, <1>2, <1>3, <2>4, <3>3 DEF Forgotten
    <3>4. QED
      BY <3>1, <3>2, <3>3 DEF DriverTypeOK, Drivers
  <2>7. todo' = T
    BY <1>1, <1>2
  <2>8. Distinct(todo)'
    BY <2>1, <2>7 DEF Distinct
  <2>9. \A n \in 1..Len(todo') : \/ todo'[n] \in held' \cup Optional
                                 \/ driver' = "poke" /\ todo'[n] = "regions"
    BY <1>1, <2>2, <2>7
  <2>10. \A m, n \in 1..Len(todo') : m < n /\ todo'[n] = "irq" =>
           todo'[m] = "card" /\ driver' = "pci_alsa" /\ phase' = "removing"
    BY <1>1, <2>3, <2>7
  <2>11. phase' = "removing" => held' \subseteq Elements(todo)'
    BY <1>1, <2>4, <2>5
  <2>12. QED
    BY <1>1, <2>6, <2>8, <2>9, <2>10, <2>11 DEF ReleaseInv
<1>6. HandlerSafe'
  <2>1. SUFFICES ASSUME "irq" \in held' PROVE HandlerSafe'
    BY <1>1 DEF HandlerSafe
  <2>2. r # "irq" /\ "irq" \in held
    BY <1>1, <2>1
  <2>3. "irq" \in Elements(todo)
    <3>1. CASE phase = "removing"
      BY <1>3, <2>2, <3>1
    <3>2. CASE phase = "unwinding"
      <4>1. Forgotten
        BY <1>3, <3>2
      <4>2. QED
        BY <1>1, <2>2, <4>1 DEF Forgotten, DriverTypeOK, Drivers
    <3>3. QED
      BY <1>1, <3>1, <3>2
  <2>4. PICK n \in 1..Len(todo) : todo[n] = "irq"
    BY <2>3 DEF Elements
  <2>5. 1 < n
    BY <1>2, <2>2, <2>4
  <2>6. r = "card" /\ driver = "pci_alsa" /\ phase = "removing"
    BY <1>2, <1>3, <2>4, <2>5
  <2>7. QED
    BY <1>1, <2>2, <2>6 DEF HandlerSafe, Window
<1>7. QED
  BY <1>1, <1>4, <1>5, <1>6 DEF ProbingInv, BoundInv, EndInv, FailedKeepsKnown

LEMMA DoneKeeps == DriverInv /\ Done => DriverInv'
<1> SUFFICES ASSUME DriverInv, Done PROVE DriverInv'
  OBVIOUS
<1> USE DEF DriverInv
<1>1. /\ \/ phase = "unwinding" /\ phase' = "failed"
         \/ phase = "removing" /\ phase' = "removed"
      /\ todo = <<>> /\ UNCHANGED <<driver, todo, held>>
  BY DEF Done
<1>2. Elements(todo) = {}
  BY <1>1 DEF Elements
<1>3. DriverTypeOK'
  BY <1>1 DEF DriverTypeOK, Phases
<1>4. EndInv'
  <2>1. CASE phase = "removing" /\ phase' = "removed"
    BY <1>1, <1>2, <2>1 DEF ReleaseInv, EndInv, FailedKeepsKnown
  <2>2. CASE phase = "unwinding" /\ phase' = "failed"
    <3>1. Forgotten
      BY <2>2 DEF ReleaseInv
    <3>2. CASE driver = "pci_alsa"
      BY <1>1, <1>2, <2>2, <3>1, <3>2 DEF Forgotten, EndInv, FailedKeepsKnown
    <3>3. CASE driver = "skeleton"
      BY <1>1, <1>2, <2>2, <3>1, <3>3 DEF Forgotten, EndInv, FailedKeepsKnown
    <3>4. CASE driver = "poke"
      BY <1>1, <1>2, <2>2, <3>1, <3>4 DEF Forgotten, EndInv, FailedKeepsKnown
    <3>5. QED
      BY <3>2, <3>3, <3>4 DEF DriverTypeOK, Drivers
  <2>3. QED
    BY <1>1, <2>1, <2>2
<1>5. HandlerSafe'
  BY <1>1, <1>4 DEF HandlerSafe, EndInv
<1>6. QED
  BY <1>1, <1>3, <1>4, <1>5 DEF ProbingInv, BoundInv, ReleaseInv

(* Where the kernel stops, what there is is still there. *)
LEMMA PanicKeeps ==
  ASSUME DriverInv, phase' = "panic", UNCHANGED <<driver, todo, held>>
  PROVE  DriverInv'
BY DEF DriverInv, DriverTypeOK, Phases, ProbingInv, BoundInv, ReleaseInv, EndInv,
       FailedKeepsKnown, HandlerSafe

LEMMA DriverStays ==
  ASSUME DriverInv, UNCHANGED driverVars
  PROVE  DriverInv'
<1>1. /\ driver' = driver /\ phase' = phase /\ todo' = todo /\ held' = held
  BY DEF driverVars
<1>2. DriverTypeOK' /\ HandlerSafe' /\ EndInv'
  BY <1>1 DEF DriverInv, DriverTypeOK, HandlerSafe, EndInv, FailedKeepsKnown
<1>3. ProbingInv' /\ BoundInv'
  BY <1>1 DEF DriverInv, ProbingInv, BoundInv, Passed, Reached, Elements
<1>4. ReleaseInv'
  <2>1. Elements(todo)' = Elements(todo) /\ Distinct(todo)' = Distinct(todo)
    BY <1>1 DEF Elements, Distinct
  <2>2. Forgotten' = Forgotten
    BY <1>1, <2>1 DEF Forgotten
  <2>3. QED
    BY <1>1, <2>1, <2>2 DEF DriverInv, ReleaseInv
<1>5. QED
  BY <1>2, <1>3, <1>4 DEF DriverInv

(* A use of the card goes well or is the end. *)
LEMMA UseKeeps ==
  ASSUME DriverInv, LoadFpga \/ \E r : Poke(r)
  PROVE  DriverInv'
<1>1. phase' \in {phase, "panic"} /\ UNCHANGED <<driver, todo, held>>
  BY DEF LoadFpga, Poke
<1>2. CASE phase' = "panic"
  BY <1>1, <1>2, PanicKeeps
<1>3. CASE phase' = phase
  BY <1>1, <1>3, DriverStays DEF driverVars
<1>4. QED
  BY <1>1, <1>2, <1>3

(* Whatever becomes of a driver, its lists fit. *)
LEMMA DriverStep == DriverInv /\ [Next]_vars => DriverInv'
<1> SUFFICES ASSUME DriverInv, [Next]_vars PROVE DriverInv'
  OBVIOUS
<1>1. CASE Lifecycle
  BY <1>1, AcquireKeeps, OverlookKeeps, FailKeeps, BindKeeps, UnbindKeeps, DoneKeeps,
     ReleaseKeeps, UseKeeps, PanicKeeps DEF Lifecycle, TestUnmapped, OpenSkeleton
<1>2. CASE RemoveFreed
  BY <1>2, PanicKeeps DEF RemoveFreed
<1>3. CASE IrqFreed
  BY <1>3, PanicKeeps DEF IrqFreed
<1>4. CASE Client
  <2>1. UNCHANGED driverVars
    BY <1>4 DEF Client, Open, Prepare, HwFree, Close, HwParams, ClientTrigger
  <2>2. QED
    BY <2>1, DriverStays
<1>5. CASE \E p \in Procs : Callback(p)
  <2>1. UNCHANGED driverVars
    BY <1>5 DEF Callback, Act, Sync, Return
  <2>2. QED
    BY <2>1, DriverStays
<1>6. CASE TimerFires \/ Timer \/ IrqEnter \/ IrqHandler
  <2>1. UNCHANGED driverVars
    BY <1>6 DEF TimerFires, Timer, TimerCheck, TimerCall, TimerElapsed, TimerRearm,
                IrqEnter, IrqHandler, IrqCheck, IrqCall, IrqElapsed, IrqStopped
  <2>2. QED
    BY <2>1, DriverStays
<1>7. CASE UNCHANGED vars
  BY <1>7, DriverStays DEF vars, driverVars
<1>8. QED
  BY <1>1, <1>2, <1>3, <1>4, <1>5, <1>6, <1>7 DEF Next

-------------------------------------------------------------------------------
(* The substream, its timer and the handler                                *)

(* A prototype that is bound has its card. *)
LEMMA BoundHasCard ==
  ASSUME BoundInv, Registered
  PROVE  "card" \in held
<1>1. "card" = Steps(driver)[1] /\ 1 \in 1..Len(Steps(driver))
  BY PrototypeLists DEF Registered
<1>2. QED
  BY <1>1 DEF Registered, BoundInv, Elements, Checks, Ignored

LEMMA FlagFacts ==
  ASSUME NEW c
  PROVE  ~EngineOn(Stopped(c))
BY DEF EngineOn, Stopped

LEMMA RunStart == Init => PrototypeInv
<1> SUFFICES ASSUME Init PROVE PrototypeInv
  OBVIOUS
<1>1. DriverInv
  BY DriverStart DEF Init
<1>2. TypeOK
  BY <1>1 DEF Init, TypeOK, DriverInv, Flags, Procs, Ops
<1>3. CallInv /\ CardInv /\ ShadowInv
  BY DEF Init, CallInv, CardInv, ShadowInv, Procs
<1>4. StopInv
  BY DEF Init, StopInv, EngineOn, Procs
<1>5. QED
  BY <1>1, <1>2, <1>3, <1>4 DEF PrototypeInv

(* Nobody is in trigger when the stream lock is free, nor, the client       *)
(* apart, on a substream that does not run.                                 *)
LEMMA AtRest ==
  ASSUME TypeOK, CallInv,
         streamLock = None \/ (pc["client"] = "idle" /\ state # "RUNNING")
  PROVE  (\A p \in Procs : pc[p] = "idle") /\ ~Starting
BY DEF TypeOK, CallInv, Starting, Procs, None

(* One process at a time is in trigger. *)
LEMMA OneInTrigger ==
  ASSUME CallInv, NEW p \in Procs, pc[p] # "idle"
  PROVE  /\ \A q \in Procs : q # p => pc[q] = "idle"
         /\ streamLock = p /\ op[p] \in Ops
         /\ state = IF op[p] = "START" THEN "PREPARED" ELSE "RUNNING"
         /\ timerPc # "elapsed" /\ irqPc # "elapsed"
BY DEF CallInv, Procs

LEMMA OpenKeeps ==
  ASSUME PrototypeInv, DriverInv', Open
  PROVE  PrototypeInv'
<1> USE DEF PrototypeInv
<1>1. (\A p \in Procs : pc[p] = "idle") /\ ~Starting
  BY AtRest DEF Open, CallInv, Procs
<1>2. "card" \in held
  BY BoundHasCard DEF Open, DriverInv
<1>3. TypeOK'
  BY <1>1, <1>2 DEF TypeOK, DriverInv, bufVars, callVars, Open, Registered
<1>4. CallInv'
  BY <1>1, <1>2 DEF CallInv, Procs, driverVars, bufVars, callVars, Open, Registered
<1>5. CardInv'
  BY <1>1, <1>2 DEF CardInv, driverVars, bufVars, callVars, Open, Registered
<1>6. StopInv'
  BY <1>1, <1>2 DEF StopInv, Starting, driverVars, bufVars, callVars, Open, Registered
<1>7. ShadowInv'
  BY <1>1, <1>2 DEF ShadowInv, driverVars, bufVars, callVars, Open, Registered
<1>8. QED
  BY <1>3, <1>4, <1>5, <1>6, <1>7

LEMMA HwParamsKeeps ==
  ASSUME NEW n \in Sizes, PrototypeInv, DriverInv', HwParams(n)
  PROVE  PrototypeInv'
<1> USE DEF PrototypeInv
<1>1. (\A p \in Procs : pc[p] = "idle") /\ ~Starting
  BY AtRest DEF HwParams
<1>2. n \in Nat \ {0} /\ Sizes \subseteq Nat
  BY SizesAssumption
<1>3. TypeOK'
  BY <1>1, <1>2 DEF TypeOK, DriverInv, bufVars, callVars, HwParams, Shadow
<1>4. CallInv'
  BY <1>1, <1>2 DEF CallInv, Procs, driverVars, bufVars, callVars, HwParams, Shadow
<1>5. CardInv'
  BY <1>1, <1>2 DEF CardInv, driverVars, bufVars, callVars, HwParams, Shadow
<1>6. StopInv'
  BY <1>1, <1>2 DEF StopInv, Starting, driverVars, bufVars, callVars, HwParams, Shadow
<1>7. ShadowInv'
  BY <1>1, <1>2 DEF ShadowInv, driverVars, bufVars, callVars, HwParams, Shadow
<1>8. QED
  BY <1>3, <1>4, <1>5, <1>6, <1>7

LEMMA PrepareKeeps ==
  ASSUME PrototypeInv, DriverInv', Prepare
  PROVE  PrototypeInv'
<1> USE DEF PrototypeInv
<1>1. (\A p \in Procs : pc[p] = "idle") /\ ~Starting
  BY AtRest DEF Prepare
<1>2. TypeOK'
  BY <1>1 DEF TypeOK, DriverInv, bufVars, callVars, Prepare
<1>3. CallInv'
  BY <1>1 DEF CallInv, Procs, driverVars, bufVars, callVars, Prepare
<1>4. CardInv'
  BY <1>1 DEF CardInv, driverVars, bufVars, callVars, Prepare
<1>5. StopInv'
  BY <1>1 DEF StopInv, Starting, driverVars, bufVars, callVars, Prepare
<1>6. ShadowInv'
  BY <1>1 DEF ShadowInv, driverVars, bufVars, callVars, Prepare
<1>7. QED
  BY <1>2, <1>3, <1>4, <1>5, <1>6

LEMMA HwFreeKeeps ==
  ASSUME PrototypeInv, DriverInv', HwFree
  PROVE  PrototypeInv'
<1> USE DEF PrototypeInv
<1>1. (\A p \in Procs : pc[p] = "idle") /\ ~Starting
  BY AtRest DEF HwFree
<1>2. TypeOK'
  BY <1>1 DEF TypeOK, DriverInv, bufVars, callVars, HwFree
<1>3. CallInv'
  BY <1>1 DEF CallInv, Procs, driverVars, bufVars, callVars, HwFree
<1>4. CardInv'
  BY <1>1 DEF CardInv, driverVars, bufVars, callVars, HwFree
<1>5. StopInv'
  BY <1>1 DEF StopInv, Starting, driverVars, bufVars, callVars, HwFree
<1>6. ShadowInv'
  BY <1>1 DEF ShadowInv, driverVars, bufVars, callVars, HwFree
<1>7. QED
  BY <1>2, <1>3, <1>4, <1>5, <1>6

LEMMA CloseKeeps ==
  ASSUME PrototypeInv, DriverInv', Close
  PROVE  PrototypeInv'
<1> USE DEF PrototypeInv
<1>1. (\A p \in Procs : pc[p] = "idle") /\ ~Starting
  BY AtRest DEF Close
<1>2. shadow' = 0
  BY DEF Close, ShadowInv
<1>3. TypeOK'
  BY <1>1, <1>2 DEF TypeOK, DriverInv, bufVars, callVars, Close
<1>4. CallInv'
  BY <1>1, <1>2 DEF CallInv, Procs, driverVars, bufVars, callVars, Close
<1>5. CardInv'
  BY <1>1, <1>2 DEF CardInv, driverVars, bufVars, callVars, Close
<1>6. StopInv'
  BY <1>1, <1>2 DEF StopInv, Starting, driverVars, bufVars, callVars, Close
<1>7. ShadowInv'
  BY <1>1, <1>2 DEF ShadowInv, driverVars, bufVars, callVars, Close
<1>8. QED
  BY <1>3, <1>4, <1>5, <1>6, <1>7

LEMMA ClientTriggerKeeps ==
  ASSUME NEW o \in Ops, PrototypeInv, DriverInv', ClientTrigger(o)
  PROVE  PrototypeInv'
<1> USE DEF PrototypeInv
<1>1. (\A p \in Procs : pc[p] = "idle") /\ ~Starting
  BY AtRest DEF ClientTrigger, Trigger
<1>2. /\ pc' \in [Procs -> {"idle", "lock", "sync", "return"}]
      /\ op' \in [Procs -> Ops \cup {None}]
  BY DEF ClientTrigger, Trigger, callVars, TypeOK
<1>3. /\ \A p \in Procs : pc'[p] = (IF p = "client" THEN "lock" ELSE pc[p])
      /\ \A p \in Procs : op'[p] = (IF p = "client" THEN o ELSE op[p])
      /\ streamLock = None /\ streamLock' = "client"
  BY DEF ClientTrigger, Trigger, TypeOK, Procs
<1>4. timerPc \notin {"elapsed", "stop"} /\ irqPc # "elapsed"
  BY <1>1, <1>3 DEF CallInv, None, Procs
<1>5. /\ UNCHANGED <<state, conf, timer, timerPc, irqPc, suspended>>
      /\ state = IF o = "START" THEN "PREPARED" ELSE "RUNNING"
  BY DEF ClientTrigger
<1>6. TypeOK'
  BY <1>1, <1>2, <1>3, <1>4, <1>5 DEF TypeOK, DriverInv, bufVars, callVars,
                                      ClientTrigger, Trigger
<1>7. CallInv'
  BY <1>1, <1>2, <1>3, <1>4, <1>5 DEF CallInv, Procs
<1>8. CardInv'
  BY <1>1, <1>2, <1>3, <1>4, <1>5 DEF CardInv, driverVars, bufVars, callVars,
                                      ClientTrigger, Trigger
<1>9. StopInv'
  BY <1>1, <1>2, <1>3, <1>4, <1>5 DEF StopInv, Starting
<1>10. ShadowInv'
  BY <1>1, <1>2, <1>3, <1>4, <1>5 DEF ShadowInv, driverVars, bufVars, callVars,
                                      ClientTrigger, Trigger
<1>11. QED
  BY <1>6, <1>7, <1>8, <1>9, <1>10

LEMMA ActKeeps ==
  ASSUME NEW p \in Procs, PrototypeInv, DriverInv', Act(p)
  PROVE  PrototypeInv'
<1> USE DEF PrototypeInv
<1>1. /\ \A q \in Procs : q # p => pc[q] = "idle"
      /\ streamLock = p /\ op[p] \in Ops
      /\ state = IF op[p] = "START" THEN "PREPARED" ELSE "RUNNING"
      /\ timerPc # "elapsed" /\ irqPc # "elapsed"
  BY OneInTrigger DEF Act
<1>2. /\ pc' \in [Procs -> {"idle", "lock", "sync", "return"}]
      /\ op' \in [Procs -> Ops \cup {None}]
  BY DEF Act, callVars, TypeOK
<1>3. \A q \in Procs :
         pc'[q] = IF q # p THEN pc[q] ELSE IF op[p] = "STOP" THEN "sync" ELSE "return"
  BY DEF Act, TypeOK, Procs
<1>4. /\ conf' \subseteq Flags /\ timer' \in BOOLEAN /\ dmaRunning' \in BOOLEAN
      /\ op[p] = "STOP" => ~EngineOn(conf') /\ timer' = timer
      /\ op[p] \notin {"START", "STOP"} => conf' = conf /\ timer' = timer
  BY FlagFacts DEF Act, TypeOK, Started, Stopped, Flags
<1>5. UNCHANGED <<state, op, timerPc, suspended>>
  BY DEF Act
<1>6. TypeOK'
  BY <1>1, <1>2, <1>3, <1>4, <1>5 DEF TypeOK, DriverInv, bufVars, callVars, Act
<1>7. CallInv'
  BY <1>1, <1>2, <1>3, <1>4, <1>5 DEF CallInv, Procs, driverVars, bufVars, callVars, Act
<1>8. CardInv'
  BY <1>1, <1>2, <1>3, <1>4, <1>5 DEF CardInv, driverVars, bufVars, callVars, Act
<1>9. StopInv'
  BY <1>1, <1>2, <1>3, <1>4, <1>5 DEF StopInv, Starting
<1>10. ShadowInv'
  BY <1>1, <1>2, <1>3, <1>4, <1>5 DEF ShadowInv, driverVars, bufVars, callVars, Act
<1>11. QED
  BY <1>6, <1>7, <1>8, <1>9, <1>10

LEMMA SyncKeeps ==
  ASSUME NEW p \in Procs, PrototypeInv, DriverInv', Sync(p)
  PROVE  PrototypeInv'
<1> USE DEF PrototypeInv
<1>1. /\ \A q \in Procs : q # p => pc[q] = "idle"
      /\ streamLock = p /\ op[p] \in Ops
      /\ state = IF op[p] = "START" THEN "PREPARED" ELSE "RUNNING"
      /\ timerPc # "elapsed" /\ irqPc # "elapsed"
  BY OneInTrigger DEF Sync
<1>2. /\ pc' \in [Procs -> {"idle", "lock", "sync", "return"}]
      /\ op' \in [Procs -> Ops \cup {None}]
  BY DEF Sync, callVars, TypeOK
<1>3. \A q \in Procs : pc'[q] = (IF q = p THEN "return" ELSE pc[q])
  BY DEF Sync, TypeOK, Procs
<1>4. UNCHANGED <<state, op, timerPc, suspended, conf>> /\ timer' = FALSE /\ timerPc = "idle"
      /\ pc[p] = "sync"
  BY DEF Sync
<1>5. TypeOK'
  BY <1>1, <1>2, <1>3, <1>4 DEF TypeOK, DriverInv, bufVars, callVars, Sync
<1>6. CallInv'
  BY <1>1, <1>2, <1>3, <1>4 DEF CallInv, Procs, driverVars, bufVars, callVars, Sync
<1>7. CardInv'
  BY <1>1, <1>2, <1>3, <1>4 DEF CardInv, driverVars, bufVars, callVars, Sync
<1>8. StopInv'
  BY <1>1, <1>2, <1>3, <1>4 DEF StopInv, Starting
<1>9. ShadowInv'
  BY <1>1, <1>2, <1>3, <1>4 DEF ShadowInv, driverVars, bufVars, callVars, Sync
<1>10. QED
  BY <1>5, <1>6, <1>7, <1>8, <1>9

LEMMA ReturnKeeps ==
  ASSUME NEW p \in Procs, PrototypeInv, DriverInv', Return(p)
  PROVE  PrototypeInv'
<1> USE DEF PrototypeInv
<1>1. /\ \A q \in Procs : q # p => pc[q] = "idle"
      /\ streamLock = p /\ op[p] \in Ops
      /\ state = IF op[p] = "START" THEN "PREPARED" ELSE "RUNNING"
      /\ timerPc # "elapsed" /\ irqPc # "elapsed"
  BY OneInTrigger DEF Return
<1>2. p # "timer"
  BY DEF Return, CallInv
<1>3. /\ pc' \in [Procs -> {"idle", "lock", "sync", "return"}]
      /\ op' \in [Procs -> Ops \cup {None}]
  BY DEF Return, callVars, TypeOK
<1>4. \A q \in Procs : pc'[q] = "idle"
  BY <1>1 DEF Return, TypeOK, Procs
<1>5. UNCHANGED <<timer, timerPc, conf>> /\ pc[p] = "return"
      /\ suspended' = (op[p] = "SUSPEND" \/ (suspended /\ op[p] # "STOP"))
  BY DEF Return
<1>6. /\ op[p] \in {"START", "PAUSE_PUSH"} => state' = "RUNNING"
      /\ op[p] = "SUSPEND" => state' = "SUSPENDED"
      /\ op[p] = "STOP" => state' \in {"SETUP", "XRUN"}
  BY <1>1 DEF Return, NextState
<1>7. TypeOK'
  BY <1>1, <1>2, <1>3, <1>4, <1>5, <1>6 DEF TypeOK, DriverInv, bufVars, callVars,
                                            Return, NextState, Unlock, Ops
<1>8. CallInv'
  BY <1>1, <1>2, <1>3, <1>4, <1>5, <1>6 DEF CallInv, Procs, driverVars, bufVars,
                                            callVars, Return, NextState, Unlock, Ops
<1>9. CardInv'
  BY <1>1, <1>2, <1>3, <1>4, <1>5, <1>6 DEF CardInv, driverVars, bufVars, callVars,
                                            Return, NextState, Unlock, Ops
<1>10. StopInv'
  BY <1>1, <1>2, <1>3, <1>4, <1>5, <1>6 DEF StopInv, Ops
<1>11. ShadowInv'
  BY <1>1, <1>2, <1>3, <1>4, <1>5, <1>6 DEF ShadowInv, driverVars, bufVars,
                                            callVars, Return, NextState, Unlock, Ops
<1>12. QED
  BY <1>7, <1>8, <1>9, <1>10, <1>11

LEMMA TimerFiresKeeps ==
  ASSUME PrototypeInv, DriverInv', TimerFires
  PROVE  PrototypeInv'
<1> USE DEF PrototypeInv
<1>1. /\ timer' \in BOOLEAN /\ timerPc' = "check"
      /\ UNCHANGED <<state, sub, bufVars, conf, dmaRunning, lock, callVars, irqPc, suspended>>
  BY DEF TimerFires
<1>2. TypeOK'
  BY <1>1 DEF TypeOK, DriverInv, bufVars, callVars
<1>3. CallInv'
  BY <1>1 DEF CallInv, Procs, driverVars, bufVars, callVars, TimerFires
<1>4. CardInv'
  BY <1>1 DEF CardInv, driverVars, bufVars, callVars, TimerFires
<1>5. StopInv'
  BY <1>1 DEF StopInv, Starting, driverVars, bufVars, callVars, TimerFires
<1>6. ShadowInv'
  BY <1>1 DEF ShadowInv, driverVars, bufVars, callVars, TimerFires
<1>7. QED
  BY <1>2, <1>3, <1>4, <1>5, <1>6

LEMMA TimerCheckKeeps ==
  ASSUME PrototypeInv, DriverInv', TimerCheck
  PROVE  PrototypeInv'
<1> USE DEF PrototypeInv
<1>1. TypeOK'
  BY DEF TypeOK, DriverInv, bufVars, callVars, TimerCheck
<1>2. CallInv'
  BY DEF CallInv, Procs, driverVars, bufVars, callVars, TimerCheck
<1>3. CardInv'
  BY DEF CardInv, driverVars, bufVars, callVars, TimerCheck
<1>4. StopInv'
  BY DEF StopInv, Starting, driverVars, bufVars, callVars, TimerCheck
<1>5. ShadowInv'
  BY DEF ShadowInv, driverVars, bufVars, callVars, TimerCheck
<1>6. QED
  BY <1>1, <1>2, <1>3, <1>4, <1>5

LEMMA TimerCallKeeps ==
  ASSUME PrototypeInv, DriverInv', TimerCall
  PROVE  PrototypeInv'
<1> USE DEF PrototypeInv
<1>1. (\A p \in Procs : pc[p] = "idle") /\ ~Starting
  BY AtRest DEF TimerCall
<1>2. TypeOK'
  BY <1>1 DEF TypeOK, DriverInv, bufVars, callVars, TimerCall, Procs
<1>3. CallInv'
  BY <1>1 DEF CallInv, TimerCall, Procs, None
<1>4. CardInv'
  BY <1>1 DEF CardInv, driverVars, bufVars, callVars, TimerCall, Procs
<1>5. StopInv'
  BY <1>1 DEF StopInv, Starting, driverVars, bufVars, callVars, TimerCall, Procs
<1>6. ShadowInv'
  BY <1>1 DEF ShadowInv, driverVars, bufVars, callVars, TimerCall, Procs
<1>7. QED
  BY <1>2, <1>3, <1>4, <1>5, <1>6

LEMMA TimerRearmKeeps ==
  ASSUME PrototypeInv, DriverInv', TimerRearm
  PROVE  PrototypeInv'
<1> USE DEF PrototypeInv
<1>1. TypeOK'
  BY DEF TypeOK, DriverInv, bufVars, callVars, TimerRearm
<1>2. CallInv'
  BY DEF CallInv, Procs, driverVars, bufVars, callVars, TimerRearm
<1>3. CardInv'
  BY DEF CardInv, driverVars, bufVars, callVars, TimerRearm
<1>4. StopInv'
  BY DEF StopInv, Starting, driverVars, bufVars, callVars, TimerRearm
<1>5. ShadowInv'
  BY DEF ShadowInv, driverVars, bufVars, callVars, TimerRearm
<1>6. QED
  BY <1>1, <1>2, <1>3, <1>4, <1>5

LEMMA TimerElapsedKeeps ==
  ASSUME PrototypeInv, DriverInv', TimerElapsed
  PROVE  PrototypeInv'
<1> USE DEF PrototypeInv
<1>1. /\ \A p \in Procs : pc[p] = "idle"
      /\ streamLock = "timer" /\ irqPc # "elapsed"
  BY DEF TimerElapsed, CallInv, Procs
<1>2. /\ pc' \in [Procs -> {"idle", "lock", "sync", "return"}]
      /\ op' \in [Procs -> Ops \cup {None}]
  BY DEF TimerElapsed, Trigger, Ops, Procs, callVars, TypeOK
<1>3. \/ /\ UNCHANGED <<pc, op>> /\ streamLock' = None
         /\ timerPc' = "rearm" /\ irqPc' = irqPc
      \/ /\ state = "RUNNING" /\ streamLock' = "timer"
         /\ \A p \in Procs : pc'[p] = IF p = "timer" THEN "lock" ELSE pc[p]
         /\ op'["timer"] = "STOP"
         /\ timerPc' = "stop" /\ irqPc' = irqPc
  BY <1>1 DEF TimerElapsed, Trigger, TypeOK, Procs
<1>4. UNCHANGED <<state, conf, timer, suspended>> /\ timerPc # "idle"
  BY DEF TimerElapsed
<1>5. TypeOK'
  BY <1>1, <1>2, <1>3, <1>4 DEF TypeOK, DriverInv, bufVars, callVars, Procs,
                                TimerElapsed, Trigger
<1>6. CallInv'
  BY <1>1, <1>2, <1>3, <1>4 DEF CallInv, Procs, Ops, None
<1>7. CardInv'
  BY <1>1, <1>2, <1>3, <1>4 DEF CardInv, driverVars, bufVars, callVars,
                                TimerElapsed, Trigger
<1>8. StopInv'
  BY <1>1, <1>2, <1>3, <1>4 DEF StopInv, Starting
<1>9. ShadowInv'
  BY <1>1, <1>2, <1>3, <1>4 DEF ShadowInv, driverVars, bufVars, callVars,
                                TimerElapsed, Trigger
<1>10. QED
  BY <1>5, <1>6, <1>7, <1>8, <1>9

LEMMA IrqEnterKeeps ==
  ASSUME PrototypeInv, DriverInv', IrqEnter
  PROVE  PrototypeInv'
<1> USE DEF PrototypeInv
<1>1. TypeOK'
  BY DEF TypeOK, DriverInv, bufVars, callVars, IrqEnter
<1>2. CallInv'
  BY DEF CallInv, Procs, driverVars, bufVars, callVars, IrqEnter
<1>3. CardInv'
  BY DEF CardInv, driverVars, bufVars, callVars, IrqEnter
<1>4. StopInv'
  BY DEF StopInv, Starting, driverVars, bufVars, callVars, IrqEnter
<1>5. ShadowInv'
  BY DEF ShadowInv, driverVars, bufVars, callVars, IrqEnter
<1>6. QED
  BY <1>1, <1>2, <1>3, <1>4, <1>5

LEMMA IrqCheckKeeps ==
  ASSUME PrototypeInv, DriverInv', IrqCheck
  PROVE  PrototypeInv'
<1> USE DEF PrototypeInv
<1>1. TypeOK'
  BY DEF TypeOK, DriverInv, bufVars, callVars, IrqCheck
<1>2. CallInv'
  BY DEF CallInv, Procs, driverVars, bufVars, callVars, IrqCheck
<1>3. CardInv'
  BY DEF CardInv, driverVars, bufVars, callVars, IrqCheck
<1>4. StopInv'
  BY DEF StopInv, Starting, driverVars, bufVars, callVars, IrqCheck
<1>5. ShadowInv'
  BY DEF ShadowInv, driverVars, bufVars, callVars, IrqCheck
<1>6. QED
  BY <1>1, <1>2, <1>3, <1>4, <1>5

LEMMA IrqCallKeeps ==
  ASSUME PrototypeInv, DriverInv', IrqCall
  PROVE  PrototypeInv'
<1> USE DEF PrototypeInv
<1>1. streamLock = None => (\A p \in Procs : pc[p] = "idle") /\ ~Starting
  BY AtRest
<1>2. irqPc = "call" /\ irqPc' \in {"elapsed", "idle"} /\ pc["irq"] = "idle"
  BY DEF IrqCall, CallInv, Procs
<1>3. TypeOK'
  BY <1>1, <1>2 DEF TypeOK, DriverInv, bufVars, callVars, IrqCall, Procs
<1>4. CallInv'
  BY <1>1, <1>2 DEF CallInv, IrqCall, Procs, None
<1>5. CardInv'
  BY <1>1, <1>2 DEF CardInv, driverVars, bufVars, callVars, IrqCall, Procs
<1>6. StopInv'
  BY <1>1, <1>2 DEF StopInv, Starting, driverVars, bufVars, callVars, IrqCall, Procs
<1>7. ShadowInv'
  BY <1>1, <1>2 DEF ShadowInv, driverVars, bufVars, callVars, IrqCall, Procs
<1>8. QED
  BY <1>3, <1>4, <1>5, <1>6, <1>7

LEMMA IrqElapsedKeeps ==
  ASSUME PrototypeInv, DriverInv', IrqElapsed
  PROVE  PrototypeInv'
<1> USE DEF PrototypeInv
<1>1. /\ \A p \in Procs : pc[p] = "idle"
      /\ streamLock = "irq" /\ timerPc \notin {"elapsed", "stop"}
  BY DEF IrqElapsed, CallInv, Procs
<1>2. /\ pc' \in [Procs -> {"idle", "lock", "sync", "return"}]
      /\ op' \in [Procs -> Ops \cup {None}]
  BY DEF IrqElapsed, Trigger, Ops, Procs, callVars, TypeOK
<1>3. \/ /\ UNCHANGED <<pc, op>> /\ streamLock' = None
         /\ irqPc' = "idle" /\ timerPc' = timerPc
      \/ /\ state = "RUNNING" /\ streamLock' = "irq"
         /\ \A p \in Procs : pc'[p] = IF p = "irq" THEN "lock" ELSE pc[p]
         /\ op'["irq"] = "STOP"
         /\ irqPc' = "stop" /\ timerPc' = timerPc
  BY <1>1 DEF IrqElapsed, Trigger, TypeOK, Procs
<1>4. UNCHANGED <<state, conf, timer, suspended>>
  BY DEF IrqElapsed
<1>5. TypeOK'
  BY <1>1, <1>2, <1>3, <1>4 DEF TypeOK, DriverInv, bufVars, callVars, Procs,
                                IrqElapsed, Trigger
<1>6. CallInv'
  BY <1>1, <1>2, <1>3, <1>4 DEF CallInv, Procs, Ops, None
<1>7. CardInv'
  BY <1>1, <1>2, <1>3, <1>4 DEF CardInv, driverVars, bufVars, callVars, IrqElapsed, Trigger
<1>8. StopInv'
  BY <1>1, <1>2, <1>3, <1>4 DEF StopInv, Starting
<1>9. ShadowInv'
  BY <1>1, <1>2, <1>3, <1>4 DEF ShadowInv, driverVars, bufVars, callVars,
                                IrqElapsed, Trigger
<1>10. QED
  BY <1>5, <1>6, <1>7, <1>8, <1>9

LEMMA IrqStoppedKeeps ==
  ASSUME PrototypeInv, DriverInv', IrqStopped
  PROVE  PrototypeInv'
<1> USE DEF PrototypeInv
<1>1. TypeOK'
  BY DEF TypeOK, DriverInv, bufVars, callVars, IrqStopped
<1>2. CallInv'
  BY DEF CallInv, Procs, driverVars, bufVars, callVars, IrqStopped
<1>3. CardInv'
  BY DEF CardInv, driverVars, bufVars, callVars, IrqStopped
<1>4. StopInv'
  BY DEF StopInv, Starting, driverVars, bufVars, callVars, IrqStopped
<1>5. ShadowInv'
  BY DEF ShadowInv, driverVars, bufVars, callVars, IrqStopped
<1>6. QED
  BY <1>1, <1>2, <1>3, <1>4, <1>5

(* The driver's life goes on beside the substream, and leaves it its card. *)
LEMMA LifecycleKeeps ==
  ASSUME PrototypeInv, DriverInv', UNCHANGED pcmVars,
         Lifecycle \/ RemoveFreed \/ IrqFreed
  PROVE  PrototypeInv'
<1> USE DEF PrototypeInv
<1>1. /\ UNCHANGED <<state, sub, frames, shadow, shadowSize, conf, dmaRunning>>
      /\ UNCHANGED <<lock, streamLock, pc, op, timer, timerPc, irqPc, suspended>>
  BY DEF pcmVars, bufVars, callVars
<1>2. TypeOK'
  BY <1>1 DEF TypeOK, DriverInv
<1>3. CallInv'
  BY <1>1 DEF CallInv
<1>4. StopInv'
  BY <1>1 DEF StopInv, Starting
<1>5. ShadowInv'
  BY <1>1 DEF ShadowInv
<1>6. CardInv'
  <2>1. SUFFICES ASSUME state # "CLOSED" PROVE CardInv'
    BY <1>1 DEF CardInv
  <2>2. /\ sub /\ driver = "pci_alsa" /\ "card" \in held
        /\ phase \in {"bound", "removing", "panic"}
    BY <2>1 DEF CardInv
  <2>3. CASE RemoveFreed \/ IrqFreed
    BY <1>1, <2>2, <2>3 DEF RemoveFreed, IrqFreed, CardInv
  <2>4. CASE Unbind
    BY <1>1, <2>2, <2>4 DEF Unbind, CardInv
  <2>5. CASE Done
    <3>1. todo = <<>> /\ phase = "removing"
      BY <2>2, <2>5 DEF Done
    <3>2. "card" \in Elements(todo)
      BY <2>2, <3>1 DEF DriverInv, ReleaseInv
    <3>3. QED
      BY <3>1, <3>2 DEF Elements
  <2>6. CASE \E r \in Resources : (r = "card" => state = "CLOSED") /\ Release(r)
    BY <1>1, <2>1, <2>2, <2>6 DEF Release, CardInv
  <2>7. QED
    BY <1>1, <2>2, <2>3, <2>4, <2>5, <2>6
       DEF Lifecycle, Acquire, Overlook, Fail, LoadFpga, TestUnmapped, Bind, OpenSkeleton, Poke
<1>7. QED
  BY <1>2, <1>3, <1>4, <1>5, <1>6

LEMMA PrototypeStep == PrototypeInv /\ [Next]_vars => PrototypeInv'
<1> SUFFICES ASSUME PrototypeInv, [Next]_vars PROVE PrototypeInv'
  OBVIOUS
<1>1. DriverInv'
  BY DriverStep DEF PrototypeInv
<1>2. CASE Lifecycle \/ RemoveFreed \/ IrqFreed
  <2>1. UNCHANGED pcmVars
    BY <1>2 DEF Lifecycle, RemoveFreed, IrqFreed, pcmVars, bufVars, callVars
  <2>2. QED
    BY <1>1, <1>2, <2>1, LifecycleKeeps
<1>3. CASE Client
  BY <1>1, <1>3, OpenKeeps, PrepareKeeps, HwFreeKeeps, CloseKeeps, HwParamsKeeps,
     ClientTriggerKeeps DEF Client
<1>4. CASE \E p \in Procs : Callback(p)
  BY <1>1, <1>4, ActKeeps, SyncKeeps, ReturnKeeps DEF Callback
<1>5. CASE TimerFires \/ Timer
  BY <1>1, <1>5, TimerFiresKeeps, TimerCheckKeeps, TimerCallKeeps, TimerElapsedKeeps,
     TimerRearmKeeps DEF Timer
<1>6. CASE IrqEnter \/ IrqHandler
  BY <1>1, <1>6, IrqEnterKeeps, IrqCheckKeeps, IrqCallKeeps, IrqElapsedKeeps,
     IrqStoppedKeeps DEF IrqHandler
<1>7. CASE UNCHANGED vars
  <2>1. /\ UNCHANGED <<state, sub, frames, shadow, shadowSize, conf, dmaRunning>>
        /\ UNCHANGED <<lock, streamLock, pc, op, timer, timerPc, irqPc, suspended>>
        /\ UNCHANGED <<driver, phase, held>>
    BY <1>7 DEF vars, driverVars, bufVars, callVars
  <2>2. TypeOK' /\ CallInv' /\ CardInv' /\ StopInv' /\ ShadowInv'
    BY <1>1, <2>1 DEF PrototypeInv, DriverInv, TypeOK, CallInv, CardInv, StopInv,
                      Starting, ShadowInv
  <2>3. QED
    BY <1>1, <2>2 DEF PrototypeInv
<1>8. QED
  BY <1>2, <1>3, <1>4, <1>5, <1>6, <1>7 DEF Next

LEMMA PrototypeInvariant == Spec => []PrototypeInv
BY RunStart, PrototypeStep, PTL DEF Spec

-------------------------------------------------------------------------------
(* Theorems                                                                *)

(* The variables keep their types, for any sizes of buffers. *)
THEOREM PrototypeTypes == Spec => []TypeOK
<1>1. PrototypeInv => TypeOK
  BY DEF PrototypeInv
<1>2. QED
  BY <1>1, PrototypeInvariant, PTL

(* In each of the three kernel modules, on every error path and in remove,  *)
(* a release is of something held, a probe that failed has forgotten only   *)
(* what is known, and a removed driver has given everything back.           *)
THEOREM ListsFit == Spec => []ReleasesFit
<1>1. PrototypeInv => ReleasesFit
  <2> SUFFICES ASSUME PrototypeInv PROVE ReleasesFit
    OBVIOUS
  <2>1. ReleasesItsOwn
    <3>1. SUFFICES ASSUME phase \in {"unwinding", "removing"}, todo # <<>>,
                          Head(todo) \notin Optional,
                          ~(driver = "poke" /\ Head(todo) = "regions")
                   PROVE  Head(todo) \in held
      BY DEF ReleasesItsOwn
    <3>2. todo \in Seq(Resources \cup Checks)
      BY DEF PrototypeInv, DriverInv, DriverTypeOK
    <3>3. Head(todo) = todo[1] /\ 1 \in 1..Len(todo)
      BY <3>1, <3>2, TailOf
    <3>4. QED
      BY <3>1, <3>3 DEF PrototypeInv, DriverInv, ReleaseInv
  <2>2. QED
    BY <2>1 DEF PrototypeInv, DriverInv, EndInv, ReleasesFit
<1>2. QED
  BY <1>1, PrototypeInvariant, PTL

(* The handler of any of the three drivers and the callback of the timer    *)
(* never run on what is gone: the window stays mapped while the interrupt   *)
(* is connected, and an armed timer has its card and its substream.         *)
THEOREM HandlersSafe == Spec => []CallbacksSafe
<1>1. PrototypeInv => CallbacksSafe
  <2> SUFFICES ASSUME PrototypeInv PROVE CallbacksSafe
    OBVIOUS
  <2>1. ASSUME ~suspended, timer \/ timerPc # "idle"
        PROVE  "card" \in held /\ sub
    <3>1. state = "RUNNING" \/ Starting
      BY <2>1 DEF PrototypeInv, StopInv
    <3>2. state # "CLOSED"
      BY <3>1 DEF PrototypeInv, CallInv, Starting
    <3>3. QED
      BY <3>2 DEF PrototypeInv, CardInv
  <2>2. QED
    BY <2>1 DEF PrototypeInv, DriverInv, CallbacksSafe
<1>2. QED
  BY <1>1, PrototypeInvariant, PTL

(* When a stop has returned the timer is neither pending nor in its         *)
(* callback, and the engine is off; however the callback, the handler and   *)
(* the client came together in it.                                          *)
THEOREM StopEndsTimer == Spec => []StopIsComplete
<1>1. PrototypeInv => StopIsComplete
  BY DEF PrototypeInv, StopInv, StopIsComplete, Starting, Quiet
<1>2. QED
  BY <1>1, PrototypeInvariant, PTL

(* The part of the shadow buffer that prepare and ack write is allocated,   *)
(* whatever sizes a client asks for and whichever allocations fail.         *)
THEOREM ShadowHolds == Spec => []ShadowFits
<1>1. PrototypeInv => ShadowFits
  <2>1. PrototypeInv => Reach <= shadow
    BY SizesAssumption DEF PrototypeInv, ShadowInv, TypeOK, Reach
  <2>2. QED
    BY <2>1 DEF PrototypeInv, ShadowInv, ShadowFits
<1>2. QED
  BY <1>1, PrototypeInvariant, PTL
===============================================================================
