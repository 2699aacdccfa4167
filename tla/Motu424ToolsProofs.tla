--------------------------- MODULE Motu424ToolsProofs ---------------------------
(***************************************************************************)
(* Theorems about the programs of Motu424Tools, for whatever may light the *)
(* card and any choice of programs.                                        *)
(***************************************************************************)
EXTENDS Motu424Tools, TLAPS

(* A write changes the register it names, if it is heard, and no other. *)
LEMMA RegsAre ==
  ASSUME NEW stmt, NEW r \in DOMAIN regs
  PROVE  /\ DOMAIN RegsAfter(stmt) = DOMAIN regs
         /\ ~Hears => RegsAfter(stmt) = regs
         /\ Hears /\ Pokes(stmt, r) => RegsAfter(stmt)[r] = stmt.value
         /\ ~Pokes(stmt, r) => RegsAfter(stmt)[r] = regs[r]
BY DEF RegsAfter, Pokes

(* What is not a statement of a sweep is its own only part. *)
LEMMA PartIs ==
  ASSUME NEW stmt, stmt.do # "sweep"
  PROVE  /\ Enables(stmt) <=> stmt.do = "any" \/ (Pokes(stmt, "conf") /\ 7 \in stmt.value)
         /\ \A r : Touches(stmt, r) <=>
                     stmt.do \in {"any", "zero"} \/ (stmt.do = "mem" /\ stmt.region = r)
         /\ Starts(stmt) <=> stmt.do \in {"any", "start"}
BY DEF Parts, Enables, Touches, Starts, Pokes

(* The writes of a sweep are its parts. *)
LEMMA SweepPart ==
  ASSUME NEW stmt, stmt.do = "sweep", NEW k \in 0..(stmt.points - 1),
         NEW m \in 1..Len(stmt.writes[k])
  PROVE  stmt.writes[k][m] \in Parts(stmt)
BY DEF Parts

-------------------------------------------------------------------------------
(* Where a program stands                                                  *)

Length == Len(Script[prog])
InSweep == at <= Length /\ Stmt.do = "sweep"

(* It walks through its script; points, writes and polls are under way only  *)
(* in a loop that counts them.                                              *)
WalkInv ==
  /\ prog \in Programs /\ target \in Announced(prog) /\ loaded \in MayFind(prog)
  /\ at \in Nat \ {0} /\ pt \in Nat /\ wr \in Nat /\ poll \in Nat
  /\ DOMAIN regs = Registers
  /\ pt # 0 \/ wr # 0 => InSweep
  /\ poll # 0 => at <= Length /\ Stmt.do \in {"sweep", "poll"}
  /\ InSweep => /\ pt <= Stmt.points
                /\ pt < Stmt.points => wr <= Len(Stmt.writes[pt])
                /\ pt = Stmt.points => wr = 0 /\ poll = 0
  /\ end = "returned" => at > Length

(* The statement of a sweep a program stands at counts in natural numbers. *)
LEMMA ScriptIs ==
  ASSUME WalkInv
  PROVE  /\ Length \in Nat
         /\ InSweep => /\ at \in 1..Length /\ Stmt.points \in Nat
                       /\ \A k \in 0..(Stmt.points - 1) : Len(Stmt.writes[k]) \in Nat
BY ProgramsAssumption DEF WalkInv, Length, InSweep, Stmt

LEMMA WalkInit == ToolsInit => WalkInv
<1> SUFFICES ASSUME ToolsInit PROVE WalkInv
  OBVIOUS
<1>1. InSweep => Stmt.points \in Nat /\ (0 < Stmt.points => Len(Stmt.writes[0]) \in Nat)
  <2> SUFFICES ASSUME InSweep
               PROVE Stmt.points \in Nat /\ (0 < Stmt.points => Len(Stmt.writes[0]) \in Nat)
    OBVIOUS
  <2>1. prog \in Programs /\ at = 1 /\ Len(Script[prog]) \in Nat /\ 1 \in 1..Len(Script[prog])
    BY ProgramsAssumption DEF ToolsInit, InSweep, Length
  <2>2. QED
    BY <2>1, ProgramsAssumption DEF InSweep, Stmt
<1>2. DOMAIN regs = Registers
  BY DEF ToolsInit
<1>3. QED
  BY <1>1, <1>2 DEF ToolsInit, WalkInv

(* What every step is: one that writes the card, one of a sweep, the key, or *)
(* one that touches neither the card nor what a sweep remembers.            *)
Quiet ==
  /\ UNCHANGED <<regs, mem, dsp, found, key, seen, pt, wr>>
  /\ \/ at' = at /\ (poll' = poll \/ (at <= Length /\ Stmt.do = "poll"))
     \/ /\ at <= Length /\ Stmt.do \in {"get_dma", "poll"} /\ at' = at + 1
        /\ poll' = 0 \/ (poll' = poll /\ Stmt.do = "get_dma")

LEMMA StepIs ==
  [ToolsNext]_vars =>
    /\ prog' = prog /\ target' = target /\ loaded' = loaded
    /\ \/ DoCard \/ DoAny \/ SweepWrite \/ SweepHit \/ SweepMiss \/ SweepOver \/ Press
       \/ Quiet
<1> SUFFICES ASSUME [ToolsNext]_vars
             PROVE  /\ prog' = prog /\ target' = target /\ loaded' = loaded
                    /\ \/ DoCard \/ DoAny \/ SweepWrite \/ SweepHit \/ SweepMiss
                       \/ SweepOver \/ Press \/ Quiet
  OBVIOUS
<1>1. CASE SweepStep
  BY <1>1 DEF SweepStep, SweepWrite, SweepHit, SweepMiss, SweepOver, personVars
<1>2. CASE DoCard \/ DoAny
  BY <1>2 DEF DoCard, DoAny, Advance, personVars
<1>3. CASE DoGetDma \/ DoWrongDma \/ DoPoll \/ DoAcks
  BY <1>3 DEF DoGetDma, DoWrongDma, DoPoll, DoAcks, At, Quiet, Length,
              personVars, cardVars, sweepVars
<1>4. CASE Press
  BY <1>4 DEF Press
<1>5. CASE Return \/ Kill \/ Ended \/ UNCHANGED vars
  BY <1>5 DEF Return, Kill, Ended, Quiet, vars, personVars, cardVars, sweepVars
<1>6. QED
  BY <1>1, <1>2, <1>3, <1>4, <1>5 DEF ToolsNext, UploadStep, Person

LEMMA WalkStep == WalkInv /\ [ToolsNext]_vars => WalkInv'
<1> SUFFICES ASSUME WalkInv, [ToolsNext]_vars PROVE WalkInv'
  OBVIOUS
<1>1. prog' = prog /\ target' = target /\ loaded' = loaded /\ Length' = Length /\ Length \in Nat
  BY StepIs, ScriptIs DEF Length
<1>2. DOMAIN regs' = Registers
  <2>1. \A stmt : DOMAIN RegsAfter(stmt) = DOMAIN regs
    BY DEF RegsAfter
  <2>2. QED
    BY <2>1, StepIs DEF WalkInv, DoCard, DoAny, Card, SweepWrite, SweepHit, SweepMiss,
                        SweepOver, Press, Quiet, cardVars
(* A new statement begins with nothing under way. *)
<1>3. ASSUME at' = at + 1, pt' = 0, wr' = 0, poll' = 0, end' = end, end # "returned"
      PROVE  WalkInv'
  <2>1. InSweep' => /\ Stmt'.points \in Nat
                    /\ 0 < Stmt'.points => Len(Stmt'.writes[0]) \in Nat
    <3> SUFFICES ASSUME InSweep'
                 PROVE  /\ Stmt'.points \in Nat
                        /\ 0 < Stmt'.points => Len(Stmt'.writes[0]) \in Nat
      OBVIOUS
    <3>1. /\ prog \in Programs /\ at' \in 1..Length
          /\ Stmt' = Script[prog][at'] /\ Stmt'.do = "sweep"
      BY <1>1, <1>3 DEF WalkInv, InSweep, Stmt
    <3>2. QED
      BY <3>1, ProgramsAssumption DEF Length
  <2>2. QED
    BY <1>1, <1>2, <1>3, <2>1 DEF WalkInv
<1>4. CASE DoCard \/ DoAny
  <2>1. /\ end = "no" /\ end' = end /\ at' = at + 1 /\ UNCHANGED <<pt, wr, poll>>
        /\ at <= Length /\ Stmt.do \notin {"sweep", "poll"}
    BY <1>4 DEF DoCard, DoAny, At, Advance, sweepVars, Length
  <2>2. pt = 0 /\ wr = 0 /\ poll = 0
    BY <2>1 DEF WalkInv, InSweep
  <2>3. QED
    BY <1>3, <2>1, <2>2
<1>5. CASE SweepHit
  BY <1>3, <1>5 DEF SweepHit, Polling, At
<1>6. CASE SweepOver
  <2>1. wr = 0 /\ poll = 0
    BY <1>6 DEF SweepOver, At, WalkInv, InSweep, Length
  <2>2. QED
    BY <1>3, <1>6, <2>1 DEF SweepOver, At
<1>7. CASE SweepWrite
  <2>1. /\ end = "no" /\ end' = end /\ at' = at /\ pt' = pt /\ poll' = poll /\ wr' = wr + 1
        /\ InSweep /\ pt < Stmt.points /\ wr < Len(Stmt.writes[pt])
    BY <1>7 DEF SweepWrite, At, InSweep, Length
  <2>2. Stmt.points \in Nat /\ Len(Stmt.writes[pt]) \in Nat /\ InSweep' /\ Stmt' = Stmt
    <3>1. Stmt.points \in Nat /\ \A k \in 0..(Stmt.points - 1) : Len(Stmt.writes[k]) \in Nat
      BY <2>1, ScriptIs
    <3>2. pt \in 0..(Stmt.points - 1)
      BY <2>1, <3>1 DEF WalkInv
    <3>3. Stmt' = Stmt /\ InSweep'
      BY <1>1, <2>1 DEF Stmt, InSweep
    <3>4. QED
      BY <3>1, <3>2, <3>3
  <2>3. QED
    BY <1>1, <1>2, <2>1, <2>2 DEF WalkInv
<1>8. CASE SweepMiss
  <2>1. /\ end = "no" /\ end' = end /\ at' = at /\ InSweep /\ pt < Stmt.points
        /\ \/ poll' = poll + 1 /\ UNCHANGED <<pt, wr>>
           \/ poll' = 0 /\ wr' = 0 /\ pt' = pt + 1
    BY <1>8 DEF SweepMiss, Polling, At, InSweep, Length
  <2>2. /\ Stmt.points \in Nat /\ InSweep' /\ Stmt' = Stmt
        /\ \A k \in 0..(Stmt.points - 1) : Len(Stmt.writes[k]) \in Nat
    BY <1>1, <2>1, ScriptIs DEF Stmt, InSweep
  <2>3. pt' < Stmt.points => wr' <= Len(Stmt.writes[pt'])
    <3>1. CASE wr' = 0 /\ pt' = pt + 1
      <4>1. pt' < Stmt.points => pt' \in 0..(Stmt.points - 1)
        BY <2>2, <3>1 DEF WalkInv
      <4>2. QED
        BY <2>2, <3>1, <4>1
    <3>2. CASE UNCHANGED <<pt, wr>>
      BY <2>1, <3>2 DEF WalkInv
    <3>3. QED
      BY <2>1, <3>1, <3>2
  <2>4. poll' \in Nat /\ pt' \in Nat /\ wr' \in Nat /\ pt' <= Stmt.points
    BY <2>1, <2>2 DEF WalkInv
  <2>5. pt' = Stmt.points => wr' = 0 /\ poll' = 0
    BY <2>1, <2>2 DEF WalkInv
  <2>6. Stmt'.points = Stmt.points /\ \A k : Stmt'.writes[k] = Stmt.writes[k]
    BY <2>2
  <2>7. Stmt'.do = "sweep" /\ at' <= Length'
    BY <2>2 DEF InSweep
  <2>8. QED
    BY <1>1, <1>2, <2>1, <2>2, <2>3, <2>4, <2>5, <2>6, <2>7 DEF WalkInv
<1>9. CASE Press
  BY <1>1, <1>2, <1>9 DEF Press, sweepVars, WalkInv, InSweep, Stmt
<1>10. CASE DoGetDma \/ DoPoll
  <2>1. CASE at' = at + 1
    <3>1. /\ end = "no" /\ end' = end /\ pt' = pt /\ wr' = wr /\ at <= Length
          /\ \/ Stmt.do = "poll" /\ poll' = 0
             \/ Stmt.do = "get_dma" /\ poll' = poll
      BY <1>10, <2>1 DEF DoGetDma, DoPoll, At, sweepVars, Length, WalkInv
    <3>2. pt = 0 /\ wr = 0 /\ poll' = 0
      BY <3>1 DEF WalkInv, InSweep
    <3>3. QED
      BY <1>3, <2>1, <3>1, <3>2
  <2>2. CASE at' # at + 1
    <3>1. /\ at' = at /\ pt' = pt /\ wr' = wr /\ poll' = poll + 1 /\ end' = end
          /\ at <= Length /\ Stmt.do = "poll" /\ end = "no"
      BY <1>10, <2>2 DEF DoGetDma, DoPoll, At, Length
    <3>2. ~InSweep /\ ~InSweep' /\ Stmt' = Stmt
      BY <1>1, <3>1 DEF InSweep, Stmt
    <3>3. QED
      BY <1>1, <1>2, <3>1, <3>2 DEF WalkInv
  <2>3. QED
    BY <2>1, <2>2
<1>11. CASE DoWrongDma \/ DoAcks \/ Return \/ Kill \/ Ended \/ UNCHANGED vars
  <2>1. UNCHANGED <<at, pt, wr, poll>> /\ (end' = "returned" => end = "returned" \/ at > Length)
    BY <1>1, <1>11 DEF DoWrongDma, DoAcks, Return, Kill, Ended, vars, sweepVars, Length, WalkInv
  <2>2. InSweep' = InSweep /\ Stmt' = Stmt
    BY <1>1, <2>1 DEF InSweep, Stmt
  <2>3. QED
    BY <1>1, <1>2, <2>1, <2>2 DEF WalkInv
<1>12. QED
  BY <1>4, <1>5, <1>6, <1>7, <1>8, <1>9, <1>10, <1>11
     DEF ToolsNext, SweepStep, UploadStep, Person

-------------------------------------------------------------------------------
(* The enable bit                                                          *)

(* Statement n restores PORT_CONF for good; 0: nothing ever sets the bit.   *)
Clears(n) ==
  /\ n # 0 => Pokes(Script[prog][n], "conf")
  /\ \A j \in 1..Length : j >= n => ~Enables(Script[prog][j])

(* Once past such a statement the bit is clear; who is not heard never set  *)
(* it.                                                                      *)
ClearInv ==
  /\ ~Hears => regs["conf"] = {}
  /\ \A n \in 0..Length : Clears(n) /\ at > n => 7 \notin regs["conf"]

LEMMA ClearInit == ToolsInit => ClearInv
<1> SUFFICES ASSUME ToolsInit PROVE ClearInv
  OBVIOUS
<1>1. regs["conf"] = {}
  BY DEF ToolsInit, Registers
<1>2. QED
  BY <1>1 DEF ClearInv

(* What a write that does not enable leaves of the bit. *)
LEMMA BitAfter ==
  ASSUME WalkInv, NEW stmt, 7 \notin regs["conf"],
         Pokes(stmt, "conf") => 7 \notin stmt.value
  PROVE  7 \notin RegsAfter(stmt)["conf"]
<1>1. "conf" \in DOMAIN regs
  BY DEF WalkInv, Registers
<1>2. CASE Hears /\ Pokes(stmt, "conf")
  BY <1>1, <1>2, RegsAre
<1>3. CASE ~Hears \/ ~Pokes(stmt, "conf")
  BY <1>1, <1>3, RegsAre
<1>4. QED
  BY <1>2, <1>3

LEMMA ClearStep == WalkInv /\ ClearInv /\ [ToolsNext]_vars => ClearInv'
<1> SUFFICES ASSUME WalkInv, ClearInv, [ToolsNext]_vars PROVE ClearInv'
  OBVIOUS
<1>1. /\ prog' = prog /\ Length \in Nat /\ at \in Nat \ {0} /\ "conf" \in DOMAIN regs
  BY StepIs, ScriptIs DEF WalkInv, Registers
<1>2. Length' = Length /\ Hears' = Hears /\ \A n : Clears(n)' = Clears(n)
  BY <1>1 DEF Length, Hears, Clears
<1>3. CASE ~Hears
  <2>1. \A stmt : RegsAfter(stmt) = regs
    BY <1>3 DEF RegsAfter
  <2>2. regs' = regs
    BY <2>1, StepIs DEF DoCard, DoAny, Card, SweepWrite, SweepHit, SweepMiss, SweepOver,
                        Press, Quiet, cardVars
  <2>3. QED
    BY <1>2, <1>3, <2>2 DEF ClearInv
<1>4. CASE Hears /\ DoCard
  <2>1. /\ at \in 1..Length /\ at' = at + 1 /\ regs' = RegsAfter(Stmt)
        /\ Stmt.do # "sweep"
    BY <1>1, <1>4 DEF DoCard, Card, At, Advance, Length
  <2>2. ASSUME NEW n \in 0..Length, Clears(n), at' > n PROVE 7 \notin regs'["conf"]
    <3>1. ~Enables(Stmt) /\ at >= n
      BY <1>1, <2>1, <2>2 DEF Clears, Stmt
    <3>2. Pokes(Stmt, "conf") => 7 \notin Stmt.value
      BY <2>1, <3>1, PartIs
    <3>3. CASE at = n
      BY <1>1, <1>4, <2>1, <2>2, <3>2, <3>3, RegsAre DEF Clears, Stmt
    <3>4. CASE at > n
      <4>1. 7 \notin regs["conf"]
        BY <2>2, <3>4 DEF ClearInv
      <4>2. QED
        BY <2>1, <3>2, <4>1, BitAfter
    <3>5. QED
      BY <1>1, <3>1, <3>3, <3>4
  <2>3. QED
    BY <1>2, <1>4, <2>2 DEF ClearInv
<1>5. CASE Hears /\ DoAny
  <2>1. at \in 1..Length /\ at' = at + 1 /\ Enables(Stmt)
    BY <1>1, <1>5, PartIs DEF DoAny, At, Advance, Length
  <2>2. ASSUME NEW n \in 0..Length, Clears(n), at' > n PROVE FALSE
    BY <1>1, <2>1, <2>2 DEF Clears, Stmt
  <2>3. QED
    BY <1>2, <1>5, <2>2 DEF ClearInv
<1>6. CASE Hears /\ SweepWrite
  <2> DEFINE part == Stmt.writes[pt][wr + 1]
  <2>1. /\ InSweep /\ at' = at /\ regs' = RegsAfter(part)
        /\ pt < Stmt.points /\ wr < Len(Stmt.writes[pt])
    BY <1>6 DEF SweepWrite, Card, At, InSweep, Length
  <2>2. part \in Parts(Stmt)
    <3>1. pt \in 0..(Stmt.points - 1) /\ Stmt.do = "sweep"
      BY <2>1, ScriptIs DEF WalkInv, InSweep
    <3>2. Len(Stmt.writes[pt]) \in Nat
      BY <2>1, <3>1, ScriptIs
    <3>3. wr + 1 \in 1..Len(Stmt.writes[pt])
      BY <2>1, <3>2 DEF WalkInv
    <3>4. QED
      BY <3>1, <3>3, SweepPart
  <2>3. ASSUME NEW n \in 0..Length, Clears(n), at' > n PROVE 7 \notin regs'["conf"]
    <3>1. ~Enables(Stmt)
      BY <1>1, <2>1, <2>3, ScriptIs DEF Clears, Stmt
    <3>2. Pokes(part, "conf") => 7 \notin part.value
      BY <2>2, <3>1 DEF Enables, Pokes
    <3>3. 7 \notin regs["conf"]
      BY <2>1, <2>3 DEF ClearInv
    <3> HIDE DEF part
    <3>4. QED
      BY <2>1, <3>2, <3>3, BitAfter
  <2>4. QED
    BY <1>2, <1>6, <2>3 DEF ClearInv
<1>7. CASE SweepHit \/ SweepMiss \/ SweepOver \/ Press \/ Quiet
  <2>1. /\ regs' = regs
        /\ \/ at' = at
           \/ at' = at + 1 /\ at <= Length /\ Stmt.do \in {"sweep", "get_dma", "poll"}
    BY <1>7 DEF SweepHit, SweepMiss, SweepOver, Press, Quiet, Polling, At, Length, cardVars
  <2>2. ASSUME NEW n \in 0..Length, Clears(n), at' > n PROVE 7 \notin regs["conf"]
    <3>1. at > n
      BY <1>1, <2>1, <2>2 DEF Clears, Stmt, Pokes
    <3>2. QED
      BY <2>2, <3>1 DEF ClearInv
  <2>3. QED
    BY <1>2, <2>1, <2>2 DEF ClearInv
<1>8. QED
  BY <1>3, <1>4, <1>5, <1>6, <1>7, StepIs

(* Every program, but for the three of LeavesRunning, that comes to its end  *)
(* leaves the DMA enable bit clear: the sweeps try values that have it, and *)
(* a hit leaves the loops only, not the program.                            *)
THEOREM EngineIsOff == ToolsSpec => []EngineOffAtEnd
<1>1. WalkInv /\ ClearInv => EngineOffAtEnd
  <2> SUFFICES ASSUME WalkInv, ClearInv, end = "returned", prog \notin LeavesRunning
               PROVE  7 \notin regs["conf"]
    BY DEF EngineOffAtEnd
  <2>1. Restores(prog) /\ Length \in Nat /\ at \in Nat /\ at > Length
    BY ProgramsAssumption DEF WalkInv, Length
  <2>2. CASE prog \in Deaf
    BY <2>2 DEF ClearInv, Hears
  <2>3. CASE prog \notin Deaf
    <3>1. PICK n \in 0..Length : Clears(n)
      BY <2>1, <2>3 DEF Restores, Clears, Length
    <3>2. at > n
      BY <2>1
    <3>3. QED
      BY <3>1, <3>2 DEF ClearInv
  <2>4. QED
    BY <2>2, <2>3
<1>2. QED
  BY <1>1, WalkInit, WalkStep, ClearInit, ClearStep, PTL DEF ToolsSpec

-------------------------------------------------------------------------------
(* Searches                                                                *)

Sweeps == {i \in 1..Length : Script[prog][i].do = "sweep"}
Points(i) == 0..(Script[prog][i].points - 1)

(* What point k of sweep i reports is what lights the card, or is it but for *)
(* registers that held the value looked for until then.                     *)
Good(i, k) == \A r \in DOMAIN target : Script[prog][i].tries[k][r] = target[r]
Near(i, k) ==
  \A r \in DOMAIN target : \/ Script[prog][i].tries[k][r] = target[r]
                           \/ Old(Script[prog][i], k, r) = target[r]

(* Before the sweep the card is dark, for a register that matters has not    *)
(* been written.                                                            *)
Before(i) == at < i => ~key /\ found = None /\ \A r \in DOMAIN target : regs[r] = {}

(* In the sweep the registers hold what the writes done make of them, a key  *)
(* was pressed for this point or in the last sleep of the one before, and no *)
(* good point has gone by unseen.                                           *)
During(i) ==
  at = i =>
    /\ found = None
    /\ \A r \in DOMAIN target : regs[r] = Held(Script[prog][i], pt, wr, r)
    /\ \A k \in 0..(pt - 1) : Good(i, k) => seen
    /\ Script[prog][i].watch = "key" /\ key /\ pt \in Points(i) => Near(i, pt)

(* The report is near what lit the card; without one no good point was       *)
(* unseen.                                                                  *)
After(i) ==
  at > i =>
    IF found = None
      THEN \A k \in Points(i) : Good(i, k) => seen
      ELSE Good(i, found) \/ (Script[prog][i].watch = "key" /\ Near(i, found))

SearchInv ==
  /\ target = <<>> => ~key /\ found = None
  /\ target # <<>> => \A i \in Sweeps : Before(i) /\ During(i) /\ After(i)

(* What a search may rely on in its script. *)
LEMMA SearchIs ==
  ASSUME WalkInv, target # <<>>, NEW i \in Sweeps
  PROVE  /\ i \in Nat \ {0} /\ i <= Length /\ Length \in Nat
         /\ Script[prog][i].do = "sweep" /\ Script[prog][i].points \in Nat
         /\ \A j \in 1..Length : Script[prog][j].do = "sweep" => j = i
         /\ Hears /\ DOMAIN target \subseteq DOMAIN regs
         /\ \E r \in DOMAIN target : target[r] # {}
         /\ \A r \in DOMAIN target : \A j \in 1..(i - 1) :
              Script[prog][j].do # "any" /\ ~Pokes(Script[prog][j], r)
<1>1. prog \in Programs /\ Length \in Nat /\ Script[prog][i].points \in Nat
  BY ProgramsAssumption DEF WalkInv, Length, Sweeps
<1>2. Searches(prog, target)
  BY AnnouncedAssumption DEF WalkInv
<1>3. PICK n \in 1..Length :
        /\ \A j \in 1..Length \ {n} : Script[prog][j].do # "sweep"
        /\ prog \notin Deaf
        /\ DOMAIN target \subseteq Registers /\ \E r \in DOMAIN target : target[r] # {}
        /\ \A r \in DOMAIN target : \A j \in 1..(n - 1) :
             Script[prog][j].do # "any" /\ ~Pokes(Script[prog][j], r)
  BY <1>2 DEF Searches, Length
<1>4. i = n
  BY <1>3 DEF Sweeps
<1>5. QED
  BY <1>1, <1>3, <1>4 DEF Sweeps, Hears, WalkInv

(* The writes of a point are what it tries, and together make it so. *)
LEMMA PointIs ==
  ASSUME WalkInv, target # <<>>, NEW i \in Sweeps, NEW k \in Points(i),
         NEW r \in DOMAIN target
  PROVE  LET sweep == Script[prog][i] IN
         /\ Len(sweep.writes[k]) \in Nat
         /\ \A m \in 1..Len(sweep.writes[k]) :
              Pokes(sweep.writes[k][m], r) => sweep.writes[k][m].value = sweep.tries[k][r]
         /\ Held(sweep, k, Len(sweep.writes[k]), r) = sweep.tries[k][r]
<1>1. prog \in Programs /\ Len(Script[prog][i].writes[k]) \in Nat
  BY ProgramsAssumption DEF WalkInv, Length, Sweeps, Points
<1>2. Searches(prog, target)
  BY AnnouncedAssumption DEF WalkInv
<1>3. PICK n \in 1..Length :
        /\ \A j \in 1..Length \ {n} : Script[prog][j].do # "sweep"
        /\ \A l \in 0..(Script[prog][n].points - 1), q \in DOMAIN target :
             /\ \A m \in 1..Len(Script[prog][n].writes[l]) :
                  Pokes(Script[prog][n].writes[l][m], q) =>
                    Script[prog][n].writes[l][m].value = Script[prog][n].tries[l][q]
             /\ Held(Script[prog][n], l, Len(Script[prog][n].writes[l]), q)
                  = Script[prog][n].tries[l][q]
  BY <1>2 DEF Searches, Length
<1>4. i = n
  BY <1>3 DEF Sweeps
<1>5. QED
  BY <1>1, <1>3, <1>4 DEF Points

(* A step does not change which script is walked through. *)
LEMMA SameScript ==
  ASSUME [ToolsNext]_vars
  PROVE  /\ Length' = Length /\ Sweeps' = Sweeps /\ \A i : Points(i)' = Points(i)
         /\ \A i, k : (Good(i, k)' <=> Good(i, k)) /\ (Near(i, k)' <=> Near(i, k))
         /\ \A stmt, k, n, r : Held(stmt, k, n, r)' = Held(stmt, k, n, r)
BY StepIs DEF Length, Sweeps, Points, Good, Near, Held, Old, Pokes

LEMMA SearchInit == ToolsInit => SearchInv
<1> SUFFICES ASSUME ToolsInit PROVE SearchInv
  OBVIOUS
<1>a. WalkInv
  BY WalkInit
<1>1. ASSUME target # <<>>, NEW i \in Sweeps PROVE Before(i) /\ During(i) /\ After(i)
  <2>1. /\ at = 1 /\ pt = 0 /\ wr = 0 /\ found = None /\ ~key
        /\ i \in Nat /\ i >= 1
        /\ \A r \in DOMAIN target : regs[r] = {}
    BY <1>1, <1>a, SearchIs DEF ToolsInit
  <2>2. \A r : Held(Script[prog][i], 0, 0, r) = {}
    BY DEF Held, Old
  <2>3. QED
    BY <2>1, <2>2 DEF Before, During, After
<1>2. QED
  BY <1>1 DEF ToolsInit, SearchInv

(* The statement a program begins after a step is dark, if it is the sweep. *)
LEMMA SearchBegins ==
  ASSUME WalkInv, target # <<>>, NEW i \in Sweeps, Before(i), After(i), [ToolsNext]_vars,
         at # i, at' = at + 1, pt' = 0, wr' = 0, UNCHANGED <<found, key, seen>>,
         at < i => \A r \in DOMAIN target : regs'[r] = regs[r]
  PROVE  (Before(i) /\ During(i) /\ After(i))'
<1>1. /\ i \in Nat \ {0} /\ at \in Nat \ {0} /\ prog' = prog /\ target' = target
      /\ \A k : (Good(i, k)' <=> Good(i, k)) /\ (Near(i, k)' <=> Near(i, k))
      /\ Points(i)' = Points(i)
  BY SearchIs, StepIs, SameScript DEF WalkInv
<1>2. CASE at < i
  <2>1. ~key' /\ found' = None /\ \A r \in DOMAIN target : regs'[r] = {}
    BY <1>2 DEF Before
  <2>2. \A r : Held(Script[prog][i], 0, 0, r) = {}
    BY DEF Held, Old
  <2>3. QED
    BY <1>1, <1>2, <2>1, <2>2 DEF Before, During, After, Held, Old
<1>3. CASE at > i
  BY <1>1, <1>3 DEF Before, During, After
<1>4. QED
  BY <1>1, <1>2, <1>3

(* One more write makes the registers what they should be then. *)
LEMMA WriteHolds ==
  ASSUME WalkInv, target # <<>>, NEW i \in Sweeps, at = i, During(i),
         pt \in Points(i), wr < Len(Script[prog][i].writes[pt]),
         NEW r \in DOMAIN target
  PROVE  RegsAfter(Script[prog][i].writes[pt][wr + 1])[r] =
           Held(Script[prog][i], pt, wr + 1, r)
<1> DEFINE sweep == Script[prog][i]
           part == sweep.writes[pt][wr + 1]
<1>1. /\ Hears /\ r \in DOMAIN regs /\ wr \in Nat /\ Len(sweep.writes[pt]) \in Nat
      /\ wr + 1 \in 1..Len(sweep.writes[pt])
  <2>1. Hears /\ r \in DOMAIN regs
    BY SearchIs
  <2>2. Len(sweep.writes[pt]) \in Nat
    BY PointIs
  <2>3. wr \in Nat
    BY DEF WalkInv
  <2>4. QED
    BY <2>1, <2>2, <2>3
<1>2. CASE Pokes(part, r)
  <2>1. part.value = sweep.tries[pt][r]
    BY <1>1, <1>2, PointIs
  <2>2. \E m \in 1..(wr + 1) : Pokes(sweep.writes[pt][m], r)
    BY <1>1, <1>2
  <2>3. Held(sweep, pt, wr + 1, r) = sweep.tries[pt][r]
    BY <2>2 DEF Held
  <2> HIDE DEF part
  <2>4. RegsAfter(part)[r] = part.value
    BY <1>1, <1>2, RegsAre
  <2>5. QED
    BY <2>1, <2>3, <2>4 DEF part
<1>3. CASE ~Pokes(part, r)
  <2>1. \A m \in 1..(wr + 1) : m \in 1..wr \/ m = wr + 1
    BY <1>1
  <2>2. \A m \in 1..wr : m \in 1..(wr + 1)
    BY <1>1
  <2>3. Held(sweep, pt, wr + 1, r) = Held(sweep, pt, wr, r)
    BY <1>3, <2>1, <2>2, Zenon DEF Held
  <2>4. regs[r] = Held(sweep, pt, wr, r)
    BY DEF During
  <2> HIDE DEF part
  <2>5. RegsAfter(part)[r] = regs[r]
    BY <1>1, <1>3, RegsAre
  <2>6. QED
    BY <2>3, <2>4, <2>5 DEF part
<1>4. QED
  BY <1>2, <1>3

(* What a point leaves is what the next one begins with. *)
LEMMA PointOver ==
  ASSUME WalkInv, target # <<>>, NEW i \in Sweeps, NEW k \in Points(i), NEW r \in DOMAIN target
  PROVE  Held(Script[prog][i], k + 1, 0, r) = Script[prog][i].tries[k][r]
BY SearchIs DEF Held, Old, Points

(* Where the polls of a point stand its light says whether it is good. *)
LEMMA PollIs ==
  ASSUME WalkInv, target # <<>>, NEW i \in Sweeps, at = i, During(i),
         pt \in Points(i), wr = Len(Script[prog][i].writes[pt])
  PROVE  /\ \A r \in DOMAIN target : regs[r] = Script[prog][i].tries[pt][r]
         /\ Lit <=> Good(i, pt)
<1>1. \A r \in DOMAIN target : regs[r] = Script[prog][i].tries[pt][r]
  BY PointIs DEF During
<1>2. QED
  BY <1>1 DEF Lit, Good

LEMMA SearchKeeps ==
  ASSUME WalkInv, target # <<>>, NEW i \in Sweeps, Before(i), During(i), After(i),
         [ToolsNext]_vars
  PROVE  (Before(i) /\ During(i) /\ After(i))'
<1>a. /\ i \in Nat \ {0} /\ i <= Length /\ Length \in Nat
      /\ Script[prog][i].do = "sweep" /\ Script[prog][i].points \in Nat
      /\ Hears /\ \A j \in 1..Length : Script[prog][j].do = "sweep" => j = i
  BY SearchIs
<1>b. /\ at \in Nat \ {0} /\ pt \in Nat /\ wr \in Nat /\ poll \in Nat
      /\ pt # 0 \/ wr # 0 => at <= Length /\ Stmt.do = "sweep"
      /\ at = i => Stmt = Script[prog][i]
  BY DEF WalkInv, Stmt, InSweep
<1>c. /\ prog' = prog /\ target' = target
      /\ Points(i)' = Points(i) /\ Points(i) = 0..(Script[prog][i].points - 1)
      /\ \A k : (Good(i, k)' <=> Good(i, k)) /\ (Near(i, k)' <=> Near(i, k))
      /\ \A stmt, k, n, r : Held(stmt, k, n, r)' = Held(stmt, k, n, r)
  BY StepIs, SameScript DEF Points
<1>d. ASSUME At("sweep") PROVE at = i /\ Stmt = Script[prog][i]
  <2>1. at \in 1..Length /\ Script[prog][at].do = "sweep"
    BY <1>a, <1>b, <1>d DEF At, Length, Stmt
  <2>2. QED
    BY <1>a, <1>b, <2>1
<1>1. CASE DoCard \/ DoAny
  <2>1. /\ at <= Length /\ Stmt.do # "sweep" /\ at' = at + 1
        /\ UNCHANGED <<pt, wr, found, key, seen>>
    BY <1>1 DEF DoCard, DoAny, At, Advance, Length, personVars, sweepVars
  <2>2. at # i /\ pt' = 0 /\ wr' = 0
    BY <1>a, <1>b, <2>1
  <2>3. ASSUME at < i, NEW r \in DOMAIN target PROVE regs'[r] = regs[r]
    <3>1. Stmt.do # "any" /\ ~Pokes(Stmt, r) /\ r \in DOMAIN regs
      BY <1>a, <1>b, <2>3, SearchIs DEF Stmt
    <3>2. CASE DoCard
      BY <3>1, <3>2, RegsAre DEF DoCard, Card
    <3>3. CASE DoAny
      BY <3>1, <3>3 DEF DoAny, At
    <3>4. QED
      BY <1>1, <3>2, <3>3
  <2>4. QED
    BY <2>1, <2>2, <2>3, SearchBegins
<1>2. CASE SweepWrite
  <2> DEFINE sweep == Script[prog][i]
  <2>1. /\ at = i /\ at' = i /\ pt' = pt /\ wr' = wr + 1 /\ pt \in Points(i)
        /\ wr < Len(sweep.writes[pt])
        /\ UNCHANGED <<found, key, seen>> /\ regs' = RegsAfter(sweep.writes[pt][wr + 1])
    <3>1. at = i /\ Stmt = sweep
      BY <1>2, <1>d DEF SweepWrite
    <3>2. QED
      BY <1>2, <1>a, <1>b, <1>c, <3>1 DEF SweepWrite, Card, personVars
  <2>2. \A r \in DOMAIN target : regs'[r] = Held(sweep, pt, wr + 1, r)
    BY <2>1, WriteHolds
  <2>3. During(i)'
    <3>1. /\ found = None /\ \A k \in 0..(pt - 1) : Good(i, k) => seen
          /\ sweep.watch = "key" /\ key /\ pt \in Points(i) => Near(i, pt)
      BY <2>1 DEF During
    <3>2. QED
      BY <1>c, <2>1, <2>2, <3>1 DEF During
  <2>4. Before(i)' /\ After(i)'
    BY <1>a, <2>1 DEF Before, After
  <2>5. QED
    BY <2>3, <2>4
<1>3. CASE SweepHit
  <2>1. /\ at = i /\ at' = i + 1 /\ found' = pt /\ pt \in Points(i)
        /\ wr = Len(Script[prog][i].writes[pt])
        /\ \/ Script[prog][i].watch = "key" /\ key
           \/ Script[prog][i].watch = "lock" /\ Lit
    <3>1. at = i /\ Stmt = Script[prog][i]
      BY <1>3, <1>d DEF SweepHit, Polling
    <3>2. QED
      BY <1>3, <1>a, <1>b, <1>c, <3>1 DEF SweepHit, Polling, Hit
  <2>2. Good(i, pt) \/ (Script[prog][i].watch = "key" /\ Near(i, pt))
    BY <2>1, PollIs DEF During
  <2>3. After(i)'
    <3>1. pt # None
      BY <1>b DEF None
    <3>2. QED
      BY <1>c, <2>1, <2>2, <3>1 DEF After
  <2>4. Before(i)' /\ During(i)'
    BY <1>a, <2>1 DEF Before, During
  <2>5. QED
    BY <2>3, <2>4
<1>4. CASE SweepMiss
  <2> DEFINE sweep == Script[prog][i]
  <2>1. /\ at = i /\ at' = i /\ seen' = (seen \/ Lit) /\ pt \in Points(i)
        /\ wr = Len(sweep.writes[pt]) /\ UNCHANGED <<found, key>> /\ regs' = regs
        /\ sweep.watch = "key" => ~key
        /\ (wr' = wr /\ pt' = pt) \/ (wr' = 0 /\ pt' = pt + 1)
    <3>1. at = i /\ Stmt = sweep
      BY <1>4, <1>d DEF SweepMiss, Polling
    <3>2. QED
      BY <1>4, <1>a, <1>b, <1>c, <3>1 DEF SweepMiss, Polling, Hit, cardVars
  <2>2. /\ \A r \in DOMAIN target : regs[r] = sweep.tries[pt][r]
        /\ Lit <=> Good(i, pt)
    BY <2>1, PollIs
  <2>3. \A r \in DOMAIN target : regs'[r] = Held(sweep, pt', wr', r)
    <3>1. CASE wr' = 0 /\ pt' = pt + 1
      BY <2>1, <2>2, <3>1, PointOver
    <3>2. CASE wr' = wr /\ pt' = pt
      BY <2>1, <3>2 DEF During
    <3>3. QED
      BY <2>1, <3>1, <3>2
  <2>4. found = None /\ \A k \in 0..(pt - 1) : Good(i, k) => seen
    BY <2>1 DEF During
  <2>5. ASSUME NEW k \in 0..pt, Good(i, k) PROVE seen'
    <3>1. CASE k = pt
      BY <2>1, <2>2, <2>5, <3>1
    <3>2. CASE k # pt
      <4>1. k \in 0..(pt - 1)
        BY <1>b, <2>5, <3>2
      <4>2. QED
        BY <2>1, <2>4, <2>5, <4>1
    <3>3. QED
      BY <3>1, <3>2
  <2>6. \A k \in 0..(pt' - 1) : k \in 0..pt
    BY <1>b, <2>1
  <2>7. During(i)'
    BY <1>c, <2>1, <2>3, <2>4, <2>5, <2>6 DEF During
  <2>8. Before(i)' /\ After(i)'
    BY <1>a, <1>b, <2>1 DEF Before, After
  <2>9. QED
    BY <2>7, <2>8
<1>5. CASE SweepOver
  <2>1. /\ at = i /\ at' = i + 1 /\ pt = Script[prog][i].points
        /\ UNCHANGED <<found, seen>>
    <3>1. at = i /\ Stmt = Script[prog][i]
      BY <1>5, <1>d DEF SweepOver
    <3>2. QED
      BY <1>5, <3>1 DEF SweepOver, personVars
  <2>2. found = None /\ \A k \in Points(i) : Good(i, k) => seen
    BY <1>c, <2>1 DEF During
  <2>3. After(i)'
    BY <1>c, <2>1, <2>2 DEF After
  <2>4. Before(i)' /\ During(i)'
    BY <1>a, <2>1 DEF Before, During
  <2>5. QED
    BY <2>3, <2>4
<1>6. CASE Press
  <2>1. Lit /\ UNCHANGED <<at, pt, wr, found, seen, regs>>
    BY <1>6 DEF Press, cardVars, sweepVars
  <2>2. ~(at < i)
    <3>1. \E r \in DOMAIN target : target[r] # {}
      BY SearchIs
    <3>2. \A r \in DOMAIN target : regs[r] = target[r]
      BY <2>1 DEF Lit
    <3>3. QED
      BY <3>1, <3>2 DEF Before
  <2>3. ASSUME at = i, pt \in Points(i) PROVE Near(i, pt)
    <3>1. \A r \in DOMAIN target : target[r] = Held(Script[prog][i], pt, wr, r)
      BY <2>1, <2>3 DEF Lit, During
    <3>2. QED
      BY <3>1 DEF Near, Held
  <2>4. During(i)'
    BY <1>c, <2>1, <2>3 DEF During
  <2>5. Before(i)' /\ After(i)'
    BY <1>b, <1>c, <2>1, <2>2 DEF Before, After
  <2>6. QED
    BY <2>4, <2>5
<1>7. CASE Quiet
  <2>1. UNCHANGED <<regs, found, key, seen, pt, wr>>
    BY <1>7 DEF Quiet
  <2>2. CASE at' = at
    <3>1. Before(i)' /\ After(i)'
      BY <1>c, <2>1, <2>2 DEF Before, After
    <3>2. During(i)'
      BY <1>c, <2>1, <2>2 DEF During
    <3>3. QED
      BY <3>1, <3>2
  <2>3. CASE at' # at
    <3>1. at' = at + 1 /\ at <= Length /\ Stmt.do \in {"get_dma", "poll"}
      BY <1>7, <2>3 DEF Quiet
    <3>2. at # i /\ pt' = 0 /\ wr' = 0
      BY <1>a, <1>b, <2>1, <3>1
    <3>3. QED
      BY <2>1, <3>1, <3>2, SearchBegins
  <2>4. QED
    BY <2>2, <2>3
<1>8. QED
  BY <1>1, <1>2, <1>3, <1>4, <1>5, <1>6, <1>7, StepIs

LEMMA SearchStep == WalkInv /\ SearchInv /\ [ToolsNext]_vars => SearchInv'
<1> SUFFICES ASSUME WalkInv, SearchInv, [ToolsNext]_vars PROVE SearchInv'
  OBVIOUS
<1>1. target' = target /\ Sweeps' = Sweeps
  BY StepIs, SameScript
<1>2. CASE target # <<>>
  <2>1. \A i \in Sweeps : (Before(i) /\ During(i) /\ After(i))'
    BY <1>2, SearchKeeps DEF SearchInv
  <2>2. QED
    BY <1>1, <1>2, <2>1 DEF SearchInv
<1>3. CASE target = <<>>
  <2>1. ~Lit /\ ~key /\ found = None
    BY <1>3 DEF SearchInv, Lit
  <2>2. ~SweepHit /\ ~Press
    BY <2>1 DEF SweepHit, Hit, Press
  <2>3. UNCHANGED <<key, found>>
    BY <2>2, StepIs DEF DoCard, DoAny, SweepWrite, SweepMiss, SweepOver, Quiet, Advance,
                        personVars
  <2>4. QED
    BY <1>1, <1>3, <2>1, <2>3 DEF SearchInv
<1>4. QED
  BY <1>2, <1>3

THEOREM SearchInvariance == ToolsSpec => [](WalkInv /\ SearchInv)
<1>1. ToolsInit => WalkInv /\ SearchInv
  BY WalkInit, SearchInit
<1>2. WalkInv /\ SearchInv /\ [ToolsNext]_vars => (WalkInv /\ SearchInv)'
  BY WalkStep, SearchStep
<1>3. QED
  BY <1>1, <1>2, PTL DEF ToolsSpec

(* There is one sweep to report of, and it is over. *)
LEMMA ReportIs ==
  ASSUME WalkInv, SearchInv, found # None
  PROVE  \E i \in Sweeps : at > i /\ TheSweep = Script[prog][i] /\ target # <<>>
<1>1. target # <<>>
  BY DEF SearchInv
<1>2. PICK i \in Sweeps : TRUE
  BY <1>1, AnnouncedAssumption DEF WalkInv, Searches, Sweeps, Length
<1>3. \A s \in {Script[prog][j] : j \in 1..Length} : s.do = "sweep" <=> s = Script[prog][i]
  BY <1>1, <1>2, SearchIs DEF Sweeps
<1>4. Script[prog][i] \in {Script[prog][j] : j \in 1..Length}
  BY <1>2 DEF Sweeps
<1>5. TheSweep = Script[prog][i]
  BY <1>3, <1>4 DEF TheSweep, Length
<1>6. at > i
  <2>1. Before(i) /\ During(i)
    BY <1>1, <1>2 DEF SearchInv
  <2>2. i \in Nat /\ at \in Nat
    BY <1>1, <1>2, SearchIs DEF WalkInv
  <2>3. QED
    BY <2>1, <2>2 DEF Before, During
<1>7. QED
  BY <1>1, <1>2, <1>5, <1>6

(* Whatever lights the card, and whenever the key is pressed, between any two *)
(* ioctls: register by register what is reported is the value that lit the    *)
(* card, or what was written after it; the program that reads the port itself *)
(* reports the very values.                                                   *)
THEOREM ReportsAreNear == ToolsSpec => []ReportIsNear
<1>1. WalkInv /\ SearchInv => ReportIsNear
  <2> SUFFICES ASSUME WalkInv, SearchInv, found # None PROVE ReportIsNear
    BY DEF ReportIsNear
  <2>1. PICK i \in Sweeps : at > i /\ TheSweep = Script[prog][i] /\ target # <<>>
    BY ReportIs
  <2>2. Good(i, found) \/ (Script[prog][i].watch = "key" /\ Near(i, found))
    BY <2>1 DEF SearchInv, After
  <2>3. QED
    BY <2>1, <2>2 DEF ReportIsNear, Good, Near
<1>2. QED
  BY <1>1, SearchInvariance, PTL

(* A sweep that returns empty-handed has polled while the light was on, if   *)
(* any of its points turns it on: no point is passed without a poll.  What   *)
(* it announces and never tries is the exception by name (Overlaid).         *)
THEOREM NothingIsSkipped == ToolsSpec => []NothingSkipped
<1>1. WalkInv /\ SearchInv => NothingSkipped
  <2> SUFFICES ASSUME WalkInv, SearchInv, end = "returned", found = None, target # <<>>,
                      ~Overlaid(prog, target)
               PROVE  seen
    BY DEF NothingSkipped
  <2>1. Tries(prog, target)
    BY AnnouncedAssumption DEF WalkInv
  <2>2. PICK i \in Sweeps : \E k \in Points(i) : Good(i, k)
    BY <2>1 DEF Tries, Sweeps, Points, Length, Good
  <2>3. at > i
    BY SearchIs DEF WalkInv
  <2>4. QED
    BY <2>2, <2>3 DEF SearchInv, After
<1>2. QED
  BY <1>1, SearchInvariance, PTL

-------------------------------------------------------------------------------
(* Uploads                                                                 *)

(* Memory, DSP and address are what the statements passed have made of them, *)
(* but for what a sweep under way has changed.                              *)
LoadInv ==
  /\ DOMAIN mem = Regions
  /\ \A r \in Regions : ~(InSweep /\ Touches(Stmt, r)) =>
       /\ \A v \in {"zero", "golden", "low"} : Leaves(prog, loaded, at, r, v) => mem[r] = v
       /\ Leaves(prog, loaded, at, r, "dma") => mem[r] = dma
  /\ HeldInReset(prog, loaded, at) /\ ~(InSweep /\ Starts(Stmt)) => dsp = "reset"
  /\ (\A k \in 1..(at - 1) : Script[prog][k].do # "get_dma") => dma = "low"

LEMMA LoadInit == ToolsInit => LoadInv
<1> SUFFICES ASSUME ToolsInit PROVE LoadInv
  OBVIOUS
<1>1. /\ at = 1 /\ dma = "low" /\ DOMAIN mem = Regions
      /\ loaded => \A r \in Regions : mem[r] = "golden"
      /\ ~loaded => dsp = "reset"
  BY DEF ToolsInit
<1>2. ASSUME NEW r, NEW v, Leaves(prog, loaded, at, r, v)
      PROVE  loaded /\ v = "golden"
  BY <1>1, <1>2 DEF Leaves
<1>3. HeldInReset(prog, loaded, at) => ~loaded
  BY <1>1 DEF HeldInReset
<1>4. QED
  BY <1>1, <1>2, <1>3 DEF LoadInv

(* What a statement makes of the memory. *)
LEMMA MemIs ==
  ASSUME DOMAIN mem = Regions, NEW stmt
  PROVE  /\ DOMAIN MemAfter(stmt) = Regions
         /\ \A r \in Regions :
              /\ stmt.do # "zero" /\ ~(stmt.do = "mem" /\ stmt.region = r) =>
                   MemAfter(stmt)[r] = mem[r]
              /\ \A v : Writes(stmt, r, v) => MemAfter(stmt)[r] = IF v = "dma" THEN dma ELSE v
BY DEF MemAfter, Writes

(* What a step does to the card's memory and DSP: nothing, what the statement *)
(* says (for a sweep that ends, nothing), what the user wants, or what one    *)
(* write of a sweep says.                                                    *)
Executes ==
  /\ at \in 1..Length /\ at' = at + 1 /\ Stmt.do # "any"
  /\ Stmt.do # "get_dma" => dma' = dma
  /\ mem' = MemAfter(Stmt) /\ dsp' = DspAfter(Stmt)
Obeys ==
  /\ at \in 1..Length /\ at' = at + 1 /\ Stmt.do = "any" /\ dma' = dma
  /\ \E stmt : mem' = MemAfter(stmt)
SweepsOn ==
  /\ InSweep /\ UNCHANGED <<at, dma>>
  /\ \E part \in Parts(Stmt) :
       /\ mem' = MemAfter(part) /\ dsp' = DspAfter(part)
       /\ part = Stmt.writes[pt][wr'] /\ wr' > wr

LEMMA LoadStepIs ==
  WalkInv /\ [ToolsNext]_vars =>
    \/ (Executes \/ Obeys \/ UNCHANGED <<at, mem, dsp, dma>>) /\ ~(wr' > wr)
    \/ SweepsOn
<1> SUFFICES ASSUME WalkInv, [ToolsNext]_vars
             PROVE  \/ (Executes \/ Obeys \/ UNCHANGED <<at, mem, dsp, dma>>) /\ ~(wr' > wr)
                    \/ SweepsOn
  OBVIOUS
<1>1. at \in Nat \ {0} /\ Length \in Nat /\ wr \in Nat
  BY ScriptIs DEF WalkInv
<1>2. CASE DoCard
  BY <1>1, <1>2 DEF DoCard, Card, Executes, Advance, At, Length, sweepVars
<1>3. CASE DoAny
  BY <1>1, <1>3 DEF DoAny, Card, Obeys, Advance, At, Length, sweepVars
<1>4. CASE SweepHit \/ SweepOver \/ DoGetDma \/ DoPoll
  <2>1. /\ mem' = mem /\ dsp' = dsp /\ ~(wr' > wr)
        /\ at \in 1..Length /\ Stmt.do \in {"sweep", "get_dma", "poll"}
        /\ Stmt.do # "get_dma" => dma' = dma
        /\ at' = at + 1 \/ (at' = at /\ dma' = dma)
    BY <1>1, <1>4 DEF SweepHit, SweepOver, DoGetDma, DoPoll, Polling, At, Length, sweepVars,
                      cardVars
  <2>2. MemAfter(Stmt) = mem /\ DspAfter(Stmt) = dsp
    BY <2>1 DEF MemAfter, DspAfter
  <2>3. QED
    BY <2>1, <2>2 DEF Executes
<1>5. CASE SweepMiss \/ Press \/ DoWrongDma \/ DoAcks \/ Return \/ Kill \/ Ended
           \/ UNCHANGED vars
  BY <1>1, <1>5 DEF SweepMiss, Press, DoWrongDma, DoAcks, Return, Kill, Ended, vars, cardVars,
                    sweepVars
<1>6. CASE SweepWrite
  <2>1. /\ InSweep /\ pt < Stmt.points /\ wr < Len(Stmt.writes[pt]) /\ wr' = wr + 1
        /\ UNCHANGED <<at, dma>> /\ Card(Stmt.writes[pt][wr + 1])
    BY <1>6 DEF SweepWrite, At, InSweep, Length
  <2>2. pt \in 0..(Stmt.points - 1) /\ Stmt.do = "sweep"
    BY <2>1, ScriptIs DEF WalkInv, InSweep
  <2>3. Len(Stmt.writes[pt]) \in Nat
    BY <2>1, <2>2, ScriptIs
  <2>4. wr + 1 \in 1..Len(Stmt.writes[pt])
    BY <1>1, <2>1, <2>3
  <2>5. Stmt.writes[pt][wr + 1] \in Parts(Stmt)
    BY <2>2, <2>4, SweepPart
  <2>6. QED
    BY <1>1, <2>1, <2>5 DEF SweepsOn, Card
<1>7. QED
  BY <1>2, <1>3, <1>4, <1>5, <1>6 DEF ToolsNext, SweepStep, UploadStep, Person

(* One statement further: the last writer is the statement itself, or it is  *)
(* the same as before.                                                      *)
LEMMA LeavesNext ==
  ASSUME NEW p, NEW l, NEW n \in Nat \ {0}, NEW r, NEW v, Leaves(p, l, n + 1, r, v)
  PROVE  \/ Writes(Script[p][n], r, v)
         \/ /\ Leaves(p, l, n, r, v) /\ ~Touches(Script[p][n], r)
            /\ v = "dma" => Script[p][n].do # "get_dma"
<1>1. PICK j \in 0..n :
        /\ IF j = 0 THEN l /\ v = "golden" ELSE Writes(Script[p][j], r, v)
        /\ \A k \in (j + 1)..n :
             ~Touches(Script[p][k], r) /\ (v = "dma" => Script[p][k].do # "get_dma")
  BY DEF Leaves
<1>2. CASE j = n
  BY <1>1, <1>2
<1>3. CASE j # n
  <2>1. j \in 0..(n - 1) /\ n \in (j + 1)..n /\ \A k \in (j + 1)..(n - 1) : k \in (j + 1)..n
    BY <1>3
  <2>2. QED
    BY <1>1, <2>1 DEF Leaves
<1>4. QED
  BY <1>2, <1>3

LEMMA ResetNext ==
  ASSUME NEW p, NEW l, NEW n \in Nat \ {0}, HeldInReset(p, l, n + 1)
  PROVE  Script[p][n].do = "fpga" \/ (HeldInReset(p, l, n) /\ ~Starts(Script[p][n]))
<1>1. PICK j \in 0..n :
        /\ IF j = 0 THEN ~l ELSE Script[p][j].do = "fpga"
        /\ \A k \in (j + 1)..n : ~Starts(Script[p][k])
  BY DEF HeldInReset
<1>2. CASE j = n
  BY <1>1, <1>2
<1>3. CASE j # n
  <2>1. j \in 0..(n - 1) /\ n \in (j + 1)..n /\ \A k \in (j + 1)..(n - 1) : k \in (j + 1)..n
    BY <1>3
  <2>2. QED
    BY <1>1, <2>1 DEF HeldInReset
<1>4. QED
  BY <1>2, <1>3

LEMMA LoadStep == WalkInv /\ LoadInv /\ [ToolsNext]_vars => LoadInv'
<1> SUFFICES ASSUME WalkInv, LoadInv, [ToolsNext]_vars PROVE LoadInv'
  OBVIOUS
<1>1. /\ prog' = prog /\ loaded' = loaded /\ at \in Nat \ {0} /\ DOMAIN mem = Regions
      /\ Length' = Length
  BY StepIs DEF WalkInv, LoadInv, Length
<1>2. CASE UNCHANGED <<at, mem, dsp, dma>>
  BY <1>1, <1>2 DEF LoadInv, InSweep, Stmt
<1>3. CASE Executes
  <2>1. at' = at + 1 /\ at \in 1..(at' - 1) /\ \A k \in 1..(at - 1) : k \in 1..(at' - 1)
    BY <1>1, <1>3 DEF Executes
  <2>2. DOMAIN mem' = Regions
    BY <1>1, <1>3, MemIs DEF Executes
  <2>3. ASSUME NEW r \in Regions, NEW v \in {"zero", "golden", "low", "dma"},
               Leaves(prog, loaded, at', r, v)
        PROVE  /\ v = "dma" => dma' = dma
               /\ mem'[r] = IF v = "dma" THEN dma ELSE v
    <3>1. \/ Writes(Stmt, r, v)
          \/ /\ Leaves(prog, loaded, at, r, v) /\ ~Touches(Stmt, r)
             /\ v = "dma" => Stmt.do # "get_dma"
      BY <1>1, <2>1, <2>3, LeavesNext DEF Stmt
    <3>2. v = "dma" => dma' = dma
      BY <1>3, <3>1 DEF Executes, Writes
    <3>3. CASE Writes(Stmt, r, v)
      BY <1>1, <1>3, <3>2, <3>3, MemIs DEF Executes
    <3>4. CASE Leaves(prog, loaded, at, r, v) /\ ~Touches(Stmt, r)
      <4>1. mem[r] = IF v = "dma" THEN dma ELSE v
        BY <3>4 DEF LoadInv
      <4>2. MemAfter(Stmt)[r] = mem[r]
        <5>1. CASE Stmt.do = "sweep"
          BY <5>1 DEF MemAfter
        <5>2. CASE Stmt.do # "sweep"
          BY <1>1, <3>4, <5>2, PartIs, MemIs
        <5>3. QED
          BY <5>1, <5>2
      <4>3. QED
        BY <1>3, <3>2, <4>1, <4>2 DEF Executes
    <3>5. QED
      BY <3>1, <3>3, <3>4
  <2>4. HeldInReset(prog, loaded, at') => dsp' = "reset"
    <3>1. HeldInReset(prog, loaded, at') =>
            Stmt.do = "fpga" \/ (HeldInReset(prog, loaded, at) /\ ~Starts(Stmt))
      BY <1>1, <2>1, ResetNext DEF Stmt
    <3>2. ~Starts(Stmt) => Stmt.do # "start"
      BY PartIs
    <3>3. QED
      BY <1>3, <3>1, <3>2 DEF Executes, LoadInv, DspAfter
  <2>5. (\A k \in 1..(at' - 1) : Script[prog][k].do # "get_dma") => dma' = "low"
    BY <1>3, <2>1 DEF Executes, LoadInv, Stmt
  <2>6. QED
    BY <1>1, <2>2, <2>3, <2>4, <2>5 DEF LoadInv
<1>4. CASE Obeys
  <2>1. at' = at + 1 /\ \A k \in 1..(at - 1) : k \in 1..(at' - 1)
    BY <1>1, <1>4 DEF Obeys
  <2>2. DOMAIN mem' = Regions /\ dma' = dma
    BY <1>1, <1>4, MemIs DEF Obeys
  <2>3. Starts(Stmt) /\ \A r : Touches(Stmt, r) /\ \A v : ~Writes(Stmt, r, v)
    BY <1>4, PartIs DEF Obeys, Writes
  <2>4. \A r, v : ~Leaves(prog, loaded, at', r, v)
    BY <1>1, <2>1, <2>3, LeavesNext DEF Stmt
  <2>5. ~HeldInReset(prog, loaded, at')
    BY <1>1, <1>4, <2>1, <2>3, ResetNext DEF Stmt, Obeys
  <2>6. QED
    BY <1>1, <2>1, <2>2, <2>4, <2>5 DEF LoadInv
<1>5. CASE SweepsOn
  <2>1. PICK part \in Parts(Stmt) : mem' = MemAfter(part) /\ dsp' = DspAfter(part)
    BY <1>5 DEF SweepsOn
  <2>2. at' = at /\ dma' = dma /\ Stmt' = Stmt /\ InSweep /\ InSweep'
    BY <1>1, <1>5 DEF SweepsOn, Stmt, InSweep
  <2>3. DOMAIN mem' = Regions
    BY <1>1, <2>1, MemIs
  <2>4. ASSUME NEW r \in Regions, ~Touches(Stmt, r) PROVE mem'[r] = mem[r]
    <3>1. part.do # "zero" /\ ~(part.do = "mem" /\ part.region = r)
      BY <2>4 DEF Touches
    <3>2. QED
      BY <1>1, <2>1, <3>1, MemIs
  <2>5. ~Starts(Stmt) /\ dsp = "reset" => dsp' = "reset"
    BY <2>1 DEF Starts, DspAfter
  <2>6. QED
    BY <1>1, <2>2, <2>3, <2>4, <2>5 DEF LoadInv
<1>6. QED
  BY <1>2, <1>3, <1>4, <1>5, LoadStepIs

(* Each start finds the complete program, and pointers that are zero or of   *)
(* the buffer this run asked for; a program in execution is not changed, but *)
(* with what it already is, the rate apart.  The two programs that start      *)
(* whatever is there, and the two that poke the program, are named.          *)
THEOREM StartsComplete == ToolsSpec => ProgramAtStart
<1>1. ASSUME WalkInv, LoadInv, [ToolsNext]_vars
      PROVE  [/\ Starting /\ ~StartsAnything(prog, loaded) =>
                   /\ \A r \in Kept(prog) : mem[r] = "golden"
                   /\ prog \notin Foreign => \A r \in Pointers : mem[r] \in {"zero", dma}
              /\ dsp = "running" /\ prog \notin Pokers =>
                   \A r \in Kept(prog) : mem'[r] = mem[r]]_vars
  <2>1. /\ prog \in Programs /\ at \in Nat \ {0} /\ Length \in Nat
        /\ Uploads(prog, loaded) /\ DOMAIN mem = Regions
    BY <1>1, ProgramsAssumption DEF WalkInv, Length, LoadInv
  <2>2. Kept(prog) \subseteq Regions /\ Pointers \subseteq Regions
    BY DEF Kept, Regions
  <2>3. ASSUME Starting, ~StartsAnything(prog, loaded)
        PROVE  /\ \A r \in Kept(prog) : mem[r] = "golden"
               /\ prog \notin Foreign => \A r \in Pointers : mem[r] \in {"zero", dma}
    <3>1. at \in 1..Len(Script[prog]) /\ Starts(Stmt)
      <4>1. at \in 1..Len(Script[prog])
        BY <2>1, <2>3 DEF Starting, At, Length
      <4>2. CASE At("start")
        BY <4>1, <4>2, PartIs DEF At
      <4>3. CASE At("sweep") /\ wr' > wr /\ Stmt.writes[pt][wr'].do = "start"
        <5>1. SweepsOn
          BY <1>1, <4>3, LoadStepIs
        <5>2. QED
          BY <4>1, <4>3, <5>1 DEF SweepsOn, Starts
      <4>4. QED
        BY <2>3, <4>1, <4>2, <4>3 DEF Starting
    <3>2. /\ \A r \in Kept(prog) : Leaves(prog, loaded, at, r, "golden")
          /\ Stmt.do = "sweep" => \A r \in Kept(prog) : ~Touches(Stmt, r)
          /\ prog \notin Foreign => Stmt.do # "sweep" /\ \A r \in Pointers :
               \/ Leaves(prog, loaded, at, r, "zero") \/ Leaves(prog, loaded, at, r, "dma")
               \/ /\ Leaves(prog, loaded, at, r, "low")
                  /\ \A k \in 1..(at - 1) : Script[prog][k].do # "get_dma"
      BY <2>1, <2>3, <3>1 DEF Uploads, Stmt
    <3>3. \A r \in Kept(prog) : mem[r] = "golden"
      BY <1>1, <2>2, <3>2 DEF LoadInv, InSweep
    <3>4. ASSUME prog \notin Foreign, NEW r \in Pointers PROVE mem[r] \in {"zero", dma}
      <4>1. ~(InSweep /\ Touches(Stmt, r)) /\ r \in Regions
        BY <2>2, <3>2, <3>4 DEF InSweep
      <4>2. QED
        BY <1>1, <3>2, <3>4, <4>1 DEF LoadInv
    <3>5. QED
      BY <3>3, <3>4
  <2>4. ASSUME dsp = "running", prog \notin Pokers, NEW r \in Kept(prog)
        PROVE  mem'[r] = mem[r]
    <3>1. r \in Regions
      BY <2>2
    <3>2. ASSUME at \in 1..Length
          PROVE  Touches(Stmt, r) =>
                   Writes(Stmt, r, "golden") /\ Leaves(prog, loaded, at, r, "golden")
      <4>1. ~(HeldInReset(prog, loaded, at) /\ Stmt.do # "sweep")
        BY <1>1, <2>4 DEF LoadInv, InSweep
      <4>2. QED
        BY <2>1, <2>4, <3>2, <4>1 DEF Uploads, Stmt, Length
    <3>3. CASE Executes
      <4>1. mem' = MemAfter(Stmt) /\ at \in 1..Length
        BY <3>3 DEF Executes
      <4>2. CASE Stmt.do = "sweep"
        BY <4>1, <4>2 DEF MemAfter
      <4>3. CASE Stmt.do # "sweep" /\ ~Touches(Stmt, r)
        BY <2>1, <3>1, <4>1, <4>3, PartIs, MemIs
      <4>4. CASE Stmt.do # "sweep" /\ Touches(Stmt, r)
        <5>1. Writes(Stmt, r, "golden") /\ mem[r] = "golden"
          BY <1>1, <3>1, <3>2, <4>1, <4>4 DEF LoadInv, InSweep
        <5>2. QED
          BY <2>1, <3>1, <4>1, <5>1, MemIs
      <4>5. QED
        BY <4>2, <4>3, <4>4
    <3>4. CASE Obeys
      <4>1. at \in 1..Length /\ Touches(Stmt, r) /\ ~Writes(Stmt, r, "golden")
        BY <3>4, PartIs DEF Obeys, Writes
      <4>2. QED
        BY <3>2, <4>1
    <3>5. CASE SweepsOn
      <4>1. PICK part \in Parts(Stmt) : mem' = MemAfter(part)
        BY <3>5 DEF SweepsOn
      <4>2. at \in 1..Length /\ ~Writes(Stmt, r, "golden")
        BY <2>1, <3>5 DEF SweepsOn, InSweep, Writes
      <4>3. part.do # "zero" /\ ~(part.do = "mem" /\ part.region = r)
        BY <3>2, <4>2 DEF Touches
      <4>4. QED
        BY <2>1, <3>1, <4>1, <4>3, MemIs
    <3>6. CASE UNCHANGED <<at, mem, dsp, dma>>
      BY <3>6
    <3>7. QED
      BY <1>1, <3>3, <3>4, <3>5, <3>6, LoadStepIs
  <2>5. QED
    BY <2>3, <2>4
<1>2. QED
  BY <1>1, WalkInit, WalkStep, LoadInit, LoadStep, PTL DEF ToolsSpec, ProgramAtStart
===============================================================================
