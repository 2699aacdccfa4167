------------------------------ MODULE Motu424Tools ------------------------------
(***************************************************************************)
(* A program of Motu424Programs, the card it pokes and the person who      *)
(* watches the card's lights: step by step through the loops, with the key *)
(* pressed at any moment a light is on, and Ctrl-C at any moment at all.   *)
(*                                                                         *)
(* The lights are on while the registers hold the values of "target",      *)
(* which nobody knows: what the sweeps are looking for.                    *)
(***************************************************************************)
EXTENDS Motu424Programs

CONSTANTS
  Programs,         \* the programs that may be run
  Announced(_)      \* what the comments and messages of a sweep say it tries

Pokes(stmt, r) == stmt.do = "write" /\ stmt.reg = r

(* What register r holds before point k, and after the first n writes of it,  *)
(* if a sweep begins with zero there and each of its writes is what it tries. *)
Old(sweep, k, r) == IF k = 0 THEN {} ELSE sweep.tries[k - 1][r]
Held(sweep, k, n, r) ==
  IF \E m \in 1..n : Pokes(sweep.writes[k][m], r) THEN sweep.tries[k][r] ELSE Old(sweep, k, r)

(* The registers of a program of which something may light the card. *)
Registers ==
  {"conf", "rate", "bank80", "bank84", "bankC4", "bank104", "bank144", "port0", "port8",
   "portC", "ack", "x04", "x08", "x10", "x14", "x34", "x38", "x3C"}

(* What lights the card is a function on registers, or nothing: <<>>.  A     *)
(* program looks for it in its one sweep: whatever a point reports for these *)
(* registers it has written, unless they hold it already, and they are not   *)
(* written before, one of them being other than zero.                        *)
Searches(p, lit) ==
  \E i \in 1..Len(Script[p]) :
    LET sweep == Script[p][i] IN
    /\ sweep.do = "sweep" /\ \A j \in 1..Len(Script[p]) \ {i} : Script[p][j].do # "sweep"
    /\ p \notin Deaf
    /\ DOMAIN lit \subseteq Registers /\ \E r \in DOMAIN lit : lit[r] # {}
    /\ \A r \in DOMAIN lit : \A j \in 1..(i - 1) :
         Script[p][j].do # "any" /\ ~Pokes(Script[p][j], r)
    /\ \A k \in 0..(sweep.points - 1), r \in DOMAIN lit :
         /\ \A m \in 1..Len(sweep.writes[k]) :
              Pokes(sweep.writes[k][m], r) => sweep.writes[k][m].value = sweep.tries[k][r]
         /\ Held(sweep, k, Len(sweep.writes[k]), r) = sweep.tries[k][r]

(* One of the points is the one looked for. *)
Tries(p, lit) ==
  \E i \in 1..Len(Script[p]) :
    /\ Script[p][i].do = "sweep"
    /\ \E k \in 0..(Script[p][i].points - 1) :
         \A r \in DOMAIN lit : Script[p][i].tries[k][r] = lit[r]

(* Three sweeps count the bits from 16 on into a value in which 16 to 19 are *)
(* set already: they never try what has one of these clear.                  *)
Overlaid(p, lit) ==
  /\ p \in {"clock_exhaustive", "clock_exhaustive2", "clock_exhaustive3"}
  /\ ~(16..19 \subseteq lit["conf"])

(* The statements that reach the card: those of all points of a sweep. *)
Parts(stmt) ==
  IF stmt.do = "sweep"
    THEN UNION {{stmt.writes[k][m] : m \in 1..Len(stmt.writes[k])} : k \in 0..(stmt.points - 1)}
    ELSE {stmt}
Enables(stmt) ==
  \E s \in Parts(stmt) : s.do = "any" \/ (s.do = "write" /\ s.reg = "conf" /\ 7 \in s.value)
Touches(stmt, r) ==
  \E s \in Parts(stmt) : s.do \in {"any", "zero"} \/ (s.do = "mem" /\ s.region = r)
Starts(stmt) == \E s \in Parts(stmt) : s.do \in {"any", "start"}

(* Programs that end with the DMA of the card enabled, or with what the user *)
(* writes (poke.c gives a value that enables it for an example).             *)
LeavesRunning == {"sync_finder3", "clock_exhaustive4", "cmd_write"}

(* The others, if they are heard at all, write PORT_CONF without the enable *)
(* bit after the last write that may have it.                               *)
Restores(p) ==
  p \in Deaf \/ \E n \in 0..Len(Script[p]) :
    /\ n # 0 => Pokes(Script[p][n], "conf")
    /\ \A j \in 1..Len(Script[p]) : j >= n => ~Enables(Script[p][j])

(* Programs for a card that another one has loaded. *)
NeedsProgram == {"force_sync", "force_sync_44", "smart_replay"}

(* Programs that write into the program of the DSP whether it runs or not,   *)
(* and the words of the program that each of the others leaves as they are.  *)
Pokers == {"cmd_write", "motu_test_bar0"}
Kept(p) == ProgramRegions \ (IF p \in {"force_sync_44", "clock_exhaustive4"} THEN {"rate"} ELSE {})

(* The programs that do not write the addresses of the buffer themselves.    *)
Foreign == {"replay_trace", "clock_exhaustive4"}

(* Programs that start what is in memory, whatever it is. *)
StartsAnything(p, isLoaded) == p = "cmd_write" \/ (p = "clock_exhaustive4" /\ ~isLoaded)

Writes(stmt, r, v) ==
  \/ stmt.do = "zero" /\ v = "zero"
  \/ stmt.do = "mem" /\ stmt.region = r /\ stmt.value = v

(* The last statement before n that touches region r writes v, or there is   *)
(* none and v is what the card was loaded with.  An address of the buffer    *)
(* is still the one the program asked for last.                              *)
Leaves(p, isLoaded, n, r, v) ==
  \E j \in 0..(n - 1) :
    /\ IF j = 0 THEN isLoaded /\ v = "golden" ELSE Writes(Script[p][j], r, v)
    /\ \A k \in (j + 1)..(n - 1) :
         ~Touches(Script[p][k], r) /\ (v = "dma" => Script[p][k].do # "get_dma")

(* Since the FPGA was last loaded, or from the beginning, nothing before     *)
(* statement n starts the DSP.                                               *)
HeldInReset(p, isLoaded, n) ==
  \E j \in 0..(n - 1) :
    /\ IF j = 0 THEN ~isLoaded ELSE Script[p][j].do = "fpga"
    /\ \A k \in (j + 1)..(n - 1) : ~Starts(Script[p][k])

(* The order of an upload: what must be in memory before a start, and what   *)
(* may be written after it.                                                  *)
Uploads(p, isLoaded) ==
  \A i \in 1..Len(Script[p]) :
    /\ Starts(Script[p][i]) /\ ~StartsAnything(p, isLoaded) =>
         /\ \A r \in Kept(p) : Leaves(p, isLoaded, i, r, "golden")
         /\ Script[p][i].do = "sweep" => \A r \in Kept(p) : ~Touches(Script[p][i], r)
         /\ p \notin Foreign => Script[p][i].do # "sweep" /\ \A r \in Pointers :
              \/ Leaves(p, isLoaded, i, r, "zero") \/ Leaves(p, isLoaded, i, r, "dma")
              \/ /\ Leaves(p, isLoaded, i, r, "low")
                 /\ \A k \in 1..(i - 1) : Script[p][k].do # "get_dma"
    /\ \/ p \in Pokers
       \/ HeldInReset(p, isLoaded, i) /\ Script[p][i].do # "sweep"
       \/ \A r \in Kept(p) : Touches(Script[p][i], r) =>
            Writes(Script[p][i], r, "golden") /\ Leaves(p, isLoaded, i, r, "golden")

(* Every program may find a loaded card. *)
MayFind(p) == IF p \in NeedsProgram THEN {TRUE} ELSE BOOLEAN

ASSUME ProgramsAssumption ==
  \A p \in Programs :
    /\ Len(Script[p]) \in Nat
    /\ \A i \in 1..Len(Script[p]) : Script[p][i].do = "sweep" =>
         /\ Script[p][i].points \in Nat
         /\ \A k \in 0..(Script[p][i].points - 1) : Len(Script[p][i].writes[k]) \in Nat
    /\ p \notin LeavesRunning => Restores(p)
    /\ \A isLoaded \in MayFind(p) : Uploads(p, isLoaded)

ASSUME AnnouncedAssumption ==
  \A p \in Programs : \A lit \in Announced(p) \ {<<>>} :
    Searches(p, lit) /\ (Overlaid(p, lit) \/ Tries(p, lit))

VARIABLES
  prog,     \* the program
  target,   \* the register values that light the card
  at,       \* its statement
  pt,       \* in a sweep: the point, from 0
  wr,       \* in a sweep: the writes of the point that are done
  poll,     \* in a sweep: the polls of the point that are done
  found,    \* the point reported, or -1
  key,      \* a key is waiting in the terminal
  seen,     \* the program polled while the light was on
  end,      \* "no", "returned", "looping", "failed" or "killed"
  regs,     \* the card's registers
  mem,      \* the memory of the DSP
  dsp,      \* the DSP is "reset" or "running"
  dma,      \* the address GET_DMA gave: "own", or "low" when it gave none
  loaded    \* another program had loaded the card and started it

cardVars == <<regs, mem, dsp>>
personVars == <<target, key, seen>>
sweepVars == <<pt, wr, poll>>
vars == <<prog, at, sweepVars, found, end, dma, loaded, personVars, cardVars>>

None == -1

Stmt == Script[prog][at]
At(action) == end = "no" /\ at <= Len(Script[prog]) /\ Stmt.do = action
Hears == prog \notin Deaf

ToolsInit ==
  /\ prog \in Programs
  /\ target \in Announced(prog)
  /\ at = 1 /\ pt = 0 /\ wr = 0 /\ poll = 0 /\ found = None /\ end = "no"
  /\ key = FALSE /\ seen = FALSE
  /\ regs = [r \in Registers |-> {}]
  /\ loaded \in MayFind(prog)
  /\ mem = [r \in Regions |-> IF loaded THEN "golden" ELSE "stale"]
  /\ dsp = IF loaded THEN "running" ELSE "reset"
  /\ dma = "low"

Lit == target # <<>> /\ \A r \in DOMAIN target : regs[r] = target[r]

-------------------------------------------------------------------------------
(* What motu_ioctl makes of a statement                                    *)

(* (The programs that are not heard write registers only.) *)
RegsAfter(stmt) ==
  IF Hears /\ stmt.do = "write" THEN [regs EXCEPT ![stmt.reg] = stmt.value] ELSE regs

(* Mutant: the loop ends before the pointers. *)
MemAfter_Short(stmt) ==
  CASE stmt.do = "zero" -> [r \in Regions |-> IF r \in Pointers THEN mem[r] ELSE "zero"]
    [] stmt.do = "mem" ->
         [mem EXCEPT ![stmt.region] = IF stmt.value = "dma" THEN dma ELSE stmt.value]
    [] OTHER -> mem

MemAfter(stmt) ==
  CASE stmt.do = "zero" -> [r \in Regions |-> "zero"]
    [] stmt.do = "mem" ->
         [mem EXCEPT ![stmt.region] = IF stmt.value = "dma" THEN dma ELSE stmt.value]
    [] OTHER -> mem

(* The first write of the FPGA upload resets the DSP. *)
DspAfter(stmt) ==
  CASE stmt.do \in {"fpga", "reset"} -> "reset"
    [] stmt.do = "start" -> "running"
    [] OTHER -> dsp

Card(stmt) == regs' = RegsAfter(stmt) /\ mem' = MemAfter(stmt) /\ dsp' = DspAfter(stmt)

Advance == at' = at + 1 /\ UNCHANGED <<prog, sweepVars, found, end, dma, loaded>>

(* A statement of its own: a write, or one of the parts of an upload. *)
DoCard ==
  /\ At("write") \/ At("fpga") \/ At("zero") \/ At("mem") \/ At("start")
  /\ Card(Stmt)
  /\ Advance
  /\ UNCHANGED personVars

(* What the user writes with "poke write": some values of every register and *)
(* word, and both writes of the DSP's own register.                          *)
AnyWrites ==
  {Write(r, v) : r \in Registers, v \in {{}, {0}, Bits(\hF2782)}}
    \cup {Mem(r, v) : r \in Regions, v \in {"zero", "junk"}} \cup {Reset, Start}

DoAny ==
  /\ At("any")
  /\ \E stmt \in AnyWrites : Card(stmt)
  /\ Advance
  /\ UNCHANGED personVars

-------------------------------------------------------------------------------
(* Sweeps *)

(* One ioctl of a point.  The person's hand is free between two of them.     *)
SweepWrite ==
  /\ At("sweep") /\ pt < Stmt.points /\ wr < Len(Stmt.writes[pt])
  /\ Card(Stmt.writes[pt][wr + 1])
  /\ wr' = wr + 1
  /\ UNCHANGED <<prog, at, pt, poll, found, end, dma, loaded, personVars>>

Polling == At("sweep") /\ pt < Stmt.points /\ wr = Len(Stmt.writes[pt])

Hit == \/ Stmt.watch = "key" /\ key
       \/ Stmt.watch = "lock" /\ Lit

(* Mutant: a hit leaves the program as well. *)
SweepHit_Returns ==
  /\ Polling /\ Hit
  /\ found' = pt /\ key' = FALSE
  /\ end' = "returned"
  /\ seen' = (seen \/ Lit)
  /\ UNCHANGED <<prog, at, sweepVars, dma, loaded, target, cardVars>>

(* Mutant: the point is counted before it is reported. *)
SweepHit_Next ==
  /\ Polling /\ Hit
  /\ found' = pt + 1 /\ key' = FALSE
  /\ at' = at + 1 /\ pt' = 0 /\ wr' = 0 /\ poll' = 0
  /\ seen' = (seen \/ Lit)
  /\ UNCHANGED <<prog, end, dma, loaded, target, cardVars>>

(* A poll that hits reports the point, and leaves all loops (goto done). *)
SweepHit ==
  /\ Polling /\ Hit
  /\ found' = pt /\ key' = FALSE
  /\ at' = at + 1 /\ pt' = 0 /\ wr' = 0 /\ poll' = 0
  /\ seen' = (seen \/ Lit)
  /\ UNCHANGED <<prog, end, dma, loaded, target, cardVars>>

(* One that does not is followed by a sleep, and the last by the next point. *)
SweepMiss ==
  /\ Polling /\ ~Hit
  /\ IF poll + 1 < Stmt.polls THEN poll' = poll + 1 /\ UNCHANGED <<pt, wr>>
                              ELSE poll' = 0 /\ wr' = 0 /\ pt' = pt + 1
  /\ seen' = (seen \/ Lit)
  /\ UNCHANGED <<prog, at, found, end, dma, loaded, target, key, cardVars>>

(* Mutant: the loop ends a point early. *)
SweepOver_Early ==
  /\ At("sweep") /\ wr = 0 /\ poll = 0 /\ pt >= Stmt.points - 1
  /\ at' = at + 1 /\ pt' = 0
  /\ UNCHANGED <<prog, wr, poll, found, end, dma, loaded, personVars, cardVars>>

SweepOver ==
  /\ At("sweep") /\ pt = Stmt.points
  /\ at' = at + 1 /\ pt' = 0
  /\ UNCHANGED <<prog, wr, poll, found, end, dma, loaded, personVars, cardVars>>

(* The person presses a key while the light is on. *)
Press ==
  /\ ~key /\ end = "no" /\ Lit
  /\ key' = TRUE
  /\ UNCHANGED <<prog, at, sweepVars, found, end, dma, loaded, target, seen, cardVars>>

-------------------------------------------------------------------------------
(* The rest of an upload *)

(* MOTU_IOC_GET_DMA, which gives 0 when the module has no buffer. *)
DoGetDma ==
  /\ At("get_dma")
  /\ dma' \in {"own", "low"}
  /\ at' = at + 1
  /\ UNCHANGED <<prog, sweepVars, found, end, loaded, personVars, cardVars>>

(* A number the module does not know: the program gives up. *)
DoWrongDma ==
  /\ At("wrong_dma")
  /\ end' = "failed"
  /\ UNCHANGED <<prog, at, sweepVars, found, dma, loaded, personVars, cardVars>>

(* A word of the handshake is read until it is what the trace read, or given *)
(* up after 1000 more reads: the replay goes on as if it were.               *)
DoPoll ==
  /\ At("poll")
  /\ \/ poll < Stmt.reads /\ poll' = poll + 1 /\ UNCHANGED at
     \/ poll' = 0 /\ at' = at + 1
  /\ UNCHANGED <<prog, pt, wr, found, end, dma, loaded, personVars, cardVars>>

(* The acknowledgements, for ever. *)
DoAcks ==
  /\ At("acks")
  /\ end' = "looping"
  /\ UNCHANGED <<prog, at, sweepVars, found, dma, loaded, personVars, cardVars>>

-------------------------------------------------------------------------------
Return ==
  /\ end = "no" /\ at > Len(Script[prog])
  /\ end' = "returned"
  /\ UNCHANGED <<prog, at, sweepVars, found, dma, loaded, personVars, cardVars>>

(* Ctrl-C: no program catches it. *)
Kill ==
  /\ end \in {"no", "looping"}
  /\ end' = "killed"
  /\ UNCHANGED <<prog, at, sweepVars, found, dma, loaded, personVars, cardVars>>

Ended == end \in {"returned", "failed", "killed"} /\ UNCHANGED vars

SweepStep == SweepWrite \/ SweepHit \/ SweepMiss \/ SweepOver
UploadStep == DoCard \/ DoAny \/ DoGetDma \/ DoWrongDma \/ DoPoll \/ DoAcks
Person == Press \/ Kill

ToolsNext == SweepStep \/ UploadStep \/ Return \/ Person \/ Ended

ToolsSpec == ToolsInit /\ [][ToolsNext]_vars

-------------------------------------------------------------------------------
(* Properties                                                              *)

TheSweep ==
  CHOOSE s \in {Script[prog][i] : i \in 1..Len(Script[prog])} : s.do = "sweep"

(* What a sweep reports is, register by register, what lit the card or what  *)
(* followed it there: a key pressed in the last sleep of a point is reported *)
(* as the next point's, and one pressed between two writes of a point may be *)
(* for the new value of one register with the old one of another.            *)
(* (clock_exhaustive2: the pair reported may then be neither.)               *)
(* exhaustive4, which reads the ports itself, reports the very values.       *)
ReportIsNear ==
  found # None => \A r \in DOMAIN target :
    \/ TheSweep.tries[found][r] = target[r]
    \/ TheSweep.watch = "key" /\ Old(TheSweep, found, r) = target[r]

(* A sweep that returns without a report has polled while the light was on, *)
(* if what it was looking for is among the values it announces, apart from   *)
(* those that the bits already set hide.  (Only a key pressed after its last *)
(* poll is lost then.)                                                      *)
NothingSkipped ==
  end = "returned" /\ found = None /\ target # <<>> /\ ~Overlaid(prog, target) => seen

(* Every program but those named that returns, with a report or without, has *)
(* the DMA enable bit clear, although nearly every value it tries has it set. *)
(* (poke_test restores nothing: its writes never arrive)                     *)
EngineOffAtEnd == end = "returned" /\ prog \notin LeavesRunning => 7 \notin regs["conf"]

(* The step starts the DSP. *)
Starting ==
  \/ At("start") /\ at' # at
  \/ At("sweep") /\ wr' > wr /\ Stmt.writes[pt][wr'].do = "start"

(* The DSP is started only on the complete program, apart from word 0 and    *)
(* the rate the program has set, with pointers that are zero or those of     *)
(* this run's buffer, except for replay_trace with those of the original     *)
(* driver and exhaustive4 with those it finds; exhaustive4 and "poke write"  *)
(* start what is there.  And no program but the two that poke single words   *)
(* changes another word of a program in execution.                           *)
ProgramAtStart ==
  [][/\ Starting /\ ~StartsAnything(prog, loaded) =>
          /\ \A r \in Kept(prog) : mem[r] = "golden"
          /\ prog \notin Foreign => \A r \in Pointers : mem[r] \in {"zero", dma}
     /\ dsp = "running" /\ prog \notin Pokers =>
          \A r \in Kept(prog) : mem'[r] = mem[r]]_vars
===============================================================================
