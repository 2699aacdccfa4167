# A specification of the MOTU PCI-424 driver

TLA+ models of the driver in `source/`, checked with TLC, and theorems about
them, proved with TLAPS. Paths are relative to the root of the repository; line
numbers are those of the commit the `map` in `PROJECT.json` refers to.

Contents: [the system](#1-the-system), [the modules](#2-the-modules-and-the-code),
[the runs](#3-the-runs), [the proofs](#4-the-proofs), [the findings](#5-the-findings),
[what is outside](#6-what-is-assumed-and-what-is-not-modelled),
[the plan](#7-plan), [how to run it](#8-running-it).

## 1. The system

The PCI-424 is an audio card with an FPGA, a DSP and a DMA engine. The driver
has shared code that knows the card, a small platform interface (`pal_*`), and
two frontends: ALSA under Linux, WDF under Windows.

| component | code | state it keeps | operations |
|---|---|---|---|
| PCM callbacks and interrupt handler | `source/linux/motu424_alsa.c` 40-339 | `ctx.port_conf_shadow`, `ctx.dma_running`, `ctx.start_time_ns`, `playback_substream`, `capture_substream`; in the card PORT_CONF and INT_STATUS | open, close, prepare and trigger of each substream, pointer, ack, the handler |
| card bring-up | `source/shared/motu424_init.c` | `ctx.port_conf_shadow`; the memory and the registers of the card; the DSP | zero the memory, replay the sequence with translated addresses, kick-start, port loop, `motu424_hw_init`, `motu424_hw_stop` |
| DMA buffer | `source/shared/motu424_dma.c` | `ctx.dma_buf`, `ctx.dma_addr`; the descriptor in DSP memory | allocate and describe, free |
| FPGA loading | `source/shared/motu424_fpga.c` | the position in the image and `val_prev`; the data and clock lines | three register writes for each bit |
| probe, remove and free | `source/linux/motu424_alsa.c` 368-548 | every field of `struct motu424_linux` that is released | probe, remove, free |
| Linux platform layer | `source/linux/motu424_linux_pal.c` | `irq_handler`, `irq_ctx` of the device | request and free the interrupt, lock, DMA memory |
| WDF frontend | `source/windows/motu424_wdf.c` | `DEVICE_CONTEXT` | add, prepare, release, cleanup, requests, service routine |
| Windows platform layer | `source/windows/motu424_win_pal.c` | DMA enabler, interrupt object, `irq_handler` | the same as the Linux one |
| Windows test program | `source/windows/motu424_test.c` | the number of failures | twelve tests, each a request or two |
| prototype drivers | `source/tools/drivers/*.c` | what each probe acquired; the prototype's timer, shadow buffer, `dma_running` | probe, error paths, remove; PCM callbacks, timer, handler |
| clock, register and replay tools | `source/tools/clock_sync`, `poke`, `replay` | their loop counters; the registers and the memory of the card | sweeps over register values, uploads, replays of a trace, single reads and writes |
| golden sequences | `source/tools/golden/*.c` | none: about 13 500 recorded writes | sent by the tools, and the source of the init sequence |

The rest (trace analysis, the converter that produced the sequence, firmware images) is
listed in `PROJECT.json` with the reason why it is not modelled.

**How they interact.** A frontend maps the three BARs, allocates the DMA buffer,
loads two firmware files (an FPGA bitstream and the init sequence), and calls
`motu424_full_init`, which loads the FPGA, zeroes the DSP's memory, replays the
sequence and starts the DSP. Then it requests the interrupt and, under Linux,
registers the card with ALSA. From then on there are the callbacks of two
substreams, called by threads of clients; the interrupt handler, on any CPU and
also for other devices that share the line; and the card itself. The callbacks
exclude each other with `ctx.lock`; the handler and `pointer` take no lock of
the driver. `remove` races with clients and with the handler. The tools work on the
same card without the driver: `motu_poke_driver.c` maps the BARs, and a program in user
space reads and writes them through one ioctl.

**What is hard in it.**

* Both substreams share one register (PORT_CONF), one shadow of it and one
  `dma_running`, and each callback is a read-modify-write of them.
* The handler reads the substream pointers without a lock; through
  `snd_pcm_period_elapsed` it may call `trigger`, so it takes the stream lock and
  `ctx.lock` while clients do the same.
* The DSP may run while its memory is zeroed and loaded (a warm boot, and the
  sequence itself starts it before its last entries).
* Most calls of the Linux probe can fail; nine of the failures end it, and one release
  function must undo whatever part was done, in an order the handler on another
  CPU survives.
* `pointer` reads two fields of the shared context while another call writes them, counts
  with a product that wraps at 64 bits, and `ack` copies between buffers whose frames
  have different sizes.
* WDF preparation continues without a buffer, without firmware and without an
  interrupt, may be repeated, and may be torn down from any point; the device sleeps
  between the requests of a client.
* The prototype's timer takes the stream lock that the stop waiting for it holds, and
  arms itself again after a stop.
* The tools upload a program in parts that lie in three files, and search for a value by
  loops whose bounds, polls and sleeps decide what is found.

**What makes each component correct.** PCM: a running substream has the engine
on, in its direction, and nothing moves when none runs; the shadow can be
written back safely; no period is lost; nobody waits for ever. Bring-up: the DSP
starts on exactly the image of the sequence, no address of another machine
reaches it, a refused sequence starts nothing, and the bring-up ends although
the card may not answer. FPGA: each bit arrives once and in order, with the data
steady at the clock edges. Probe and WDF: what is used is mapped, everything is
released exactly once, and the engine is stopped before its memory is freed. Position:
in the buffer, and the number of frames played. The test suite: what it reports is so.
Prototype: release lists fit what was acquired, and a stop is complete. Tools: a sweep
reports what it found and passes over nothing, the card is not left with its DMA enabled, and
the DSP starts on a complete program.

The hazards at their lines, each with the properties that would catch it or a
note on why none does, are in `PROJECT.json` under `hazards`.

## 2. The modules and the code

```
PortConf <- Motu424Pcm <- Motu424PcmEngine (refines AudioEngine) <- Motu424PcmProofs
                       <- Motu424Position <- MCMotu424Position
            Motu424Position, Motu424PcmProofs <- Motu424PositionProofs
            Motu424Pcm <- MCMotu424Pcm
            Motu424Fpga (refines ShiftRegister) <- MCMotu424Fpga, Motu424FpgaProofs
Motu424Translate <- Motu424Init  <- MCMotu424Init, Motu424InitProofs
            Motu424Probe         <- MCMotu424Probe, Motu424ProbeProofs
            Motu424Wdf <- Motu424Test <- MCMotu424Wdf, Motu424WdfProofs
Motu424Drivers, PortConf <- Motu424Prototype <- MCMotu424Prototype, Motu424PrototypeProofs
Motu424Golden <- Motu424Programs <- Motu424Tools <- MCMotu424Tools, Motu424ToolsProofs
```

**PortConf.** The register as the set of its named flags that are 1
(`motu424_hw.h`, `MOTU_PORT_CONF_*`) and the values `trigger` computes. Bits that
have no name are never changed by the driver and are left out.

**Motu424Pcm.** `playback_prepare`, `capture_prepare` and `trigger` are `Callback(p)`:
`Lock`, `Read` (only a trigger reads the register, pauses take the shadow),
`Write`, `Store` (the fields of `ctx`, and the unlock) and `Return`. Every access
another process can see is a step. A process is a client of a substream or the
handler, which is a process of its own because it calls `trigger` for a
substream it stops. `IrqRead`, `IrqAck`, `IrqCheck`, `IrqCall` and `IrqElapsed` are
the handler in code order. `Open`, `Close`, `CallPrepare`, `CallTrigger`,
`SuspendPaused` and the second half of the handler's call are the ALSA core, and
`PeriodElapses` is the card: both external. `owed` is a history variable: the
running substreams that have not been told of a period.

**Motu424Position.** Motu424Pcm composed with the two callbacks that carry data and a
clock. `pointer` is four steps, one for each place it reads a shared field (`PointerEnter`
reads the counter of the card, `PointerRunning` and `PointerAgain` read `dma_running`,
`PointerTime` reads `start_time_ns`), by a client or by the handler within
`snd_pcm_period_elapsed`. `ack` is a step for each round of its loop. Time counts frames;
`Wrap` is the number after which `elapsed_ns * rate` passes 2^64. `played` is a
history variable: the frames the engine moved since START.

**AudioEngine** and **Motu424PcmEngine.** What the callbacks promise one client:
every operation takes effect on the engine once, between call and return, and the
engine changes at no other time. The refinement maps PORT_CONF to what the engine
does, and the write of PORT_CONF to the effect.

**Motu424Fpga** and **ShiftRegister.** `motu424_load_fpga` with one action per
register write that moves a line; the FPGA shifts a bit in at each rising clock
edge. `i`, `bit` and `valPrev` are the locals of the code. The abstract module is
a register that takes the stream bit by bit; its safety part has a name of its own, so
that a theorem can state it.

**Motu424Translate.** `motu424_translate_dma` on the two halves of a 32-bit word,
with the wrap-around of its additions, and `Relocated`, the reference it is compared with:
the base of the buffer plus the offset the address had in its own buffer.

**Motu424Init.** `motu424_dma_alloc` and `motu424_full_init`. One thread, whose program
counter names the phase; each BAR0 word written, each entry replayed and each read of a poll
is a step, so the DSP (`DspWrites`), if it runs, gets in between. `Addr` is the
set of words that are looked at; the zeroing goes through them upwards, as the loop of
`motu424_zero_dsp_ram` does. `motu424_hw_init`, the last call, zeroes again
(`rezero`). The sequence is a constant; `seq` says whether a file was found and
whether its size is right, and `frontend` whose bring-up it is: without a buffer ALSA gives
up and WDF goes on.

**Motu424Probe.** `motu424_probe`, `motu424_remove` and `motu424_free` by one thread;
each call that can fail is an action with both outcomes, and all the failures go
to `f_mask`, the start of `motu424_free`, as `err_card` does. `held` is the set of
fields that are not NULL. `IrqEnter`, `IrqTest`, `IrqCall` and `IrqLeave` are
`pal_linux_irq` and the handler it calls. In `FreeIrq` the handler is taken off the
line, and `SyncIrq` waits for the CPUs in it, as `free_irq` does. A NULL
dereference ends the behaviour in `panic`. The calls of the platform layer that a probe
needs are operators with their names (`pal_pci_enable`, `pal_iomap`, ...).

**Motu424Wdf.** `DriverEntry` and the callbacks of the framework, in the order the framework
makes them; each request has an operator of its own, the four that only read among them, for
they decide whether a NULL mapping is read; START and STOP are two steps, because they read PORT_CONF and then
write it; the service routine is three, because it tests `iobase_reg` before it
reads through it. A use of a NULL mapping ends in `bugcheck`.

**Motu424Test.** Motu424Wdf composed with `test_suite`: its requests in order, what each
test counts as a failure, other clients, and a device that sleeps, is released or was never
found. Whether `\\.\MOTU424` leads to the device is chosen at the start, for neither the
driver nor its INF file gives it that name.

**Motu424Drivers.** The three kernel modules of `source/tools/drivers` by their lists: what
the probe acquires, what each failure gives back, what remove gives back, and which failures
nobody looks at. `Acquire`, `Overlook`, `Fail` and `Release` walk through them; `LoadFpga` and
`OpenSkeleton` are the two calls on a bound card that keep what they were given.

**Motu424Prototype.** The prototype driver at run time, with `Motu424Drivers` for its life:
trigger (`Act`, `Sync`, `Return`) by the client, the timer's callback and the handler;
`timer_delete_sync` as a wait; the callback that arms its timer again; the shadow buffer of
hw_params and hw_free. What reads freed memory ends in `panic`.

**Motu424Golden** and **Motu424Programs.** The generated files by region (a run of words
another file treats in the same way), and every program of `clock_sync`, `poke` and
`replay` as a script: writes, sweeps, uploads. A register value is the set of its
bits, computed as the program computes it. `golden_dsp.c` and the others are included by the
programs in the order the scripts concatenate them. The trace the replay tools play is not in
the repository: their scripts are the golden files made from it, with the addresses of the
original driver where those have the buffer's.

**Motu424Tools.** The interpreter of a script: the points of a sweep with their ioctls, polls
and sleeps, the key somebody presses while the light is on, and Ctrl-C. Each ioctl of a point
is a step (`SweepWrite`), and the key may be pressed between two of them: that is when the
card holds a new rate with the old value of another register. `target` is what lights the card.
`clock_exhaustive4` writes the DSP's word of the rate at each point and, with the ports of
BAR2, resets and starts the DSP. `poke write` takes any write (`AnyWrites`: every register,
every region of the memory, reset and start). Whether another program has loaded the card
before is chosen at the start (`loaded`), except for the programs that are made for a card in
use. `cmd_fpga` of `poke.c` is modelled as its text says, though its includes call `write_reg`
with an argument more than it takes.

Definitions whose name has an underscore and a comment "Mutant:" are faults: each
replaces the definition it stands before, to show that a property can fail. No
specification uses them.

## 3. The runs

Every configuration explores its state space completely, or stops at the
counterexample it is there to show.

| run | distinct states | question |
|---|---|---|
| `pcm_playback` | 843 457 | One substream, every operation, the clock, pointer and ack. The engine follows the client (`EngineFollowsClient`), is silent when it should be (`IdleIsSilent`), a pause writes nothing stale back (`PauseWritesFresh`), positions are in the buffer (`PositionInBuffer`) and count what was played (`PositionCountsPlayed`), ack stays in the card's buffer (`AckFits`), and the callbacks implement `AudioEngine` (`ImplementsEngine`). |
| `pcm_duplex` | 680 298 | Both substreams, and a card a crash left running. What `dma_running` says is true outside a callback (`CtxAgreesWithCard`), and a period is never lost (`NoPeriodLost`). |
| `pcm_live` | 36 342 | Both substreams. Every call returns (`CallsReturn`) and every period is told (`PeriodsAreTold`). |
| `pcm_duplex_engine` | violation | With both substreams, preparing playback clears PORT_CONF under a running capture. |
| `frames` | violation | With the largest buffer ALSA may give, ack leaves the card's buffer. |
| `fpga` | 9 830 | All images of one byte, none, and one of three bytes. `ShiftedIsPrefix`, `LoadedIsComplete`, `DataStableAtEdges`, and the implementation of `ShiftRegister`, with its termination. |
| `init` | 22 284 | Either frontend, stale or Windows words in the memory, each firmware found, missing or malformed, DSP running or not. `ImageAtStart`, `NoForeignAddress`, `RefusedNeverStarts`, `Terminates`. |
| `init_memory` | violation | The memory at the end of a successful bring-up holds nothing. |
| `probe` | 6 489 | Every failure of the probe, handler and client at any moment, two probes. `HandlerSafe`, `LeavesNothing`, `StopsBeforeFree`, `UnmaskedIsHandled`, `RemoveEnds`. |
| `wdf` | 1 645 450 | Two preparations, each failing or succeeding anywhere, with sleep, requests, interrupts, the test suite and other clients. `MappedWhileUsed`, `ReleaseComplete`, `StopsBeforeFree`, `SuiteTellsTruth`. |
| `prototype` | 20 406 | The three modules through every failure, and the prototype with timer, handler and client. `ReleasesFit`, `CallbacksSafe`, `StopIsComplete`, `ShadowFits`, `CallsReturnOrDeadlock`. |
| `tools` | 1 606 951 | Every program, on a loaded and an unloaded card, for every value of `MCMotu424Tools` it may look for. `ReportIsNear`, `NothingSkipped`, `EngineOffAtEnd`, `ProgramAtStart`. |

**Bounds, and why they are enough.**

* Motu424Pcm needs none: two substreams, the five flags and the locations of three
  processes are finite. `pcm_duplex` takes boot values with the flags of the engine
  set and clear; the other two flags nobody reads. `pcm_playback` leaves out boots with
  a running engine, for `IdleIsSilent` would fail until the first prepare (nothing in
  the driver writes PORT_CONF before). `pcm_live` leaves out pauses and suspends: they are
  the same steps with the same locks as START and STOP, and the temporal check is
  the costly one. Substreams are not symmetric, so no symmetry is used.
* Position: four ticks with a product that wraps after three, in a buffer of two frames:
  the position passes the end of the buffer, and the product wraps, in one run. The counter
  reads as invalid, as a frame of the buffer, as its end and as out of it. The
  frames of the card have 4 words and its buffer 8, so the last frame ends at its end;
  `frames.cfg` has 4 words, twice the ALSA frame for each frame of the buffer. The theorems
  are for every size.
* FPGA: the loops have no state beyond the position and the previous bit, so all
  bytes cover every adjacent pair of bits and three bytes cover the step from one
  byte to the next and the last one. The theorems are for every image.
* Init: `SmallSequence` has one entry of each kind the translation and the replay
  tell apart, in the order of the shipped sequence (program, addresses, start,
  patches, one word written twice), and kinds the shipped one lacks: a poll, a
  BAR1 entry, an unknown BAR. Three reads per poll stand for 1000: the count matters only
  in that it ends. `PortIters = 16` with a check every 8 gives two rounds of status
  checks instead of four. The theorems are for every sequence, memory and limit.
* Probe and Wdf: two rounds show what the first leaves to the second;
  the theorems are for any number.
* Prototype: two sizes of a buffer, for a larger and a smaller one is all hw_params tells
  apart; everything else is finite.
* Tools: the scripts have the bounds of the programs. What lights the card is taken from what
  the comments and messages of a program announce, not from its loops: all values where it goes
  over bits, and the first, second, middle and last where it counts; for the counts "from bit
  16 on" also some with bits 16 to 19 clear, which the base of three sweeps hides (`Overlaid`),
  and "nothing". For the banks it may also be the rate
  and a single bank. The theorems are for whatever lights the card.

**Fairness, and why the code justifies it.** A callback and the handler run to
completion once entered; a wait for a spinlock ends although others keep taking
it, because the kernel's spinlocks are queued. Hence strong fairness for
`Callback(p)` and `IrqHandler`, which for steps that do not wait is weak fairness.
No client has to call anything, and the card does not have to count periods. The
thread of the bring-up and of the FPGA loading is weakly fair, the DSP is not. In
`Motu424Probe` the threads of probe and free, and a handler that was entered, are
weakly fair, and a client whose card is gone stops and closes, for
`snd_card_free` waits until it does. In `Motu424Prototype` the calls, the timer's callback and
the handler are strongly fair for the same reason, and only they: the client need not call and
the timer need not fire. `Motu424Wdf`, `Motu424Position` and `Motu424Tools` have no liveness
property.

**Deadlock** is checked in every run but `prototype`; the modules whose system really ends
(`Finished`, `Ended`, `gone`) say so with a step of their own. The prototype really
deadlocks, and its dead ends are what `CallsReturnOrDeadlock` is about.

## 4. The proofs

Assumptions are those the modules make on their constants, and TLC evaluates them in
every run. Where a theorem assumes more, it says so in its statement.

**Motu424PcmProofs.** `TypeCorrect`; `CtxAgreement` and `NoLostPeriods`, for any
substreams, operations and boot values; `Silence` (`IdleIsSilent`), for any substreams and a
card whose engine was off at boot; `SoloEngine` and `SoloPause`, for one substream on such a
card (with two they are false, see finding 1). Types first (`TypeInv`). Then
mutual exclusion: a process between `Lock` and `Store` holds `ctx.lock`, which
gives `CtxAgreesWithCard` outside the lock once one knows what it is inside it
(between a write and its store the register is the local value). `NoPeriodLost` needs the place
of the handler: it acknowledges before it looks, so a period
that elapses later sets the bit again. `Silence` is not inductive: its invariant says that an
engine that is on has somebody who drives it, a START or a release that has written and not
returned, or a running substream of which no stop has written. Any stop turns the
engine off, whoever started it, so the number of substreams does not matter. The solo theorems add what each state of
the substream says of the register, at every location of a call, and that the
shadow is fresh in the states a pause or its release is legal in.

`EngineRefinement` states `ImplementsEngine`, for one substream and a card whose RUN was clear:
the initial states map to initial states of `AudioEngine` and each step to one of its steps
or to a stutter. An operation begins where the callback is entered, takes effect in `Write`
and ends in `Return`; the step lemmas go through the handler as a caller of trigger too.

**Motu424PositionProofs.** `PositionTypes` and `PositionStaysInBuffer`, for any substreams,
counters, wrap and buffer sizes. The second needs only that each answer is
0, a counter below `buffer_size` or a remainder by it, whichever values the unlocked reads
pair. `AckFits` is not proved: it is true of the sizes of `pcm_playback` and false of others
the code allows (finding 3). `PositionIsPlayed` (`PositionCountsPlayed`) is for one substream: from
the moment START takes the time the engine is on, so `played` is the time since then until a
call that stops the engine has written, or a pause has been; and with one substream whoever is
in `pointer` finds nobody in a call, so its unlocked reads belong together.

Motu424Position is a composition whose steps are steps of Motu424Pcm, the steps of `pointer`
and `ack`, and the clock. `ComposedFrontend`, `ComposedSilence`, `ComposedEngine` and
`ComposedRefinement` carry everything proved of Motu424Pcm over to it: each step of the
composition is a step of the frontend or leaves it alone.

**Motu424FpgaProofs.** `LoaderTypes`, `EveryBitOnce`, `WholeImage` and `SetupAndHold`, for
images of any length. The invariant says where the loops stand at each write and what is on the
lines there: the clock is low before each pulse, and the data line already has the bit.
`LoadsLikeRegister`: loading implements the safety part of `ShiftRegister`, in which the stream
of an image is a sequence known in advance; the lemma that relates it to `StreamBit`
is where the order of the bits in a byte counts.

**Motu424InitProofs.** `TypeCorrect`; `NothingForeign`; `ImageLoaded`;
`RefusedStaysStopped`; for every sequence, memory, address and limit.
`ImageLoaded` assumes that the buffer is aligned to 64 KB: then the masks of
`motu424_translate_dma` are the addition they stand for, which is a lemma on halves of
words. The invariant is the property at every place: the words passed are 0 while
zeroing, each own word holds what the last of the `n` replayed entries says while
replaying. `NothingForeign` is for both frontends; it assumes a buffer
whose 4 MB lie where no Windows buffer did, and a DSP that writes no Windows address of
its own accord.

**Motu424ProbeProofs.** `TypeCorrect`, `HandlerIsSafe`, `NothingLeft`, `StopsFirst`,
`MaskFollowsHandler`, for any number of probes. The properties are not inductive:
the invariant says, point by point, what the probe has acquired and what free has given
back, that the handler is on the line only while the registers are mapped, and
that engine and mask are off from the moment free has written them.

**Motu424WdfProofs.** `TypeCorrect`, `UsedStayMapped`, `NothingLeft`, `StopsFirst`, for
either kind of BAR2 and any number of preparations, along the same lines: requests and the
service routine exist only in D0, and D0 comes only after the check of BAR0 and
BAR1. `DriverUnderTest`: every step of the suite and of the other clients is
one `Motu424Wdf` allows, so what is proved of the driver holds under them. It needs the
driver's own invariant: a query of the suite is a request that only reads because BAR0 and
BAR1 are mapped wherever requests are served. `SuiteIsRight`
(`SuiteTellsTruth`): between the suite's STOP and its last test only another client's START or
write can set `dma_running` or the engine, through sleep, release and a new preparation. The
invariant follows what the suite knows from the moment its STOP is done.

**Motu424PrototypeProofs.** `PrototypeTypes`; `ListsFit` (`ReleasesFit`), for the three kernel
modules; `HandlersSafe` (`CallbacksSafe`), `StopEndsTimer` (`StopIsComplete`) and `ShadowHolds`
(`ShadowFits`), for buffers of any sizes. The invariant `PrototypeInv` was checked with TLC
first, on the instance of `prototype`. Its parts: `DriverInv`, that `todo` is the rest of the
acquiring list and what is held the part before it, and that a release list has nothing
twice, nothing that is not held or tested for, and the interrupt before what its handler reads;
`CallInv`, who is in trigger holds the stream lock, in a state the core may call it in;
`CardInv`, an open substream keeps the card; `StopInv`, the timer and the engine go on only in a
running substream, a START that has not returned, or after a refused suspend; `ShadowInv`, the
size that hw_params compares with is that of the buffer it has. The proofs walk
through the lists with lemmas on `Head`, `Tail` and the elements of a sequence.

**Motu424ToolsProofs.** `EngineIsOff` (`EngineOffAtEnd`), `ReportsAreNear` (`ReportIsNear`),
`NothingIsSkipped` (`NothingSkipped`) and `StartsComplete` (`ProgramAtStart`): for whatever may
light the card, whenever the key is pressed, between two ioctls too, and whenever a program is
killed. What the scripts must be for that is a pair of assumptions on the constants, decided by
looking at a script and not at its executions, and TLC evaluates both in `tools` for every
program. `ProgramsAssumption`: the last write that may set the enable bit is followed by one
that clears it; before a start, in a sweep too, the last write of each region of the
program is the golden one, or the card was loaded with it; what follows a start touches the
program only with what it holds. `AnnouncedAssumption`: what a program looks for is written,
register by register, by the points of its one sweep, and is one of its points. The programs
for which one of these is false are named there, in `LeavesRunning`, `Pokers`, `Foreign`,
`StartsAnything` and `Overlaid`, and the properties except them by the same names.

The theorems say that the loops keep the promise. Four invariants: `WalkInv`, a point, a write
or a poll is under way only in the loop that counts it; `ClearInv`, past such a clearing write
the bit is clear; `SearchInv`, in three parts, that it is dark before the sweep, that during it
each register holds the value of this point or of the last, according to the writes
done (`Held`), a key that waits was pressed for such values, and no good point has gone by
unseen, and that afterwards the report is near a good one; `LoadInv`, that memory, DSP and
address are what the statements passed have made of them, but for what a sweep under way has
changed. All four were checked with TLC on programs of `tools` before they were proved.

**Only model-checked.** Liveness
(`CallsReturn`, `PeriodsAreTold`, `Terminates`, `RemoveEnds`, `CallsReturnOrDeadlock`, and the
fairness in `ImplementsRegister`): the prover has no ENABLED and no
fairness rules. What a recursive function or a
fold computes for every input cannot be proved, for induction needs theorems with
operator parameters; the models avoid recursion for that reason. Modules with theorems
use no RECURSIVE operator.

## 5. The findings

1. **One register for two substreams** (`pcm_duplex_engine`). Preparing playback clears
   PORT_CONF and `dma_running` under a running capture: that is the trace. The triggers write
   the same register and flag for either substream, so that one substream's start changes the
   direction and its stop turns the engine off under the other; the run stops before
   it comes to these.
2. **The bring-up erases what it loaded** (`init_memory`). `motu424_hw_init` zeroes
   64K words after the program was loaded and started; the descriptor written by
   `motu424_dma_alloc` is lost in the first zeroing; and on a warm boot the program
   that is relied on goes too.
3. **Ack leaves the card's buffer** (`frames`). `motu424_pcm_hw` bounds the ALSA buffer by the
   4 MB of the card's, whose frames have 98 words where ALSA's have two.

Seen while modelling, without a run of their own. In the driver:

* `close` clears the pointer of a substream while the handler may stand between its test of
  it and its call of the core (`motu424_alsa.c:63-66`).
* After a failed `pci_enable_device` or `pci_request_regions`, `motu424_free` disables the
  device and releases regions it never got (`motu424_alsa.c:405-410`).
* A position computed from the time counts a pause as played (`motu424_alsa.c:219`).
* The counter of the card is said to be a byte offset (`okf/registers/dma_registers.md:27`) into
  frames of 392 bytes, and `pointer` divides it by the 8 bytes of an ALSA frame.
* A DMA buffer that is not 64 KB aligned would break the `0xBFD7xxxx` translation
  (`motu424_init.c:54`), which the page allocator of Linux excludes.
* An interrupt of another device between `request_irq` and the store of `irq_ctx` calls the
  handler with NULL (`motu424_linux_pal.c:121-122`, `panic` in Motu424Probe);
  `pal_linux_irq` claims every interrupt of a shared line.
* A card on which only capture is ever prepared has never had DMA_SIZE programmed.
* Under Windows: BAR2 as a port is not checked for, and the initialisation uses the NULL mapping
  (`motu424_wdf.c:365`); without a buffer the addresses of the original driver are replayed
  (line 385), and START does not look for one (line 547) although "we can still do PIO"
  (line 272); after a sleep the card has lost DMA_BASE and INT_MASK while `dma_running` stays;
  the DMA enabler is "for 32-bit bus-master DMA" (line 263) with a profile of 64 bits.

In the tools and the tests:

* Nothing gives the device the name the test program opens (`motu424_test.c:57`), and its
  last test passes when the request fails (line 387).
* The prototype: trigger deadlocks with its timer (`motu_pci_alsa.c:217`), always when the
  callback stops the substream itself; remove goes on through freed memory (line 460); a suspend is refused, and the
  core goes on with the engine and the timer as they are; a NULL mapping is used. `motu_poke_driver.c`
  forgets everything when `misc_register` fails (line 110), releases regions it was
  refused, and reads a buffer it does not have (line 46).
* A key pressed in the last sleep of a point is reported with the next value, and after the
  last poll not at all.
* `motu_clock_exhaustive2.c:68` sets a new rate under the old value of 0x00, a pair the sweep
  is to try later. A key pressed before line 74 is reported as the new pair ("SUCCESS!", line
  78), which is neither the pair that lit the card nor the one tried after it.
  `motu_clock_exhaustive3.c`, `motu_clock_sync.c:54-62` and `motu_clock_exhaustive_banks.c:71-84`
  have the same window, a printf and a flush long. TLC finds it in all four when
  `ReportIsNear` is asked for a point instead of a value for each register.
* `clock_exhaustive` announces "512 combinations" of bits 16 to 24 and tries 32 different
  values, for its base has bits 16 to 19 set already (`motu_clock_exhaustive.c:49-54`):
  `NothingSkipped` fails for the rest, which `Overlaid` excepts.
* "Reset and Start all ports" (`motu_clock_exhaustive4.c:55`) writes 1 and 2 to BAR2 0x4 too,
  which resets and starts the DSP, at each point of the sweep and whether a program was loaded
  or not.
* `sync_finder3` and `clock_exhaustive4` leave the DMA of the card enabled, and so does Ctrl-C
  in any program, and the example of `poke.c:16`.
* `golden_dsp_patch.c:6347` sets word 0 of the program to zero: where `golden_sequence.c:6350`
  writes the port of BAR2, the patch writes BAR0.
* `poke_test`, `poke_test2` and `poke_test4` have an ioctl structure of another size: every
  request fails and none is looked at. The program of `poke_fpga.c` asks for the buffer
  with a number the module does not know. `smart_replay.c` makes the
  number from an array (line 20), so its request fails unseen (line 48) and every address it
  translates becomes zero, while `okf/tools/replay/replay_tools.md:30` says that it
  "Allocates a DMA buffer"; it also begins after the kernel, so it relies on an earlier upload.
  `replay_trace.c` sends the original driver's addresses as they are. `poke.c` includes golden files whose `write_reg` has four arguments, while its
  own has three.
* `convert_golden.py` drops the six writes whose value is `dma_addr`, not a number.

## 6. What is assumed, and what is not modelled

**Outside the repository**, modelled from how the driver uses it and marked
external in the map: the ALSA core (which callback in which state, the stream
lock around trigger, `snd_pcm_period_elapsed`, `snd_card_free` waiting for open
files); `free_irq`, which waits for handlers in progress; `pci_dev_is_added`, false
during the scan of the bus; the framework of Windows, which calls
EvtDeviceReleaseHardware also after a failed preparation, and leaves D0 only when the
power-managed queue has no request in hand and the service routine is
disconnected; the card, which sets PERIOD_ELAPSED while DMA_EN and RUN are set, clears
a status bit that is written back, and shifts at rising clock edges. That a
driver is bound again only to a device the bus knows is an assumption of `Rebind`.

**Abstracted.** Audio frames and their conversion; timestamps; delays; logging;
the words of DSP memory nobody tells apart; register bits without a name. What the
DSP computes is any write to its own words.

**Not modelled.** Of the driver: the contents of the buffers (`ack` is modelled by the words it
touches, not by the samples), the reading of firmware files beyond success and failure, the
unused `pal_firmware_load`. Of the prototype: its `pointer` and `load_fpga`; of the skeleton: the
PCM operations, which are empty. The converter (one pass over text, no state), trace analysis (offline scripts), and
firmware images (data: arbitrary inputs of the models). Probe and PCM are modelled side by side
and not composed: what crosses is the handler, which each has, and the clients, which in
`Motu424Probe` only start, stop and close.

## 7. Plan

Done: Motu424Pcm with AudioEngine, Motu424Position; Motu424Fpga with ShiftRegister;
Motu424Init for both frontends; Motu424Probe; Motu424Wdf with Motu424Test; Motu424Drivers and
Motu424Prototype; Motu424Golden, Motu424Programs and Motu424Tools. Proved: every safety
property a passing run checks, but `AckFits`, and both refinements.

Next:

1. **Composition**: Motu424Probe with Motu424Pcm: clients that prepare and trigger while
   the card is disconnected, with the real handler in place of `IrqEnter` ... `IrqLeave`.

## 8. Running it

```
tlc -workers 2 -config pcm_playback.cfg MCMotu424Position
tlapm Motu424PcmProofs.tla
```

`PROJECT.json` lists the module and the configuration of each run, the fault that
breaks each property, and the lines of the code each definition stands for.
