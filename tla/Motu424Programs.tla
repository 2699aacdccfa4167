---------------------------- MODULE Motu424Programs ----------------------------
(***************************************************************************)
(* The programs of source/tools that write registers through               *)
(* /dev/motu_poke, as scripts for Motu424Tools: the sweeps that look for   *)
(* the value that makes the card synchronise, and the programs that load   *)
(* the FPGA and the DSP.                                                   *)
(*                                                                         *)
(* A register value is the set of its bits.  The registers are those of    *)
(* BAR1 ("conf" is 0x00, "rate" 0x20, "bank84" 0x84) and the ports of BAR2 *)
(* ("port8" is 0x8).  The one at BAR2 0x4 is the DSP's reset and start.    *)
(* BAR0 is memory, see Motu424Golden.                                      *)
(***************************************************************************)
EXTENDS Motu424Golden, Integers

Bits(n) == {b \in 0..30 : (n \div 2^b) % 2 = 1}
Toggle(V, b) == (V \ {b}) \cup ({b} \ V)
Shift(n, by) == {b + by : b \in Bits(n)}

Write(reg, value) == [do |-> "write", reg |-> reg, value |-> value]

(* A loop over points: the writes of a point, one after the other, then     *)
(* polls of "key" (kbhit), of "lock" (a port reads 0x13) or "nothing".  What *)
(* a point tries, and reports, is a function on registers.                  *)
Sweep(points, writes, tries, polls, watch) ==
  [do |-> "sweep", points |-> points, writes |-> writes, tries |-> tries,
   polls |-> polls, watch |-> watch]

(* A sweep of the values of one register. *)
Sweep1(reg, points, values, polls, watch) ==
  Sweep(points, [k \in 0..(points - 1) |-> <<Write(reg, values[k])>>],
        [k \in 0..(points - 1) |-> [r \in {reg} |-> values[k]]], polls, watch)

(* A loop over rates, and in it a loop over the values of other registers:   *)
(* the rate is written when the inner loop begins, every "per" points.      *)
RateSweep(points, per, tries, inner) ==
  [k \in 0..(points - 1) |->
     (IF k % per = 0 THEN <<Write("rate", tries[k].rate)>> ELSE <<>>)
       \o [m \in DOMAIN inner |-> Write(inner[m], tries[k][inner[m]])]]

PORT_CONF_BASE == Bits(\hF277C)
ALL_PORTS == Bits(\hF27FC)
ONE_PORT == Bits(\h27FE)
Restore == Write("conf", PORT_CONF_BASE)

-------------------------------------------------------------------------------
(* source/tools/clock_sync: sweeps *)

sync_finder_point(k) ==
  IF k < 16 THEN Toggle(PORT_CONF_BASE, 16 + k) ELSE {1, 7, k}
sync_finder ==
  <<Sweep1("conf", 32, [k \in 0..31 |-> sync_finder_point(k)], 15, "key"), Restore>>

sync_finder2 ==
  <<Sweep1("conf", 256, [k \in 0..255 |-> ONE_PORT \cup Shift(k, 16)], 10, "key"), Restore>>

sync_finder3 ==
  <<Sweep1("conf", 32, [k \in 0..31 |-> Bits(\h10FFC) \cup {k}], 5, "key")>>

clock_rates == <<44100, 48000, 88200, 96000>>
clock_sync_point(k) ==
  [rate |-> Bits(clock_rates[1 + k \div 64]),
   conf |-> Bits(\h277C) \cup {(k \div 16) % 4, 7, 16 + (k % 16)}]
clock_sync ==
  LET tries == [k \in 0..255 |-> clock_sync_point(k)]
  IN  <<Sweep(256, RateSweep(256, 64, tries, <<"conf">>), tries, 4, "key"), Restore>>

clock_exhaustive ==
  <<Sweep1("conf", 512, [k \in 0..511 |-> ALL_PORTS \cup Shift(k, 16)], 2, "key"), Restore>>

fuzz_rates ==
  <<\hAC44, \hBB80, \h15888, \h17700, \h2B110, \h2EE00, \h175F3F, \h175FBF, 0>>
clock_exhaustive2 ==
  LET n == 9 * 256
      tries == [k \in 0..(n - 1) |-> [rate |-> Bits(fuzz_rates[1 + k \div 256]),
                                      conf |-> ALL_PORTS \cup Shift(k % 256, 16)]]
  IN  <<Sweep(n, RateSweep(n, 256, tries, <<"conf">>), tries, 2, "key"), Restore>>

clock_exhaustive3 == clock_exhaustive2

(* DSP memory 0x6344 is the word of the rate: the golden one is that of      *)
(* 48 kHz.  The "ports" it resets and starts are those of BAR2: the second   *)
(* is the DSP's.                                                            *)
Reset == [do |-> "reset"]
Start == [do |-> "start"]
clock_exhaustive4_point(k) ==
  [rate |-> Bits(clock_rates[1 + k \div 4]),
   conf |-> Bits(IF k % 2 = 0 THEN \h10FFF ELSE \h1FFFF)
              \cup (IF (k \div 2) % 2 = 0 THEN {} ELSE {31})]
clock_exhaustive4_writes(k) ==
  <<Write("rate", clock_exhaustive4_point(k).rate), Write("conf", clock_exhaustive4_point(k).conf),
    Mem("rate", IF clock_rates[1 + k \div 4] = 48000 THEN "golden" ELSE "junk"),
    Write("port0", {0}), Reset, Write("port8", {0}), Write("portC", {0}),
    Write("port0", {1}), Start, Write("port8", {1}), Write("portC", {1})>>
clock_exhaustive4 ==
  <<Sweep(8, [k \in 0..7 |-> clock_exhaustive4_writes(k)],
          [k \in 0..7 |-> clock_exhaustive4_point(k)], 10, "lock")>>

bank_rates == <<\hAC44, \hBB80, \h15888, \h17700, \h2B110, \h2EE00, \h175F3F, 0>>
banks == <<"bank84", "bankC4", "bank104", "bank144">>
clock_exhaustive_banks_point(k) ==
  [r \in {"rate"} \cup {banks[m] : m \in 1..4} |->
     IF r = "rate" THEN Bits(bank_rates[1 + k \div 32]) ELSE {k % 32}]
clock_exhaustive_banks ==
  LET tries == [k \in 0..255 |-> clock_exhaustive_banks_point(k)]
  IN  <<Write("conf", ALL_PORTS),
        Sweep(256, RateSweep(256, 32, tries, banks), tries, 2, "key")>>
        \o [m \in 1..4 |-> Write(banks[m], {})] \o <<Restore>>

(* source/tools/poke: sweeps one watches without a key, dumps, single writes *)

Watched(reg, points, values) == Sweep1(reg, points, values, 1, "nothing")
Reads(n) == Sweep(n, [k \in 0..(n - 1) |-> <<>>], [k \in 0..(n - 1) |-> <<>>], 1, "nothing")

poke_test ==
  <<Watched("conf", 64, [k \in 0..63 |-> PORT_CONF_BASE \cup {k \div 16, 16 + (k % 16), 7}])>>

poke_test2 ==
  <<Watched("x34", 32, [k \in 0..31 |-> {k}]), Write("x34", {}),
    Watched("x38", 32, [k \in 0..31 |-> {k}]), Write("x38", {})>>

poke_test3 ==
  <<Write("conf", Bits(\hF2782)),
    Watched("bank80", 16, [k \in 0..15 |-> PORT_CONF_BASE \cup {16 + k}]),
    Restore, Write("bank80", PORT_CONF_BASE)>>

poke_test4 ==
  <<Write("conf", ONE_PORT),
    Watched("x04", 32, [k \in 0..31 |-> {k}]), Write("x04", {}),
    Watched("x08", 32, [k \in 0..31 |-> {k}]), Write("x08", {}),
    Write("conf", {})>>

poke_test6 == <<Watched("port0", 8, [k \in 0..7 |-> {k}])>>

poke_test10_rates == <<44100, 48000, 88200, 96000, 176400, 192000, 2083, 2267>>
poke_test10 ==
  <<Write("conf", Bits(\hF2782)),
    Watched("rate", 32, [k \in 0..31 |-> Toggle(Bits(\h175F3F), k)]),
    Watched("rate", 8, [k \in 0..7 |-> Bits(poke_test10_rates[k + 1])]),
    Write("rate", Bits(\h175F3F)), Restore>>

poke_test5 == <<Reads(16), Reads(4)>>
poke_test7 == <<Reads(\h400 \div 4)>>
poke_test8 == <<Reads(8)>>
poke_test9 == <<Reads(8)>>
poke_test11 == <<Reads(\h100000 \div \h1000)>>
motu_poke == <<Reads(50)>>

motu_test_amcc == <<Reads(1), Write("x34", {31}), Write("x3C", {31}), Reads(1)>>
motu_test_regs ==
  <<Reads(1), Write("x04", {28}), Write("x08", {29}), Write("x10", {30}),
    Write("x14", {30, 28}), Reads(1)>>

(* poke.c, a command each.  "write" takes any BAR, offset and value.         *)
(* (cmd_fpga is what its text says: as the golden files stand, their calls   *)
(* of write_reg have an argument too many for it.)                           *)
Any == [do |-> "any"]
cmd_read == <<Reads(1)>>
cmd_write == <<Any>>
cmd_scan == <<Reads(\h100000 \div \h1000)>>
cmd_monitor == <<Reads(50)>>

(* The programs whose ioctl number, made from a structure of another size,  *)
(* the module does not know.                                                *)
Deaf == {"poke_test", "poke_test2", "poke_test4"}

-------------------------------------------------------------------------------
(* The programs that load the card. *)

Fpga == [do |-> "fpga"]
Zero == [do |-> "zero"]
GetDma == [do |-> "get_dma"]
WrongDma == [do |-> "wrong_dma"]
Acks == [do |-> "acks"]

safe_sync ==
  <<Fpga, Zero>> \o golden_dsp \o golden_dsp_patch \o <<GetDma, Start>> \o golden_sequence
    \o <<Acks>>

safe_sync_port ==
  <<Fpga, Zero>> \o golden_dsp \o golden_dsp_patch \o <<GetDma, Start>>
    \o <<Mem("slots", "junk"), Start>> \o golden_sequence \o <<Acks>>

poke_fpga ==
  <<Fpga, Zero>> \o golden_dsp \o golden_dsp_patch \o <<WrongDma, Start>>

cmd_fpga == <<Fpga, Zero>> \o golden_dsp \o golden_dsp_patch \o <<GetDma, Start>>

safe_sync_bit0 == <<Fpga>>
fix_bitbang == <<Fpga>>

force_sync == <<Golden("rate"), Golden("routing"), Write("ack", {4})>>
force_sync_44 == <<Mem("rate", "junk"), Golden("routing"), Write("ack", {4})>>
monitor == <<Acks>>

(* source/tools/replay: the trace the golden files were made from, with      *)
(* "value" for the addresses the original driver used.  It ends when it      *)
(* reads that the card has synchronised, as the golden sequence does.        *)
Addressed(script, value) ==
  [i \in DOMAIN script |->
     IF script[i].do = "mem" /\ script[i].value = "dma" THEN Mem(script[i].region, value)
                                                        ELSE script[i]]

Poll == [do |-> "poll", reads |-> 1000]

(* It sends what it finds. *)
replay_trace == <<Fpga>> \o Addressed(golden_dsp \o golden_sequence, "windows")

(* It starts from the last word of the kernel, and waits for the words of    *)
(* the handshake.  Its number for GET_DMA is made from an array: nobody      *)
(* notices that the module does not know it, and the addresses are zero.     *)
smart_replay == Addressed(golden_sequence, "low") \o <<Poll>>

motu_test_bar0 == <<Reads(1), Mem("vector", "junk"), Mem("text1", "junk"), Reads(1)>>

Script ==
  [sync_finder |-> sync_finder, sync_finder2 |-> sync_finder2, sync_finder3 |-> sync_finder3,
   clock_sync |-> clock_sync, clock_exhaustive |-> clock_exhaustive,
   clock_exhaustive2 |-> clock_exhaustive2, clock_exhaustive3 |-> clock_exhaustive3,
   clock_exhaustive4 |-> clock_exhaustive4, clock_exhaustive_banks |-> clock_exhaustive_banks,
   poke_test |-> poke_test, poke_test2 |-> poke_test2, poke_test3 |-> poke_test3,
   poke_test4 |-> poke_test4, poke_test6 |-> poke_test6, poke_test10 |-> poke_test10,
   safe_sync |-> safe_sync, safe_sync_port |-> safe_sync_port, poke_fpga |-> poke_fpga,
   safe_sync_bit0 |-> safe_sync_bit0, fix_bitbang |-> fix_bitbang,
   force_sync |-> force_sync, force_sync_44 |-> force_sync_44, monitor |-> monitor,
   motu_test_bar0 |-> motu_test_bar0, motu_test_amcc |-> motu_test_amcc,
   motu_test_regs |-> motu_test_regs, motu_poke |-> motu_poke, poke_test5 |-> poke_test5,
   poke_test7 |-> poke_test7, poke_test8 |-> poke_test8, poke_test9 |-> poke_test9,
   poke_test11 |-> poke_test11, cmd_read |-> cmd_read, cmd_write |-> cmd_write,
   replay_trace |-> replay_trace, smart_replay |-> smart_replay,
   cmd_scan |-> cmd_scan, cmd_monitor |-> cmd_monitor, cmd_fpga |-> cmd_fpga]
===============================================================================
