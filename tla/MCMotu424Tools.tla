----------------------------- MODULE MCMotu424Tools -----------------------------
(***************************************************************************)
(* Motu424Tools with every program and, for the sweeps, some of the        *)
(* values they announce, written down from their messages and comments: of *)
(* a range of bits all, of a longer range the first, the second, one in    *)
(* the middle and the last.                                                *)
(***************************************************************************)
EXTENDS Motu424Tools

AllPrograms == DOMAIN Script

(* Bits from 16 on, all combinations announced, those of bits 16 to 19 that  *)
(* are set in 0xF27FC included.                                              *)
TopBits(i) == Bits(\h27FC) \cup Shift(i, 16)

Some(n) == {0, 1, n \div 2, n - 1}

(* "Nothing lights" is always one of the cases. *)
AnnouncedValues(p) ==
  {<<>>} \cup
  CASE p = "sync_finder" ->
         [conf : {Toggle(PORT_CONF_BASE, b) : b \in 16..31}
                   \cup {{1, 7, b} : b \in 16..31}]
    [] p = "sync_finder2" -> [conf : {ONE_PORT \cup Shift(i, 16) : i \in Some(256)}]
    [] p = "sync_finder3" -> [conf : {Bits(\h10FFC) \cup {b} : b \in 0..31}]
    [] p = "clock_sync" ->
         [rate : {Bits(r) : r \in {44100, 96000}},
          conf : {Bits(\h277C) \cup {port, 7, b} : port \in {0, 3}, b \in 16..31}]
    [] p = "clock_exhaustive" -> [conf : {TopBits(i) : i \in Some(512) \cup {15, 271}}]
    [] p \in {"clock_exhaustive2", "clock_exhaustive3"} ->
         [rate : {Bits(r) : r \in {\hAC44, \hBB80, \h175FBF, 0}},
          conf : {TopBits(i) : i \in {1, 15, 143, 255}}]
    [] p = "clock_exhaustive4" ->
         [rate : {Bits(44100), Bits(48000)},
          conf : {Bits(m) \cup P : m \in {\h10FFF, \h1FFFF}, P \in {{}, {31}}}]
    [] p = "clock_exhaustive_banks" ->
         [rate : {Bits(r) : r \in {\hAC44, 0}}, bank84 : {{b} : b \in {0, 1, 16, 31}}]
           \cup {[r \in {"rate"} \cup {banks[m] : m \in 1..4} |->
                    IF r = "rate" THEN Bits(rate) ELSE {b}] :
                   rate \in {\hAC44, 0}, b \in {0, 1, 16, 31}}
    [] OTHER -> {}
===============================================================================
