--------------------------- MODULE Motu424Translate ---------------------------
(***************************************************************************)
(* motu424_translate_dma (source/shared/motu424_init.c): the addresses of  *)
(* the Windows driver's DMA buffers, recorded in the init sequence, are    *)
(* replaced by addresses in the buffer of this driver.                     *)
(*                                                                         *)
(* A 32-bit word is its two halves.  A mask of the code keeps the high     *)
(* half, or the high half and the top four bits of the low one.            *)
(***************************************************************************)
EXTENDS Integers

Half == {h \in Nat : h <= 65535}
Word == [hi : Half, lo : Half]
Zero == [hi |-> 0, lo |-> 0]

(* WIN_DMA_MAGIC_1 ... 5 *)
IsMagic1(v) == v.hi = 4241 /\ v.lo \div 4096 = 4    \* 0x10914xxx
IsMagic2(v) == v = [hi |-> 65159, lo |-> 0]         \* 0xFE870000
IsMagic3(v) == v = [hi |-> 36864, lo |-> 0]         \* 0x90000000
IsMagic4(v) == v.hi = 49111                         \* 0xBFD7xxxx
IsMagic5(v) == v.hi = 49145 /\ v.lo \div 4096 = 2   \* 0xBFF92xxx

IsWindows(v) ==
  IsMagic1(v) \/ IsMagic2(v) \/ IsMagic3(v) \/ IsMagic4(v) \/ IsMagic5(v)

(* 32-bit addition of the word with halves h and l. *)
Plus(w, h, l) ==
  [hi |-> (w.hi + h + (w.lo + l) \div 65536) % 65536, lo |-> (w.lo + l) % 65536]

(* Mutant: the offset of the fifth buffer is or-ed as the others are. *)
Translate_NoOffset5(dma, v) ==
  IF IsMagic1(v) \/ IsMagic5(v)
    THEN [hi |-> dma.hi, lo |-> (4096 * (dma.lo \div 4096)) + (v.lo % 4096)]
  ELSE IF IsMagic2(v) \/ IsMagic3(v) THEN dma
  ELSE IF IsMagic4(v) THEN [hi |-> dma.hi, lo |-> v.lo]
  ELSE v

(* With a buffer at dma: masked and or-ed for 1 and 4, added for 5. *)
Translate(dma, v) ==
  IF IsMagic1(v)
    THEN [hi |-> dma.hi, lo |-> (4096 * (dma.lo \div 4096)) + (v.lo % 4096)]
  ELSE IF IsMagic2(v) \/ IsMagic3(v) THEN dma
  ELSE IF IsMagic4(v) THEN [hi |-> dma.hi, lo |-> v.lo]
  ELSE IF IsMagic5(v) THEN Plus(dma, 34, 8192 + (v.lo % 4096))  \* 0x222000
  ELSE v

-------------------------------------------------------------------------------
(* What the translation is for: a Windows address becomes the base of the  *)
(* buffer plus the offset it had in the Windows buffer; other words stay.  *)
Relocated(dma, v) ==
  IF IsMagic1(v) THEN Plus(dma, 0, v.lo % 4096)
  ELSE IF IsMagic2(v) \/ IsMagic3(v) THEN dma
  ELSE IF IsMagic4(v) THEN Plus(dma, 0, v.lo)
  ELSE IF IsMagic5(v) THEN Plus(dma, 34, 8192 + (v.lo % 4096))
  ELSE v

(* A buffer the page allocator aligned to (more than) 64 KB. *)
Aligned(dma) == dma.lo = 0

(* A 4 MB buffer of which no 64 KB is one that holds a Windows address. *)
Apart(dma) ==
  /\ Aligned(dma) /\ dma.hi + 63 <= 65535
  /\ \A h \in dma.hi..(dma.hi + 63) : h \notin {4241, 65159, 36864, 49111, 49145}
===============================================================================
