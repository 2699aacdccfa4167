----------------------------- MODULE MCMotu424Init ----------------------------
(* Values of the constants of Motu424Init for TLC. *)
EXTENDS Motu424Init

W(h, l) == [hi |-> h, lo |-> l]
E(b, o, v) == [bar |-> b, offset |-> o, value |-> v]

Program == 0
Stale == W(48879, 1)        \* a word of an earlier program
WindowsWord == W(36864, 0)  \* 0x90000000, left by the Windows driver
Answer == W(0, 1)

(* The shape of the shipped sequence: the program, its two buffer addresses, *)
(* the start of the DSP, then patches, a word written twice among them; and  *)
(* one entry of each kind the shipped one does not have: the other buffer    *)
(* addresses, a BAR1 register, a poll, a BAR that does not exist.            *)
SmallSequence == <<
  E(0, Program, W(12732, 8934)),
  E(0, 28064, W(65159, 0)),          \* 0x6da0
  E(0, 28208, W(36864, 0)),          \* 0x6e30
  E(2, 0, Zero),
  E(0, BootVector, Zero),
  E(2, 4, W(0, 2)),
  E(0, 28980, W(0, 7)),              \* 0x7134
  E(PollMarker, SyncStatus, Zero),
  E(0, 29040, W(4241, 16932)),       \* 0x10914224
  E(0, 29044, W(49111, 17)),         \* 0xbfd70011
  E(0, 29048, W(49145, 12287)),      \* 0xbff92fff
  E(1, 0, W(1, 0)),
  E(3, Program, Zero),
  E(0, 28980, W(0, 9)) >>

Offsets ==
  {SgPlayback, SgCapture, SgBuffer, SgTransfer, PortAck, PortCmd, SyncStatus,
   Status1, Status2, Status3, BootVector}
  \cup {SmallSequence[j].offset : j \in {i \in DOMAIN SmallSequence :
                                           SmallSequence[i].bar = 0}}

BothFrontends == {"alsa", "wdf"}
JustAlsa == {"alsa"}

(* A buffer of 4 MB is aligned to its size by the page allocator of Linux. *)
AlignedBases == {W(4608, 0)}            \* 0x12000000

StaleOrWindows == {Stale, WindowsWord}
JustStale == {Stale}
SomeDspWords == {SyncStatus, Status1, Status2, PortAck}
Answers == {Answer}
===============================================================================
