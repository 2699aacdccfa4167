----------------------------- MODULE MCMotu424Fpga ----------------------------
(* Bitstreams for TLC. *)
EXTENDS Motu424Fpga, TLC

AsByte(b7, b6, b5, b4, b3, b2, b1, b0) ==
  (0 :> b0) @@ (1 :> b1) @@ (2 :> b2) @@ (3 :> b3) @@
  (4 :> b4) @@ (5 :> b5) @@ (6 :> b6) @@ (7 :> b7)

(* Three bytes: runs of equal bits, every change of a bit, and a byte whose *)
(* mirror image is another byte.                                            *)
ThreeBytes == << AsByte(1, 1, 0, 1, 0, 0, 0, 1),
                 AsByte(0, 0, 0, 0, 0, 1, 1, 1),
                 AsByte(0, 1, 0, 1, 0, 1, 0, 0) >>

(* No image, every image of one byte, and the one of three. *)
SmallImages == {<< >>, ThreeBytes} \cup {<<b>> : b \in Byte}
===============================================================================
