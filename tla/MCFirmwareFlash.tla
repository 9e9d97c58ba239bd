--------------------------- MODULE MCFirmwareFlash ---------------------------
(* Pages of two words: the MBR has the first, the application area begins  *)
(* inside the second and takes all of the third, and the bootloader has    *)
(* the fourth.  Words of two bits, so that programming one value over      *)
(* another leaves a third.  A fully trusted image of two words, a          *)
(* developer image of three.                                               *)
EXTENDS FirmwareFlash

A == {1}
B == {2}
MCCellBits == {1, 2}
MCFactory == <<B, A, A, A, B, {1, 2}, B, B>>
MCFlash == [a \in 0..7 |-> MCFactory[a + 1]]
MCBlocks == {<<>>, <<A>>, <<B>>, <<A, B>>, <<B, A>>, <<A, A>>}
MCImages == {[words |-> <<A, B>>, trust |-> "Full"],
             [words |-> <<A, A, A>>, trust |-> "Developer"]}
=============================================================================
