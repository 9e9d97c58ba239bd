--------------------------- MODULE MCFirmwareUpdate ---------------------------
(* The geometry and the images of MCFirmwareFlash; from elsewhere come     *)
(* blocks of up to two words.  The tool sends one word at a time, so that  *)
(* its images are two and three blocks, and a block that is written twice  *)
(* leaves the rest of the shorter one in the wrong place.                  *)
EXTENDS FirmwareUpdate

A == {1}
B == {2}
MCCellBits == {1, 2}
MCFactory == <<B, A, A, A, B, {1, 2}, B, B>>
MCFlash == [a \in 0..7 |-> MCFactory[a + 1]]
MCBlocks == {<<>>, <<A>>, <<B>>, <<A, B>>, <<A, A>>}
MCImages == {[words |-> <<A, B>>, trust |-> "Full"],
             [words |-> <<A, A, A>>, trust |-> "Developer"]}
===============================================================================
