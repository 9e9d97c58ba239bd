----------------------------- MODULE MCBootloader -----------------------------
(* A small device for TLC: the application area is two words of a flash of *)
(* four, in pages of one word; the two images differ in the last word, and *)
(* the fully trusted one can be programmed over the other without an       *)
(* erase.  The secret is one word of two bits.                             *)
EXTENDS Bootloader

MCBits == {1, 2}
MCFlash == [a \in 0..3 |-> IF a \in {0, 3} THEN {1} ELSE MCBits]
MCFull == <<{1}, {}>>
MCDeveloper == <<{1}, {2}>>
MCImages == {[words |-> MCFull, trust |-> "Full"],
             [words |-> MCDeveloper, trust |-> "Developer"]}
MCBlocks == {MCFull, MCDeveloper}
MCSecrets == {[i \in {0} |-> {1}], [i \in {0} |-> {2}]}
===============================================================================
