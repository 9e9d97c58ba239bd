---------------------------- MODULE MCReleaseTool ----------------------------
(* The memory map of the device in small, in the order of the real one: a  *)
(* SoftDevice of two segments that ends below the application, patched     *)
(* twice in each; an application across the next boundary of segments; a   *)
(* bootloader behind it; and two words of the UICR beyond what segment     *)
(* addresses reach.                                                        *)
EXTENDS ReleaseTool

SdByte(a) == [part |-> "sd", at |-> a]

MCSoftDevice ==
    <<ExtendedLinearAddress(0),
      Data(0, <<SdByte(0), SdByte(1)>>), Data(3, <<SdByte(3), SdByte(4)>>), Data(7, <<SdByte(7)>>),
      ExtendedLinearAddress(1),
      Data(0, <<SdByte(8), SdByte(9)>>), Data(2, <<SdByte(10)>>),
      EndOfFile>>

PatchByte(a) == [part |-> "patch", at |-> a]

MCPatches ==
    LET Patch(a) == [addr |-> a, value |-> PatchByte(a)]
    IN  <<Patch(10), Patch(9), Patch(4), Patch(1)>>

MCVendorByte == {SdByte(a) : a \in 0..10} \cup {PatchByte(a) : a \in {1, 4, 9, 10}}

MCCodeSize(crate, v) == IF crate = "app" THEN v + 2 ELSE 3 - v
=============================================================================
