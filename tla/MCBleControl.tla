---------------------------- MODULE MCBleControl ----------------------------
(* Instances of BleControl for TLC: one channel mask that is accepted      *)
(* beside the initial one, the one that is refused, and 0xFF, which is     *)
(* accepted and leaves no channel; two powers and two names, so that a     *)
(* setting can change and change back.                                     *)
EXTENDS BleControl, TLC

MCChannelMasks == {{}, {37}, AllChannels, MaskBits}
MCPowers == {0, 4}

(* One setting that can change, for the runs that stop at a violation.     *)
MCOneMask == {{}}
MCOnePower == {0}
=============================================================================
