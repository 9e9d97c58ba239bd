CONSTANTS
    Names = {n1}
    DefaultName = n1
    ChannelMasks <- MCOneMask
    Powers <- MCOnePower
    MaxEvents = 3
SPECIFICATION Spec
INVARIANT
    DisabledRadioIsOff
