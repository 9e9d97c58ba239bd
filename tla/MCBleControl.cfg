CONSTANTS
    Names = {n1, n2}
    DefaultName = n1
    ChannelMasks <- MCChannelMasks
    Powers <- MCPowers
    MaxEvents = 4
SPECIFICATION FairSpec
INVARIANTS
    TypeOK
    StateCopyAgrees
    AdvertisesCurrentSettings
    GattHasConnection
    AdvertisingIsOwned
    LinkIsReachable
PROPERTIES
    SwitchSpec
    BecomesDiscoverable
    SettingsReachTheAir
