CONSTANTS
    FLASH_PAGE = 2
    BASE_APP_ADDR = 3
    BASE_BOOTLOADER_ADDR = 6
    FLASH_SIZE = 8
    CellBits <- MCCellBits
    Factory <- MCFlash
    Blocks <- MCBlocks
    Images <- MCImages
    Debug = FALSE
    CHUNK_SIZE = 1
SPECIFICATION UpdateSpec
INVARIANTS
    TypeOK
    UpdateTypeOK
    SoftdeviceIsIntact
    BootloaderIsIntact
    AreaHoldsAcknowledged
    BootsWhatWasSent
    RunsWhatWasVerified
    AreaFollowsTool
    CompleteUpdateIsStored
PROPERTY
    UpdateEnds
