CONSTANTS
    FLASH_PAGE = 2
    BASE_APP_ADDR = 3
    BASE_BOOTLOADER_ADDR = 6
    FLASH_SIZE = 8
    CellBits <- MCCellBits
    Factory <- MCFlash
    Blocks <- MCBlocks
    Images <- MCImages
    Debug = TRUE
SPECIFICATION Spec
INVARIANT
    WritesStayInAppArea
