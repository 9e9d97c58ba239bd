CONSTANTS
    FLASH_PAGE = 1
    BASE_APP_ADDR = 1
    BASE_BOOTLOADER_ADDR = 3
    FLASH_SIZE = 4
    CellBits <- MCBits
    Factory <- MCFlash
    Blocks <- MCBlocks
    Images <- MCImages
    Debug = FALSE
    NumWords = 1
    WordBits <- MCBits
    Secrets <- MCSecrets
SPECIFICATION Spec
INVARIANT
    OnlyTrustedHoldsSecret
PROPERTY
    SecretIsKept
