CONSTANTS
    SEGMENT = 8
    PARAGRAPH = 4
    CHUNK = 2
    BASE_APP_ADDR = 12
    SIGNATURE_HEADER_SIZE = 1
    BASE_BOOTLOADER_ADDR = 18
    UICR_BOOTLOADER_ADDR = 33
    UICR_APPROTECT = 38
    SoftDevice <- MCSoftDevice
    patches_7_3_0 <- MCPatches
    VendorByte <- MCVendorByte
    CodeSize <- MCCodeSize
    Keys = {k1}
    MaxVersion = 2
SPECIFICATION Spec
INVARIANT
    DebugImageIsUnprotected
