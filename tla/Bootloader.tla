------------------------------ MODULE Bootloader ------------------------------
(***************************************************************************)
(* The bootloader as a whole: the one command loop of                      *)
(* bootloader/src/main.rs over the application area of FirmwareFlash and   *)
(* the secret of SecretStore.  The loop is sequential: a request is        *)
(* finished before the next is read, so that one side moves only while the *)
(* other is idle.  The two meet where the code makes them meet: in         *)
(* BootFirmware, which wipes the secret for an image that verifies, in the *)
(* jump to the application, and at every start.                            *)
(*                                                                         *)
(* The application runs when both sides have come to "app".                *)
(***************************************************************************)
EXTENDS Integers, Sequences

CONSTANTS
    FLASH_PAGE, BASE_APP_ADDR, BASE_BOOTLOADER_ADDR, FLASH_SIZE, CellBits,
    Factory, Blocks, Images, Debug,         \* as in FirmwareFlash
    NumWords, WordBits, Secrets             \* as in SecretStore

ASSUME FlashAssumption ==
    /\ FLASH_PAGE \in Nat \ {0}
    /\ BASE_APP_ADDR \in Nat
    /\ BASE_BOOTLOADER_ADDR \in Nat
    /\ FLASH_SIZE \in Nat
    /\ FLASH_PAGE <= BASE_APP_ADDR
    /\ BASE_APP_ADDR < BASE_BOOTLOADER_ADDR
    /\ BASE_BOOTLOADER_ADDR <= FLASH_SIZE
    /\ BASE_BOOTLOADER_ADDR % FLASH_PAGE = 0
    /\ Factory \in [0..(FLASH_SIZE - 1) -> SUBSET CellBits]
    /\ Blocks \subseteq Seq(SUBSET CellBits)
    /\ \A image \in Images :
        /\ image.words \in Seq(SUBSET CellBits) \ {<<>>}
        /\ image.trust \in {"Full", "Developer"}
    /\ Debug \in BOOLEAN
ASSUME SecretAssumption ==
    /\ NumWords \in Nat \ {0}
    /\ WordBits # {}
    /\ Secrets \subseteq [0..(NumWords - 1) -> SUBSET WordBits]

VARIABLES
    flash, offset, flashPc, cursor, saved, todo, flashResp, flashRunning,
    bprot, acked, clean, interrupted,       \* FirmwareFlash
    uicr, sealWord, seal, secretPc, job, next, secretResp, secretRunning,
    provisioned, attempts                   \* SecretStore

flashVars  == <<flash, offset, flashPc, cursor, saved, todo, flashResp,
                flashRunning, bprot, acked, clean, interrupted>>
secretVars == <<uicr, sealWord, seal, secretPc, job, next, secretResp,
                secretRunning, provisioned, attempts>>
vars       == <<flashVars, secretVars>>

Flash == INSTANCE FirmwareFlash WITH
    pc <- flashPc, resp <- flashResp, running <- flashRunning

Secret == INSTANCE SecretStore WITH
    pc <- secretPc, resp <- secretResp, running <- secretRunning

Trusts == {"Full", "Developer"}

-----------------------------------------------------------------------------
Init == Flash!Init /\ Secret!Init

(* Requests, and the steps of the flash controller on behalf of one.       *)
FlashRequest ==
    /\ secretPc = "idle"
    /\ Flash!Erase \/ Flash!Write \/ Flash!Other
    /\ UNCHANGED secretVars

SecretRequest ==
    /\ flashPc = "idle"
    /\ \/ \E secret \in Secrets : Secret!ChallengeSet(secret)
       \/ Secret!WriteWord \/ Secret!ReadBack \/ Secret!WriteSeal
       \/ Secret!ChallengeRequest
    /\ UNCHANGED flashVars

(* Mutants: the secret is wiped for whoever asks for a developer boot; it  *)
(* is not wiped at all.                                                    *)
BootFirmwareWipesFirst(trust) ==
    /\ flashPc = "idle" /\ secretPc = "idle"
    /\ Flash!BootFirmware(trust)
    /\ \/ /\ seal = Secret!SEALED_SECRET /\ trust = "Developer"
          /\ Secret!BootFirmware(trust)
       \/ /\ ~(seal = Secret!SEALED_SECRET /\ trust = "Developer")
          /\ IF flashPc' = "app"
             THEN Secret!BootFirmware(trust) ELSE UNCHANGED secretVars

BootFirmwareUnwiped(trust) ==
    /\ flashPc = "idle" /\ secretPc = "idle"
    /\ Flash!BootFirmware(trust)
    /\ IF flashPc' = "app"
       THEN Secret!BootFirmwareUnwiped(trust) ELSE UNCHANGED secretVars

(* BootFirmware: the image is verified first, and only if it is valid does *)
(* the secret come into it.                                                *)
BootFirmware(trust) ==
    /\ secretPc = "idle"
    /\ Flash!BootFirmware(trust)
    /\ IF flashPc' = "app"
       THEN Secret!BootFirmware(trust) ELSE UNCHANGED secretVars

(* The wipe goes on between the verification and the jump.                 *)
Wipe ==
    /\ flashPc = "app"
    /\ Secret!WriteWord \/ Secret!ReadBack \/ Secret!WriteSeal
    /\ UNCHANGED flashVars

(* The application answers challenges.                                     *)
ApplicationChallenge ==
    /\ flashPc = "app" /\ secretPc = "app"
    /\ Secret!ChallengeRequest
    /\ UNCHANGED flashVars

(* The application writes to flash: unless this is protected, over itself. *)
ApplicationWrites ==
    /\ flashPc = "app" /\ secretPc = "app"
    /\ \E addr \in Flash!Addresses, word \in SUBSET CellBits :
            Flash!ApplicationWrites(addr, word)
    /\ UNCHANGED secretVars

-----------------------------------------------------------------------------
(* Reset, from the bootloader, the application, or a fault.                *)
Reset == Flash!Reset /\ Secret!Reset

PowerFailure ==
    \/ /\ Flash!PowerFailure
       /\ UNCHANGED <<uicr, sealWord>>
       /\ Secret!StartUp
    \/ /\ Secret!PowerFailure
       /\ UNCHANGED <<flash, interrupted>>
       /\ Flash!StartUp

Next ==
    \/ FlashRequest
    \/ SecretRequest
    \/ \E trust \in Trusts : BootFirmware(trust)
    \/ Wipe
    \/ ApplicationChallenge
    \/ ApplicationWrites
    \/ Reset
    \/ PowerFailure

Spec == Init /\ [][Next]_vars

-----------------------------------------------------------------------------
AppRuns == flashPc = "app" /\ secretPc = "app"

(* The image in flash is signed, and for full trust.                       *)
FullyTrusted ==
    \E image \in Images : image.trust = "Full" /\ Flash!IsStored(image.words)

(* Firmware that is not fully trusted never runs on a device whose secret  *)
(* is sealed, where it could answer challenges as if it were: not after    *)
(* blocks written over one another, refused boots, or a power failure in   *)
(* the middle of the wipe that precedes every developer boot, and not      *)
(* after fully trusted firmware has tried to write over itself.            *)
OnlyTrustedHoldsSecret ==
    ~Debug /\ AppRuns /\ sealWord = Secret!SEALED_SECRET => FullyTrusted

(* A sealed secret is given up only for firmware that verifies, after it   *)
(* has: a boot that is refused, an update, or a failure of power during    *)
(* one leaves seal and secret alone.                                       *)
SecretIsKept ==
    [][sealWord = Secret!SEALED_SECRET /\ <<uicr, sealWord>>' # <<uicr, sealWord>>
        => flashPc = "app" /\ Flash!Verifies("Developer")]_vars
=============================================================================
