--------------------------- MODULE BootloaderProofs ---------------------------
(***************************************************************************)
(* What the bootloader promises about the secret and the firmware that     *)
(* runs, for every content of flash, set of images and set of secrets.     *)
(* The composition is a behaviour of SecretStore, so that what             *)
(* SecretStoreProofs proves of the secret holds here; what is left to show *)
(* is where the two sides meet.                                            *)
(***************************************************************************)
EXTENDS Bootloader, SequenceTheorems, TLAPS

SecretProofs == INSTANCE SecretStoreProofs WITH
    pc <- secretPc, resp <- secretResp, running <- secretRunning

FlashProofs == INSTANCE FirmwareFlashProofs WITH
    pc <- flashPc, resp <- flashResp, running <- flashRunning

(* What the proofs of the composition use of the geometry.                 *)
LEMMA Sizes ==
    /\ FLASH_PAGE \in Nat /\ BASE_APP_ADDR \in Nat
    /\ BASE_BOOTLOADER_ADDR \in Nat /\ FLASH_SIZE \in Nat
    /\ FLASH_PAGE <= BASE_APP_ADDR
    /\ BASE_BOOTLOADER_ADDR <= FLASH_SIZE
    /\ \A image \in Images : Len(image.words) \in Nat
BY FlashAssumption, LenProperties DEF FlashAssumption

(* The loop is in one request at a time; a wipe belongs to a developer     *)
(* boot whose image has verified, and any other writing to ChallengeSet;   *)
(* the application runs under one trust, in an area that is protected.     *)
Meet ==
    /\ flashPc \in {"erase", "restore", "program"} => secretPc = "idle"
    /\ flashPc = "fault" => secretPc \in {"idle", "app"}
    /\ flashPc = "idle" => secretPc \in {"idle", "write", "seal"}
    /\ flashPc = "app" => /\ secretPc \in {"write", "seal", "app"}
                          /\ flashRunning \in Trusts
    /\ flashPc = "app" /\ (~Debug \/ secretPc # "app") =>
        Flash!Verifies(flashRunning)
    /\ flashPc = "app" /\ ~Debug => Flash!AppArea \subseteq bprot
    /\ secretPc \in {"write", "seal"} =>
        job.seal = IF flashPc = "app"
                   THEN Secret!SEALED_WIPED ELSE Secret!SEALED_SECRET
    /\ secretPc \in {"write", "seal"} /\ flashPc = "app" =>
        flashRunning = "Developer"
    /\ secretPc = "app" => /\ secretRunning = flashRunning
                           /\ flashPc \in {"app", "fault"}

FlashPcs == {"idle", "erase", "restore", "program", "app", "fault"}

IInv == flashPc \in FlashPcs /\ Meet

-----------------------------------------------------------------------------
LEMMA Seals == Secret!SEALED_SECRET # Secret!SEALED_WIPED
BY DEF Secret!SEALED_SECRET, Secret!SEALED_WIPED

LEMMA MeetInit == Init => IInv
BY DEF Init, Flash!Init, Secret!Init, IInv, Meet, FlashPcs

(* Both sides start together.                                              *)
LEMMA MeetStartUp == Flash!StartUp /\ Secret!StartUp => IInv'
BY DEF Flash!StartUp, Secret!StartUp, IInv, Meet, FlashPcs

(* A request about the application area leads to no jump.                  *)
LEMMA FlashRequestStays ==
    ASSUME flashPc # "app", Flash!Erase \/ Flash!Write \/ Flash!Other
    PROVE  flashPc' \in FlashPcs \ {"app"} \/ UNCHANGED flashPc
BY DEF Flash!Erase, Flash!Write, Flash!Other, Flash!EraseFirmware,
       Flash!ErasePage, Flash!EraseDone, Flash!RestoreWord,
       Flash!RestoreDone, Flash!WriteFirmwareBlock, Flash!ProgramWord,
       Flash!ProgramFault, Flash!ProgramDone, FlashPcs, Flash!ramVars

(* The regions flash_protect_sd_application lists cover the area.          *)
LEMMA AreaIsCovered == ~Debug => Flash!AppArea \subseteq Flash!FlashProtectSdApplication
BY Sizes, SMT
   DEF Flash!AppArea, Flash!FlashProtectSdApplication

(* What is written outside of the area does not change what is in it.      *)
LEMMA VerifiedStays ==
    ASSUME NEW addr \in Flash!Addresses \ Flash!AppArea, NEW word,
           flash' = [a \in Flash!Addresses |-> IF a = addr THEN word ELSE flash[a]],
           UNCHANGED flashRunning, Flash!Verifies(flashRunning)
    PROVE  (Flash!Verifies(flashRunning))'
<1>1. ASSUME NEW image \in Images, Flash!IsStored(image.words)
      PROVE  (Flash!IsStored(image.words))'
  <2> DEFINE words == image.words
  <2>1. /\ Len(words) \in Nat
        /\ Len(words) <= BASE_BOOTLOADER_ADDR - BASE_APP_ADDR
    BY <1>1, Sizes DEF Flash!IsStored
  <2> HIDE DEF words
  <2>2. ASSUME NEW i \in 1..Len(words)
        PROVE  flash'[BASE_APP_ADDR + i - 1] = flash[BASE_APP_ADDR + i - 1]
    <3>1. BASE_APP_ADDR + i - 1 \in Flash!Addresses \cap Flash!AppArea
      BY <2>1, Sizes, SMT
         DEF Flash!Addresses, Flash!AppArea
    <3> QED
      BY <3>1
  <2> QED
    BY <1>1, <2>1, <2>2 DEF words, Flash!IsStored
<1> QED
  BY <1>1 DEF Flash!Verifies

LEMMA MeetStep == IInv /\ [Next]_vars => IInv'
<1> SUFFICES ASSUME IInv, [Next]_vars
             PROVE  IInv'
  OBVIOUS
<1>1. CASE FlashRequest
  <2>1. secretPc = "idle" /\ flashPc # "app" /\ UNCHANGED secretVars
    BY <1>1 DEF FlashRequest, IInv, Meet
  <2>2. flashPc' \in FlashPcs \ {"app"}
    BY <1>1, <2>1, FlashRequestStays DEF FlashRequest, IInv
  <2> QED
    BY <2>1, <2>2 DEF secretVars, IInv, Meet, FlashPcs
<1>2. CASE SecretRequest
  <2>1. flashPc = "idle" /\ UNCHANGED flashVars
    BY <1>2 DEF SecretRequest
  <2> DEFINE Provisions ==
               /\ secretPc' \in {"idle", "write", "seal"}
               /\ secretPc' # "idle" => job'.seal = Secret!SEALED_SECRET
  <2>2. Provisions
    <3>1. ASSUME NEW secret \in Secrets, Secret!ChallengeSet(secret)
          PROVE  Provisions
      BY <2>1, <3>1 DEF IInv, Meet, Secret!ChallengeSet,
                        Secret!CallWriteSecret, Secret!jobVars
    <3>2. CASE Secret!WriteWord
      BY <2>1, <3>2 DEF IInv, Meet, Secret!WriteWord
    <3>3. CASE Secret!ReadBack
      BY <2>1, <3>3 DEF IInv, Meet, Secret!ReadBack, Secret!jobVars
    <3>4. CASE Secret!WriteSeal
      BY <2>1, <3>4, Seals DEF IInv, Meet, Secret!WriteSeal, Secret!jobVars
    <3>5. CASE Secret!ChallengeRequest
      BY <2>1, <3>5 DEF IInv, Meet, Secret!ChallengeRequest, Secret!jobVars
    <3> QED
      BY <1>2, <3>1, <3>2, <3>3, <3>4, <3>5 DEF SecretRequest
  <2> QED
    BY <2>1, <2>2 DEF flashVars, IInv, Meet, FlashPcs
<1>3. ASSUME NEW trust \in Trusts, BootFirmware(trust)
      PROVE  IInv'
  <2>1. secretPc = "idle" /\ UNCHANGED flash
    BY <1>3 DEF BootFirmware, Flash!BootFirmware, Flash!JumpToApp
  <2>2. CASE flashPc' = "app"
    <3>1. flashRunning' = trust /\ Flash!Verifies(trust)
      BY <1>3, <2>2 DEF BootFirmware, Flash!BootFirmware, Flash!JumpToApp
    <3>2. (Flash!Verifies(flashRunning))'
      BY <2>1, <3>1 DEF Flash!Verifies, Flash!IsStored
    <3>4. ~Debug => (Flash!AppArea \subseteq bprot)'
      BY <1>3, <2>2, AreaIsCovered
         DEF BootFirmware, Flash!BootFirmware, Flash!AppArea
    <3>3. Secret!BootFirmware(trust)
      BY <1>3, <2>2 DEF BootFirmware
    <3> QED
      BY <2>2, <3>1, <3>2, <3>3, <3>4
         DEF Secret!BootFirmware, Secret!CallWriteSecret, IInv, Meet, FlashPcs
  <2>3. CASE flashPc' # "app"
    <3>1. flashPc' = "idle" /\ UNCHANGED secretVars
      BY <1>3, <2>3 DEF BootFirmware, Flash!BootFirmware, Flash!JumpToApp
    <3> QED
      BY <2>1, <3>1 DEF secretVars, IInv, Meet, FlashPcs
  <2> QED
    BY <2>2, <2>3
<1>4. CASE Wipe
  <2>1. flashPc = "app" /\ UNCHANGED flashVars
    BY <1>4 DEF Wipe
  <2> DEFINE Keeps == /\ flashRunning' = flashRunning /\ flashPc' = "app"
                      /\ ~Debug => (Flash!AppArea \subseteq bprot)'
                      /\ Flash!Verifies(flashRunning)
                            => (Flash!Verifies(flashRunning))'
  <2>2. Keeps
    BY <2>1 DEF flashVars, IInv, Meet, Flash!Verifies, Flash!IsStored,
                Flash!AppArea
  <2>3. CASE Secret!WriteWord
    BY <2>1, <2>2, <2>3 DEF IInv, Meet, FlashPcs, Secret!WriteWord
  <2>4. CASE Secret!ReadBack
    BY <2>1, <2>2, <2>4, Seals
       DEF IInv, Meet, FlashPcs, Secret!ReadBack, Secret!jobVars
  <2>5. CASE Secret!WriteSeal
    BY <2>1, <2>2, <2>5, Seals
       DEF IInv, Meet, FlashPcs, Secret!WriteSeal, Secret!jobVars
  <2> QED
    BY <1>4, <2>3, <2>4, <2>5 DEF Wipe
<1>5. CASE ApplicationChallenge \/ UNCHANGED vars
  <2>1. UNCHANGED <<flashVars, secretPc, job, secretRunning>>
    BY <1>5 DEF ApplicationChallenge, Secret!ChallengeRequest,
                Secret!jobVars, vars, secretVars
  <2>2. Flash!Verifies(flashRunning) => (Flash!Verifies(flashRunning))'
    BY <2>1 DEF flashVars, Flash!Verifies, Flash!IsStored
  <2> QED
    BY <2>1, <2>2 DEF flashVars, IInv, Meet, Flash!AppArea
<1>8. CASE ApplicationWrites
  <2>1. /\ flashPc = "app" /\ secretPc = "app" /\ UNCHANGED secretVars
        /\ UNCHANGED <<flashRunning, bprot>>
    BY <1>8 DEF ApplicationWrites, Flash!ApplicationWrites, Flash!bootVars
  <2>2. PICK addr \in Flash!Addresses, word \in SUBSET CellBits :
            Flash!ApplicationWrites(addr, word)
    BY <1>8 DEF ApplicationWrites
  <2>3. CASE addr \in bprot
    <3>1. flashPc' = "fault"
      BY <2>2, <2>3 DEF Flash!ApplicationWrites
    <3> QED
      BY <2>1, <3>1 DEF secretVars, IInv, Meet, FlashPcs
  <2>4. CASE addr \notin bprot
    <3>1. /\ flashPc' = "app"
          /\ flash' = [a \in Flash!Addresses |->
                            IF a = addr THEN word ELSE flash[a]]
      BY <2>1, <2>2, <2>4 DEF Flash!ApplicationWrites
    <3>2. ~Debug => (Flash!Verifies(flashRunning))'
      <4> SUFFICES ASSUME ~Debug
                   PROVE  (Flash!Verifies(flashRunning))'
        OBVIOUS
      <4>1. addr \notin Flash!AppArea /\ Flash!Verifies(flashRunning)
        BY <2>1, <2>4 DEF IInv, Meet
      <4> QED
        BY <2>1, <3>1, <4>1, VerifiedStays
    <3>3. ~Debug => (Flash!AppArea \subseteq bprot)'
      BY <2>1 DEF IInv, Meet, Flash!AppArea
    <3> QED
      BY <2>1, <3>1, <3>2, <3>3 DEF secretVars, IInv, Meet, FlashPcs
  <2> QED
    BY <2>3, <2>4
<1>6. CASE Reset
  BY <1>6, MeetStartUp DEF Reset, Flash!Reset, Secret!Reset
<1>7. CASE PowerFailure
  BY <1>7, MeetStartUp DEF PowerFailure, Flash!PowerFailure, Secret!PowerFailure
<1> QED
  BY <1>1, <1>2, <1>3, <1>4, <1>5, <1>6, <1>7, <1>8 DEF Next

THEOREM Invariance == Spec => []IInv
BY MeetInit, MeetStep, PTL DEF Spec

-----------------------------------------------------------------------------
(* A failure of power while flash is at work finds the secret at rest.     *)
LEMMA SecretStep == IInv /\ [Next]_vars => [Secret!Next]_(Secret!vars)
<1> SUFFICES ASSUME IInv, [Next]_vars
             PROVE  [Secret!Next]_(Secret!vars)
  OBVIOUS
<1>1. CASE FlashRequest \/ ApplicationWrites \/ UNCHANGED vars
  BY <1>1 DEF FlashRequest, ApplicationWrites, vars, secretVars, Secret!vars, Secret!uicrVars,
              Secret!jobVars, Secret!history
<1>2. CASE SecretRequest \/ Wipe \/ ApplicationChallenge
  BY <1>2 DEF SecretRequest, Wipe, ApplicationChallenge, Secret!Next
<1>3. ASSUME NEW trust \in Trusts, BootFirmware(trust)
      PROVE  [Secret!Next]_(Secret!vars)
  <2>1. CASE Secret!BootFirmware(trust)
    BY <2>1 DEF Secret!Next, Trusts
  <2>2. CASE UNCHANGED secretVars
    BY <2>2 DEF secretVars, Secret!vars, Secret!uicrVars, Secret!jobVars,
                Secret!history
  <2> QED
    BY <1>3, <2>1, <2>2 DEF BootFirmware
<1>4. CASE Reset
  BY <1>4 DEF Reset, Secret!Next
<1>5. CASE PowerFailure
  <2>1. CASE Secret!PowerFailure
    BY <2>1 DEF Secret!Next
  <2>2. CASE Flash!PowerFailure /\ UNCHANGED <<uicr, sealWord>> /\ Secret!StartUp
    <3>1. secretPc = "idle"
      BY <2>2 DEF Flash!PowerFailure, IInv, Meet
    <3>2. Secret!Reset
      BY <2>2, <3>1 DEF Secret!Reset, Secret!uicrVars
    <3> QED
      BY <3>2 DEF Secret!Next
  <2> QED
    BY <1>5, <2>1, <2>2 DEF PowerFailure
<1> QED
  BY <1>1, <1>2, <1>3, <1>4, <1>5 DEF Next

(* To the secret, the bootloader with its updates, boots and failures is   *)
(* a SecretStore.                                                          *)
THEOREM SecretRefined == Spec => Secret!Spec
<1>1. Init => Secret!Init
  BY DEF Init
<1> QED
  BY <1>1, SecretStep, Invariance, PTL DEF Spec, Secret!Spec

(* The power fails while the secret is being written: the application area *)
(* is at rest, and for it this is a reset.                                 *)
LEMMA FlashStep == IInv /\ [Next]_vars => [Flash!Next]_(Flash!vars)
<1> SUFFICES ASSUME IInv, [Next]_vars
             PROVE  [Flash!Next]_(Flash!vars)
  OBVIOUS
<1>1. CASE SecretRequest \/ Wipe \/ ApplicationChallenge \/ UNCHANGED vars
  <2>1. UNCHANGED flashVars
    BY <1>1 DEF SecretRequest, Wipe, ApplicationChallenge, vars
  <2> QED
    BY <2>1 DEF flashVars, Flash!vars, Flash!ramVars, Flash!bootVars, Flash!history
<1>2. CASE FlashRequest
  BY <1>2 DEF FlashRequest, Flash!Next
<1>3. ASSUME NEW trust \in Trusts, BootFirmware(trust)
      PROVE  [Flash!Next]_(Flash!vars)
  BY <1>3 DEF BootFirmware, Trusts, Flash!Next
<1>4. CASE ApplicationWrites
  BY <1>4 DEF ApplicationWrites, Flash!Next
<1>5. CASE Reset
  BY <1>5 DEF Reset, Flash!Next
<1>6. CASE PowerFailure
  <2>1. CASE Flash!PowerFailure
    BY <2>1 DEF Flash!Next
  <2>2. CASE Secret!PowerFailure /\ UNCHANGED <<flash, interrupted>> /\ Flash!StartUp
    <3>1. secretPc \in {"write", "seal"}
      BY <2>2 DEF Secret!PowerFailure
    <3>2. flashPc \in {"idle", "app"}
      BY <3>1 DEF IInv, Meet, FlashPcs
    <3>3. Flash!Reset
      BY <2>2, <3>2 DEF Flash!Reset
    <3> QED
      BY <3>3 DEF Flash!Next
  <2> QED
    BY <1>6, <2>1, <2>2 DEF PowerFailure
<1> QED
  BY <1>1, <1>2, <1>3, <1>4, <1>5, <1>6 DEF Next

(* To the application area, the bootloader with its secret is a            *)
(* FirmwareFlash: what FirmwareFlashProofs proves of the area, the         *)
(* SoftDevice and the bootloader's own words holds of the whole program.   *)
THEOREM FlashRefined == Spec => Flash!Spec
<1>1. Init => Flash!Init
  BY DEF Init
<1> QED
  BY <1>1, FlashStep, Invariance, PTL DEF Spec, Flash!Spec

(* FirmwareFlashProofs speaks of its own instance too.                     *)
LEMMA SameFlashInit == Flash!Init => FlashProofs!Init
BY DEF Flash!Init, FlashProofs!Init, Flash!FlashProtectMbrBootloader,
       FlashProofs!FlashProtectMbrBootloader, Flash!Mbr, FlashProofs!Mbr,
       Flash!BootloaderArea, FlashProofs!BootloaderArea

LEMMA SameFlashNext == [Flash!Next]_(Flash!vars) => [FlashProofs!Next]_(FlashProofs!vars)
BY DEF Flash!Next, FlashProofs!Next, Flash!vars, FlashProofs!vars,
       Flash!ramVars, FlashProofs!ramVars, Flash!bootVars,
       FlashProofs!bootVars, Flash!history, FlashProofs!history, Flash!Erase,
       FlashProofs!Erase, Flash!Write, FlashProofs!Write,
       Flash!EraseFirmware, FlashProofs!EraseFirmware, Flash!ErasePage,
       FlashProofs!ErasePage, Flash!EraseDone, FlashProofs!EraseDone,
       Flash!RestoreWord, FlashProofs!RestoreWord, Flash!RestoreDone,
       FlashProofs!RestoreDone, Flash!WriteFirmwareBlock,
       FlashProofs!WriteFirmwareBlock, Flash!ProgramWord,
       FlashProofs!ProgramWord, Flash!ProgramFault, FlashProofs!ProgramFault,
       Flash!ProgramDone, FlashProofs!ProgramDone, Flash!BootFirmware,
       FlashProofs!BootFirmware, Flash!HasHeader, FlashProofs!HasHeader,
       Flash!Verifies, FlashProofs!Verifies, Flash!IsStored,
       FlashProofs!IsStored, Flash!JumpToApp, FlashProofs!JumpToApp,
       Flash!ApplicationWrites, FlashProofs!ApplicationWrites, Flash!Other,
       FlashProofs!Other, Flash!Reset, FlashProofs!Reset, Flash!PowerFailure,
       FlashProofs!PowerFailure, Flash!StartUp, FlashProofs!StartUp,
       Flash!Torn, FlashProofs!Torn, Flash!Page, FlashProofs!Page, Flash!Mbr,
       FlashProofs!Mbr, Flash!BootloaderArea, FlashProofs!BootloaderArea,
       Flash!Addresses, FlashProofs!Addresses, Flash!Erased,
       FlashProofs!Erased, Flash!EraseStart, FlashProofs!EraseStart,
       Flash!FlashProtectMbrBootloader,
       FlashProofs!FlashProtectMbrBootloader,
       Flash!FlashProtectSdApplication, FlashProofs!FlashProtectSdApplication

(* What FirmwareFlashProofs proves of the application area holds of the    *)
(* whole bootloader, whatever becomes of the secret in between.            *)
THEOREM FlashCorrect ==
    Spec => [](/\ Flash!SoftdeviceIsIntact
               /\ Flash!BootloaderIsIntact
               /\ Flash!AreaHoldsAcknowledged
               /\ Flash!BootsWhatWasSent
               /\ Flash!RunsWhatWasVerified)
<1>1. Spec => FlashProofs!Spec
  BY FlashRefined, SameFlashInit, SameFlashNext, PTL DEF Flash!Spec, FlashProofs!Spec
<1>2. FlashProofs!Spec => []FlashProofs!IInv
  BY FlashAssumption, FlashProofs!Invariance DEF FlashAssumption, FlashProofs!Addresses
<1>3. FlashProofs!IInv => FlashProofs!AreaHoldsAcknowledged
  BY DEF FlashProofs!IInv, FlashProofs!AreaHolds, FlashProofs!Holds,
         FlashProofs!AreaHoldsAcknowledged
<1>4. FlashProofs!IInv => /\ Flash!SoftdeviceIsIntact
                          /\ Flash!BootloaderIsIntact
                          /\ Flash!AreaHoldsAcknowledged
                          /\ Flash!BootsWhatWasSent
                          /\ Flash!RunsWhatWasVerified
  BY <1>3
     DEF FlashProofs!IInv, Flash!SoftdeviceIsIntact, FlashProofs!SoftdeviceIsIntact,
         Flash!BootloaderIsIntact, FlashProofs!BootloaderIsIntact,
         Flash!AreaHoldsAcknowledged, FlashProofs!AreaHoldsAcknowledged,
         Flash!BootsWhatWasSent, FlashProofs!BootsWhatWasSent,
         Flash!RunsWhatWasVerified, FlashProofs!RunsWhatWasVerified,
         Flash!SoftdeviceTail, FlashProofs!SoftdeviceTail, Flash!Mbr,
         FlashProofs!Mbr, Flash!BootloaderArea, FlashProofs!BootloaderArea,
         Flash!AppArea, FlashProofs!AppArea, Flash!Erased,
         FlashProofs!Erased, Flash!EraseStart, FlashProofs!EraseStart,
         Flash!Verifies, FlashProofs!Verifies, Flash!IsStored,
         FlashProofs!IsStored
<1> QED
  BY <1>1, <1>2, <1>4, PTL

(* SecretStoreProofs speaks of its own instance of SecretStore, which is   *)
(* the same.                                                               *)
LEMMA SameInit == Secret!Init => SecretProofs!Init
BY DEF Secret!Init, SecretProofs!Init, Secret!AllOnes, SecretProofs!AllOnes,
       Secret!Blank, SecretProofs!Blank, Secret!NoJob, SecretProofs!NoJob,
       Secret!AllZero, SecretProofs!AllZero, Secret!Words, SecretProofs!Words,
       Secret!SealBits, SecretProofs!SealBits,
       Secret!SEALED_WIPED, SecretProofs!SEALED_WIPED

LEMMA SameNext ==
    [Secret!Next]_(Secret!vars) => [SecretProofs!Next]_(SecretProofs!vars)
BY DEF Secret!Next, SecretProofs!Next, Secret!vars, SecretProofs!vars,
       Secret!uicrVars, SecretProofs!uicrVars, Secret!jobVars,
       SecretProofs!jobVars, Secret!history, SecretProofs!history,
       Secret!WriteWord, SecretProofs!WriteWord, Secret!ReadBack,
       SecretProofs!ReadBack, Secret!WriteSeal, SecretProofs!WriteSeal,
       Secret!ChallengeSet, SecretProofs!ChallengeSet, Secret!BootFirmware,
       SecretProofs!BootFirmware, Secret!ChallengeRequest,
       SecretProofs!ChallengeRequest, Secret!Reset, SecretProofs!Reset,
       Secret!PowerFailure, SecretProofs!PowerFailure, Secret!StartUp,
       SecretProofs!StartUp, Secret!CallWriteSecret,
       SecretProofs!CallWriteSecret, Secret!Torn, SecretProofs!Torn,
       Secret!Words, SecretProofs!Words, Secret!AllZero, SecretProofs!AllZero,
       Secret!AllOnes, SecretProofs!AllOnes, Secret!NoJob, SecretProofs!NoJob,
       Secret!Blank, SecretProofs!Blank, Secret!SealBits,
       SecretProofs!SealBits, Secret!SEALED_SECRET,
       SecretProofs!SEALED_SECRET, Secret!SEALED_WIPED,
       SecretProofs!SEALED_WIPED, Secret!Hmac, SecretProofs!Hmac,
       Secret!NoHmac, SecretProofs!NoHmac

LEMMA SecretSpec == Spec => SecretProofs!Spec
BY SecretRefined, SameInit, SameNext, PTL DEF Secret!Spec, SecretProofs!Spec

LEMMA SecretInvariant == Spec => []SecretProofs!IInv
<1>1. SecretProofs!Spec => []SecretProofs!IInv
  BY SecretAssumption, SecretProofs!Invariance
     DEF SecretAssumption, SecretProofs!Words
<1> QED
  BY <1>1, SecretSpec, PTL

(* What SecretStoreProofs proves of the secret holds of the whole          *)
(* bootloader, whatever becomes of the flash in between: what the copy of  *)
(* the seal and an answer to a challenge promise, that developer firmware  *)
(* runs without a seal, that what failed may be tried again, and the life  *)
(* of the secret from blank to wiped.                                      *)
THEOREM SecretCorrect ==
    Spec => /\ [](/\ SecretProofs!SealCopyAgrees
                  /\ SecretProofs!SealedAnswerHolds
                  /\ SecretProofs!DeveloperIsUnsealed
                  /\ SecretProofs!RetryCanSucceed)
            /\ SecretProofs!LifecycleSpec
<1>1. /\ SecretProofs!Spec => []SecretProofs!SealCopyAgrees
      /\ SecretProofs!Spec => []SecretProofs!SealedAnswerHolds
      /\ SecretProofs!Spec => []SecretProofs!DeveloperIsUnsealed
      /\ SecretProofs!Spec => []SecretProofs!RetryCanSucceed
      /\ SecretProofs!Spec => SecretProofs!LifecycleSpec
  BY SecretAssumption, SecretProofs!CopyCorrect, SecretProofs!AnswerCorrect,
     SecretProofs!DeveloperCorrect, SecretProofs!RetryCorrect,
     SecretProofs!FollowsLifecycle
     DEF SecretAssumption, SecretProofs!Words
<1> QED
  BY <1>1, SecretSpec, PTL

-----------------------------------------------------------------------------
(* Firmware without full trust never runs where the seal is in place: it   *)
(* cannot answer a challenge as fully trusted firmware does.               *)
THEOREM OnlyTrustedCorrect == Spec => []OnlyTrustedHoldsSecret
<1>1. IInv /\ SecretProofs!IInv => OnlyTrustedHoldsSecret
  <2> SUFFICES ASSUME IInv, SecretProofs!IInv, AppRuns, ~Debug,
                      sealWord = Secret!SEALED_SECRET
               PROVE  FullyTrusted
    BY DEF OnlyTrustedHoldsSecret
  <2>1. flashRunning = "Full" /\ Flash!Verifies(flashRunning)
    BY DEF AppRuns, IInv, Meet, Trusts, SecretProofs!IInv,
           SecretProofs!Machine, SecretProofs!DeveloperIsUnsealed,
           Secret!SEALED_SECRET, SecretProofs!SEALED_SECRET
  <2> QED
    BY <2>1 DEF Flash!Verifies, FullyTrusted
<1> QED
  BY <1>1, Invariance, SecretInvariant, PTL

(* Words of the UICR change only while the secret is being written.        *)
LEMMA OnlyWritingChanges ==
    ASSUME [Next]_vars, <<uicr, sealWord>>' # <<uicr, sealWord>>
    PROVE  secretPc \in {"write", "seal"}
<1> USE DEF Secret!uicrVars
<1>1. CASE FlashRequest \/ ApplicationWrites \/ UNCHANGED vars
  BY <1>1 DEF FlashRequest, ApplicationWrites, vars, secretVars
<1>2. CASE SecretRequest \/ Wipe \/ ApplicationChallenge
  BY <1>2 DEF SecretRequest, Wipe, ApplicationChallenge, Secret!ChallengeSet,
              Secret!WriteWord, Secret!ReadBack, Secret!WriteSeal,
              Secret!ChallengeRequest
<1>3. ASSUME NEW trust \in Trusts, BootFirmware(trust)
      PROVE  FALSE
  BY <1>3 DEF BootFirmware, Secret!BootFirmware, secretVars
<1>4. CASE Reset
  BY <1>4 DEF Reset, Secret!Reset
<1>5. CASE PowerFailure
  BY <1>5 DEF PowerFailure, Secret!PowerFailure
<1> QED
  BY <1>1, <1>2, <1>3, <1>4, <1>5 DEF Next

(* The secret goes only for an image that has verified, in the wipe before *)
(* the jump to it: a refused boot, an update and a failure of power in     *)
(* either leave it alone.                                                  *)
THEOREM SecretKept == Spec => SecretIsKept
<1>1. ASSUME IInv, SecretProofs!IInv, [Next]_vars,
             sealWord = Secret!SEALED_SECRET,
             <<uicr, sealWord>>' # <<uicr, sealWord>>
      PROVE  flashPc = "app" /\ Flash!Verifies("Developer")
  <2>1. secretPc \in {"write", "seal"}
    BY <1>1, OnlyWritingChanges
  <2>2. job.seal # Secret!SEALED_SECRET
    BY <1>1, <2>1
       DEF SecretProofs!IInv, SecretProofs!Machine, SecretProofs!JobIsWhole,
           SecretProofs!Provisioning, SecretProofs!Writing,
           Secret!SEALED_SECRET, SecretProofs!SEALED_SECRET
  <2>3. flashPc = "app" /\ flashRunning = "Developer"
    BY <1>1, <2>1, <2>2 DEF IInv, Meet
  <2> QED
    BY <1>1, <2>1, <2>3 DEF IInv, Meet
<1>2. IInv /\ SecretProofs!IInv /\ [Next]_vars =>
        [sealWord = Secret!SEALED_SECRET
         /\ <<uicr, sealWord>>' # <<uicr, sealWord>>
            => flashPc = "app" /\ Flash!Verifies("Developer")]_vars
  BY <1>1
<1> QED
  BY <1>2, Invariance, SecretInvariant, PTL DEF Spec, SecretIsKept
=============================================================================
