---------------------------- MODULE FirmwareFlash ----------------------------
(***************************************************************************)
(* The application area as the bootloader rewrites it                      *)
(* (bootloader/src/main.rs): EraseFirmware, which erases whole pages and   *)
(* puts back the tail of the SoftDevice that shares the first of them,     *)
(* WriteFirmwareBlock, which appends at an offset kept in RAM, and         *)
(* BootFirmware, which runs what verifies (bootloader/src/verify.rs).      *)
(*                                                                         *)
(* Flash is an array of words; the addresses are those of the code,        *)
(* counted in words.  A word is the set of its bits that are 1: erasing a  *)
(* page fills its words, programming w leaves the bits that were set and   *)
(* are set in w.  The power may fail during any of these.                  *)
(***************************************************************************)
EXTENDS Integers, Sequences

CONSTANTS
    FLASH_PAGE,             \* words in a page
    BASE_APP_ADDR,
    BASE_BOOTLOADER_ADDR,
    FLASH_SIZE,
    CellBits,               \* bits of a word
    Factory,                \* what flash holds when it leaves the factory
    Blocks,                 \* data of the blocks the host may send
    Images,                 \* signed images: [words |-> .., trust |-> ..]
    Debug                   \* feature "debug": no flash protection

Addresses == 0..(FLASH_SIZE - 1)

ASSUME GeometryAssumption ==
    /\ FLASH_PAGE \in Nat \ {0}
    /\ BASE_APP_ADDR \in Nat
    /\ BASE_BOOTLOADER_ADDR \in Nat
    /\ FLASH_SIZE \in Nat
    /\ FLASH_PAGE <= BASE_APP_ADDR
    /\ BASE_APP_ADDR < BASE_BOOTLOADER_ADDR
    /\ BASE_BOOTLOADER_ADDR <= FLASH_SIZE
    /\ BASE_BOOTLOADER_ADDR % FLASH_PAGE = 0
ASSUME ContentsAssumption ==
    /\ Factory \in [Addresses -> SUBSET CellBits]
    /\ Blocks \subseteq Seq(SUBSET CellBits)
    /\ \A image \in Images :
        /\ image.words \in Seq(SUBSET CellBits) \ {<<>>}
        /\ image.trust \in {"Full", "Developer"}
ASSUME DebugAssumption == Debug \in BOOLEAN

VARIABLES
    flash,       \* the flash, by address
    offset,      \* boot_status.offset
    pc,          \* where the bootloader is, "app" or "fault"
    cursor,      \* the address the flash operation has come to
    saved,       \* the SoftDevice words EraseFirmware has to put back
    todo,        \* the words of the block still to be programmed
    resp,        \* the answer to the last request
    running,     \* the trust the application was booted with
    bprot,       \* the addresses the BPROT unit protects until a reset
    acked,       \* history: words acknowledged since the area was erased
    clean,       \* history: the area was erased since the last start-up
    interrupted  \* history: the power failed before the tail was back

ramVars == <<offset, cursor, saved, todo>>
history == <<acked, clean, interrupted>>
bootVars == <<running, bprot>>
vars    == <<flash, ramVars, pc, resp, bootVars, history>>

Erased == CellBits

(* BASE_APP_ADDR / FLASH_PAGE * FLASH_PAGE                                 *)
EraseStart == (BASE_APP_ADDR \div FLASH_PAGE) * FLASH_PAGE

SoftdeviceTail == EraseStart..(BASE_APP_ADDR - 1)
AppArea == BASE_APP_ADDR..(BASE_BOOTLOADER_ADDR - 1)
BootloaderArea == BASE_BOOTLOADER_ADDR..(FLASH_SIZE - 1)

Page(start) == start..(start + FLASH_PAGE - 1)

(* The first page, the MBR's, which neither the SoftDevice nor the         *)
(* application shares.                                                     *)
Mbr == 0..(FLASH_PAGE - 1)

(* Mutant: region39, the first of the bootloader's, is not in the list.    *)
FlashProtectMbrBootloaderLate ==
    IF Debug THEN {} ELSE Mbr \cup {a \in BootloaderArea : a >= BASE_BOOTLOADER_ADDR + FLASH_PAGE}

(* flash_protect_mbr_bootloader(): region 0 and the regions from           *)
(* BASE_BOOTLOADER_ADDR on.                                                *)
FlashProtectMbrBootloader ==
    IF Debug THEN {} ELSE Mbr \cup BootloaderArea

(* Mutant: region38, the last of the application's, is not in the list.    *)
FlashProtectSdApplicationShort ==
    IF Debug THEN {} ELSE FLASH_PAGE..(BASE_BOOTLOADER_ADDR - FLASH_PAGE - 1)

(* flash_protect_sd_application(): the regions in between.                 *)
FlashProtectSdApplication ==
    IF Debug THEN {} ELSE FLASH_PAGE..(BASE_BOOTLOADER_ADDR - 1)

Torn(old, new) == {w \in SUBSET old : old \cap new \subseteq w}

-----------------------------------------------------------------------------
Init ==
    /\ flash = Factory
    /\ offset = 0
    /\ pc = "idle"
    /\ cursor = 0
    /\ saved = <<>>
    /\ todo = <<>>
    /\ resp = "none"
    /\ running = "none"
    /\ bprot = FlashProtectMbrBootloader
    /\ acked = <<>>
    /\ clean = FALSE
    /\ interrupted = FALSE

-----------------------------------------------------------------------------
(* Mutant: the last of the shared words is not saved.                      *)
EraseFirmwareSavesLess ==
    /\ pc = "idle"
    /\ saved' = [i \in 1..(BASE_APP_ADDR - EraseStart - 1) |->
                    flash[EraseStart + i - 1]]
    /\ cursor' = EraseStart
    /\ pc' = "erase"
    /\ UNCHANGED <<flash, offset, todo, resp, bootVars, history>>

(* EraseFirmware: the words of the first page that belong to the           *)
(* SoftDevice are read into RAM, then the pages are erased one by one.     *)
(* (The addresses are constants that the flash driver accepts, so that     *)
(* none of the three negative answers can be given.)                       *)
EraseFirmware ==
    /\ pc = "idle"
    /\ saved' = [i \in 1..(BASE_APP_ADDR - EraseStart) |->
                    flash[EraseStart + i - 1]]
    /\ cursor' = EraseStart
    /\ pc' = "erase"
    /\ UNCHANGED <<flash, offset, todo, resp, bootVars, history>>

(* Mutant: the end of the range is not looked at.                          *)
ErasePageUnbounded ==
    /\ pc = "erase"
    /\ flash' = [a \in Addresses |->
                    IF a \in Page(cursor) THEN Erased ELSE flash[a]]
    /\ cursor' = cursor + FLASH_PAGE
    /\ UNCHANGED <<offset, pc, saved, todo, resp, bootVars, history>>

ErasePage ==
    /\ pc = "erase"
    /\ cursor < BASE_BOOTLOADER_ADDR
    /\ flash' = [a \in Addresses |->
                    IF a \in Page(cursor) THEN Erased ELSE flash[a]]
    /\ cursor' = cursor + FLASH_PAGE
    /\ UNCHANGED <<offset, pc, saved, todo, resp, bootVars, history>>

(* Mutant: the offset of an earlier update is kept.                        *)
EraseDoneKeepsOffset ==
    /\ pc = "erase"
    /\ cursor >= BASE_BOOTLOADER_ADDR
    /\ cursor' = EraseStart
    /\ pc' = "restore"
    /\ acked' = <<>>
    /\ clean' = TRUE
    /\ UNCHANGED <<flash, offset, saved, todo, resp, bootVars, interrupted>>

(* boot_status.reset(), and on to the words that were saved.               *)
EraseDone ==
    /\ pc = "erase"
    /\ cursor >= BASE_BOOTLOADER_ADDR
    /\ offset' = 0
    /\ cursor' = EraseStart
    /\ pc' = "restore"
    /\ acked' = <<>>
    /\ clean' = TRUE
    /\ UNCHANGED <<flash, saved, todo, resp, bootVars, interrupted>>

RestoreWord ==
    /\ pc = "restore"
    /\ saved # <<>>
    /\ flash' = [flash EXCEPT ![cursor] = @ \cap Head(saved)]
    /\ cursor' = cursor + 1
    /\ saved' = Tail(saved)
    /\ UNCHANGED <<offset, pc, todo, resp, bootVars, history>>

RestoreDone ==
    /\ pc = "restore"
    /\ saved = <<>>
    /\ pc' = "idle"
    /\ resp' = "AckEraseFirmware"
    /\ UNCHANGED <<flash, ramVars, bootVars, history>>

-----------------------------------------------------------------------------
(* WriteFirmwareBlock: the range check looks at the first address only,    *)
(* and admits BASE_BOOTLOADER_ADDR itself.  The flash driver refuses data  *)
(* that is not whole words or goes past the end of flash; then nothing is  *)
(* written and the offset stays.                                           *)
WriteFirmwareBlock(data, wholeWords) ==
    LET start == BASE_APP_ADDR + offset
        inRange == start \in BASE_APP_ADDR..BASE_BOOTLOADER_ADDR
        accepted == wholeWords /\ start + Len(data) <= FLASH_SIZE
    IN  /\ pc = "idle"
        /\ \/ /\ ~inRange
              /\ resp' = "FirmwareOutOfBounds"
              /\ UNCHANGED <<pc, cursor, todo>>
           \/ /\ inRange /\ ~accepted
              /\ resp' = "NackWithIdx"
              /\ UNCHANGED <<pc, cursor, todo>>
           \/ /\ inRange /\ accepted
              /\ pc' = "program"
              /\ cursor' = start
              /\ todo' = data
              /\ UNCHANGED resp
        /\ UNCHANGED <<flash, offset, saved, bootVars, history>>

ProgramWord ==
    /\ pc = "program"
    /\ todo # <<>>
    /\ cursor \notin bprot
    /\ flash' = [flash EXCEPT ![cursor] = @ \cap Head(todo)]
    /\ cursor' = cursor + 1
    /\ todo' = Tail(todo)
    /\ acked' = Append(acked, Head(todo))
    /\ UNCHANGED <<offset, pc, saved, resp, bootVars, clean, interrupted>>

(* A write to a protected page is a fault the bootloader does not handle.  *)
ProgramFault ==
    /\ pc = "program"
    /\ todo # <<>>
    /\ cursor \in bprot
    /\ pc' = "fault"
    /\ UNCHANGED <<flash, ramVars, resp, bootVars, history>>

(* The offset moves on by the length of the data; the answer carries the   *)
(* checksum of the data that was received.                                 *)
ProgramDone ==
    /\ pc = "program"
    /\ todo = <<>>
    /\ offset' = cursor - BASE_APP_ADDR
    /\ pc' = "idle"
    /\ resp' = "AckWithIdxCrc"
    /\ UNCHANGED <<flash, cursor, saved, todo, bootVars, history>>

-----------------------------------------------------------------------------
(* verify_fw_image: an image is there if the area starts with its header,  *)
(* it verifies if all of it is, and developer images need that trust.      *)

(* Mutant: the last word is not hashed.                                    *)
IsStoredButLast(words) ==
    /\ Len(words) <= BASE_BOOTLOADER_ADDR - BASE_APP_ADDR
    /\ \A i \in 1..(Len(words) - 1) : flash[BASE_APP_ADDR + i - 1] = words[i]

IsStored(words) ==
    /\ Len(words) <= BASE_BOOTLOADER_ADDR - BASE_APP_ADDR
    /\ \A i \in 1..Len(words) : flash[BASE_APP_ADDR + i - 1] = words[i]

HasHeader == \E image \in Images : flash[BASE_APP_ADDR] = Head(image.words)

Verifies(trust) ==
    \E image \in Images :
        IsStored(image.words) /\ (image.trust = "Full" \/ trust = "Developer")

(* jump_to_app() runs what the area holds and does not return: the         *)
(* interrupts the bootloader answers requests with are masked first.       *)
JumpToApp(trust) ==
    /\ pc' = "app"
    /\ running' = trust

(* The rest of flash is protected and the answer sent before the jump.     *)
BootFirmware(trust) ==
    /\ pc = "idle"
    /\ \/ /\ ~HasHeader
          /\ resp' = "NoCosignHeader"
          /\ UNCHANGED <<pc, bootVars>>
       \/ /\ HasHeader /\ ~Verifies(trust)
          /\ resp' = "AckVerifyFirmware false"
          /\ UNCHANGED <<pc, bootVars>>
       \/ /\ HasHeader /\ Verifies(trust)
          /\ resp' = "AckVerifyFirmware true"
          /\ bprot' = bprot \cup FlashProtectSdApplication
          /\ JumpToApp(trust)
    /\ UNCHANGED <<flash, ramVars, history>>

(* The application erases or programs a word, by mistake (this one's       *)
(* source does neither): what the protection is there for.                 *)
ApplicationWrites(addr, word) ==
    /\ pc = "app"
    /\ IF addr \in bprot
       THEN pc' = "fault" /\ UNCHANGED flash
       ELSE /\ flash' = [a \in Addresses |->
                            IF a = addr THEN word ELSE flash[a]]
            /\ UNCHANGED pc
    /\ UNCHANGED <<ramVars, resp, bootVars, history>>

(* FirmwareVersion, BootloaderVersion, GetState, and what is refused or    *)
(* does not decode.                                                        *)
Other ==
    /\ pc = "idle"
    /\ resp' = "Answer"
    /\ UNCHANGED <<flash, ramVars, pc, bootVars, history>>

-----------------------------------------------------------------------------
(* main(), from its first statement on.                                    *)
StartUp ==
    /\ offset' = 0
    /\ pc' = "idle"
    /\ cursor' = 0
    /\ saved' = <<>>
    /\ todo' = <<>>
    /\ resp' = "none"
    /\ running' = "none"
    /\ bprot' = FlashProtectMbrBootloader
    /\ acked' = <<>>
    /\ clean' = FALSE

Reset ==
    /\ pc \in {"idle", "app", "fault"}
    /\ StartUp
    /\ UNCHANGED <<flash, interrupted>>

(* The power fails while flash is at work: any of the bits that were to be *)
(* set in the page being erased, or cleared in the word being programmed,  *)
(* may have been.                                                          *)
PowerFailure ==
    /\ \/ /\ pc = "erase" /\ cursor < BASE_BOOTLOADER_ADDR
          /\ \E set \in [Page(cursor) -> SUBSET CellBits] :
                flash' = [a \in Addresses |->
                            IF a \in Page(cursor) THEN flash[a] \cup set[a]
                            ELSE flash[a]]
       \/ /\ pc = "restore" /\ saved # <<>>
          /\ \E w \in Torn(flash[cursor], Head(saved)) :
                flash' = [flash EXCEPT ![cursor] = w]
       \/ /\ pc = "program" /\ todo # <<>> /\ cursor \notin bprot
          /\ \E w \in Torn(flash[cursor], Head(todo)) :
                flash' = [flash EXCEPT ![cursor] = w]
    /\ interrupted' = (interrupted \/ pc \in {"erase", "restore"})
    /\ StartUp

-----------------------------------------------------------------------------
Erase == EraseFirmware \/ ErasePage \/ EraseDone \/ RestoreWord \/ RestoreDone

Write ==
    \/ \E data \in Blocks, wholeWords \in BOOLEAN :
            WriteFirmwareBlock(data, wholeWords)
    \/ ProgramWord \/ ProgramFault \/ ProgramDone

Next ==
    \/ Erase
    \/ Write
    \/ \E trust \in {"Full", "Developer"} : BootFirmware(trust)
    \/ Other
    \/ \E addr \in Addresses, word \in SUBSET CellBits :
            ApplicationWrites(addr, word)
    \/ Reset
    \/ PowerFailure

Spec == Init /\ [][Next]_vars

-----------------------------------------------------------------------------
(* Every variable has its type.                                            *)
TypeOK ==
    /\ flash \in [Addresses -> SUBSET CellBits]
    /\ offset \in 0..FLASH_SIZE
    /\ pc \in {"idle", "erase", "restore", "program", "app", "fault"}
    /\ cursor \in Addresses \cup {FLASH_SIZE}
    /\ saved \in Seq(SUBSET CellBits)
    /\ todo \in Seq(SUBSET CellBits)
    /\ resp \in {"none", "AckEraseFirmware", "FirmwareOutOfBounds",
                 "NackWithIdx", "AckWithIdxCrc", "NoCosignHeader",
                 "AckVerifyFirmware false", "AckVerifyFirmware true",
                 "Answer"}
    /\ running \in {"none", "Full", "Developer"}
    /\ bprot \subseteq Addresses
    /\ acked \in Seq(SUBSET CellBits)
    /\ clean \in BOOLEAN
    /\ interrupted \in BOOLEAN

(* EraseFirmware erases a page it does not own whole.  The SoftDevice      *)
(* words in it are back whenever it has been answered, however often it is *)
(* repeated, unless the power failed in between.                           *)
SoftdeviceIsIntact ==
    ~Debug /\ pc \in {"idle", "program", "app", "fault"} /\ ~interrupted
        => \A a \in SoftdeviceTail : flash[a] = Factory[a]

(* With the protection on, no request, no failure and no application       *)
(* changes the MBR and the bootloader, although the range check lets       *)
(* blocks reach it.                                                        *)
BootloaderIsIntact ==
    ~Debug => \A a \in Mbr \cup BootloaderArea : flash[a] = Factory[a]

(* After an erase the area holds exactly what was acknowledged since, in   *)
(* order and without a gap, and is erased behind it.                       *)
AreaHoldsAcknowledged ==
    ~Debug /\ clean /\ pc \in {"idle", "app"}
        => /\ offset = Len(acked)
           /\ \A a \in AppArea :
                 flash[a] = IF a - BASE_APP_ADDR < offset
                            THEN acked[a - BASE_APP_ADDR + 1] ELSE Erased

(* What boots after an update is what the host was acknowledged: a whole   *)
(* image, of sufficient trust, without a word of what was there before.    *)
BootsWhatWasSent ==
    running # "none" /\ clean =>
        \E image \in Images :
            /\ image.trust = "Developer" => running = "Developer"
            /\ \A i \in 1..Len(image.words) :
                image.words[i] = IF i <= Len(acked) THEN acked[i] ELSE Erased

(* What runs is what was verified, all the time it runs: the application   *)
(* cannot make itself into one that would not have been booted, because    *)
(* BootFirmware protects the whole area before the jump.                   *)
RunsWhatWasVerified == ~Debug /\ pc = "app" => Verifies(running)

(* What the code does not keep.                                            *)

(* "Validate write is within application area" (main.rs:296).              *)
WritesStayInAppArea == pc = "program" /\ todo # <<>> => cursor \in AppArea

(* "Boots the application assuming softdevice is present" (jump_app.rs:14).*)
SoftdeviceIsPresent ==
    running # "none" => \A a \in SoftdeviceTail : flash[a] = Factory[a]
=============================================================================
