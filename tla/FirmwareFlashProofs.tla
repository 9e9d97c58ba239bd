------------------------- MODULE FirmwareFlashProofs --------------------------
(***************************************************************************)
(* What the bootloader promises about flash, for every geometry, factory   *)
(* content, set of blocks and set of images.  The properties speak of the  *)
(* moments between requests; the invariant adds what holds while a request *)
(* is under way: how far an erase has come, what of the SoftDevice is in   *)
(* RAM and what is back, and how much of a block is in the area.           *)
(***************************************************************************)
EXTENDS FirmwareFlash, SequenceTheorems, TLAPS

Aligned(a) == \E k \in 0..a : a = k * FLASH_PAGE

IsErased(from, to) == \A a \in from..(to - 1) : flash[a] = Erased

(* Where the flash operation is.  An erase goes from page to page and ends *)
(* with the one below the bootloader; the words that are put back count    *)
(* down to the application; a block lies behind the area's first address   *)
(* and within flash.                                                       *)
Places ==
    /\ pc = "erase" => /\ Aligned(cursor)
                       /\ cursor \in EraseStart..BASE_BOOTLOADER_ADDR
                       /\ Len(saved) = BASE_APP_ADDR - EraseStart
    /\ pc = "restore" => /\ Len(saved) <= BASE_APP_ADDR - EraseStart
                         /\ cursor = BASE_APP_ADDR - Len(saved)
    /\ pc = "program" => /\ cursor >= BASE_APP_ADDR
                         /\ cursor + Len(todo) <= FLASH_SIZE

(* What is erased stays so until words are put there.                      *)
ErasedSoFar ==
    /\ pc = "erase" => IsErased(EraseStart, cursor)
    /\ pc = "restore" => IsErased(cursor, BASE_BOOTLOADER_ADDR)

(* The MBR and the bootloader are protected from the first statement on,   *)
(* everything once the application runs.                                   *)
Protected ==
    ~Debug => /\ Mbr \cup BootloaderArea \subseteq bprot
              /\ pc = "app" => Addresses \subseteq bprot

(* Every word of the SoftDevice that is not where it belongs is in RAM.    *)
TailIsSomewhere ==
    ~Debug /\ ~interrupted =>
        /\ pc = "erase" => \A a \in SoftdeviceTail :
                saved[a - EraseStart + 1] = Factory[a]
        /\ pc = "restore" => \A a \in SoftdeviceTail :
                IF a < cursor THEN flash[a] = Factory[a]
                ELSE saved[a - cursor + 1] = Factory[a]

(* The area holds the acknowledged words and is erased behind them, also   *)
(* in the middle of a block; while the tail is put back there are none.    *)
Holds(words) ==
    \A a \in AppArea :
        flash[a] = IF a - BASE_APP_ADDR < Len(words)
                   THEN words[a - BASE_APP_ADDR + 1] ELSE Erased

AreaHolds ==
    /\ pc = "restore" => offset = 0 /\ acked = <<>>
    /\ clean /\ pc = "idle" => offset = Len(acked) /\ Holds(acked)
    /\ clean /\ pc = "program" => /\ cursor = BASE_APP_ADDR + Len(acked)
                                  /\ Holds(acked)
    /\ clean /\ pc = "app" /\ ~Debug => offset = Len(acked) /\ Holds(acked)

(* An image runs only after a boot, until the next start.                  *)
RunsAfterBoot ==
    /\ running # "none" => pc \in {"app", "fault"}
    /\ pc = "app" => running \in {"Full", "Developer"}

IInv ==
    /\ TypeOK
    /\ Places
    /\ ErasedSoFar
    /\ Protected
    /\ BootloaderIsIntact
    /\ SoftdeviceIsIntact
    /\ TailIsSomewhere
    /\ AreaHolds
    /\ RunsAfterBoot
    /\ BootsWhatWasSent
    /\ RunsWhatWasVerified

-----------------------------------------------------------------------------
(* The geometry.                                                           *)

LEMMA PageArithmetic ==
    ASSUME NEW a \in Nat, NEW page \in Nat \ {0}
    PROVE  /\ a \div page \in Nat
           /\ (a \div page) * page <= a
           /\ a < (a \div page) * page + page
           /\ a % page = 0 => a = (a \div page) * page
OBVIOUS

(* The first page that is erased begins above the MBR and holds the first  *)
(* word of the application.                                                *)
LEMMA EraseStartPlace ==
    /\ EraseStart \in Nat
    /\ FLASH_PAGE <= EraseStart
    /\ EraseStart <= BASE_APP_ADDR
    /\ BASE_APP_ADDR < EraseStart + FLASH_PAGE
    /\ EraseStart < BASE_BOOTLOADER_ADDR
    /\ Aligned(EraseStart)
<1> DEFINE k == BASE_APP_ADDR \div FLASH_PAGE
<1> USE GeometryAssumption DEF GeometryAssumption
<1>1. /\ k \in Nat /\ k * FLASH_PAGE <= BASE_APP_ADDR
      /\ BASE_APP_ADDR < k * FLASH_PAGE + FLASH_PAGE
  BY PageArithmetic
<1>2. EraseStart = k * FLASH_PAGE
  BY DEF EraseStart
<1> HIDE DEF k
<1>3. k # 0
  BY <1>1
<1>4. FLASH_PAGE <= k * FLASH_PAGE /\ k <= k * FLASH_PAGE
  BY <1>1, <1>3
<1> QED
  BY <1>1, <1>2, <1>4 DEF Aligned

(* From an aligned address below the bootloader the page ends below it     *)
(* too, and the next one is aligned.                                       *)
LEMMA NextPage ==
    ASSUME NEW a \in Nat, Aligned(a), a < BASE_BOOTLOADER_ADDR
    PROVE  Aligned(a + FLASH_PAGE) /\ a + FLASH_PAGE <= BASE_BOOTLOADER_ADDR
<1> USE GeometryAssumption DEF GeometryAssumption
<1>1. PICK k \in 0..a : a = k * FLASH_PAGE
  BY DEF Aligned
<1> DEFINE q == BASE_BOOTLOADER_ADDR \div FLASH_PAGE
<1>2. q \in Nat /\ BASE_BOOTLOADER_ADDR = q * FLASH_PAGE
  BY PageArithmetic
<1> HIDE DEF q
<1>3. k < q
  <2> SUFFICES ASSUME q <= k
               PROVE  FALSE
    BY <1>2
  <2>1. PICK d \in Nat : k = q + d
    <3>1. k - q \in Nat
      BY <1>2
    <3> QED
      BY <1>2, <3>1
  <2>2. k * FLASH_PAGE = q * FLASH_PAGE + d * FLASH_PAGE /\ d * FLASH_PAGE >= 0
    BY <1>2, <2>1
  <2> QED
    BY <1>1, <1>2, <2>2
<1>4. PICK d \in Nat : q = k + 1 + d
  <2>1. q - k - 1 \in Nat
    BY <1>2, <1>3
  <2> QED
    BY <1>2, <2>1
<1>5. /\ q * FLASH_PAGE = (k + 1) * FLASH_PAGE + d * FLASH_PAGE
      /\ d * FLASH_PAGE >= 0
      /\ (k + 1) * FLASH_PAGE = a + FLASH_PAGE
  BY <1>1, <1>4
<1>6. k + 1 \in 0..(a + FLASH_PAGE)
  BY <1>1
<1>7. Aligned(a + FLASH_PAGE)
  BY <1>5, <1>6 DEF Aligned
<1> QED
  BY <1>1, <1>2, <1>5, <1>7

(* The order of the addresses; the alignment of the bootloader is used in  *)
(* NextPage only.                                                          *)
LEMMA Geometry ==
    /\ FLASH_PAGE \in Nat /\ BASE_APP_ADDR \in Nat /\ BASE_BOOTLOADER_ADDR \in Nat
    /\ FLASH_SIZE \in Nat /\ EraseStart \in Nat
    /\ 0 < FLASH_PAGE
    /\ FLASH_PAGE <= EraseStart
    /\ EraseStart <= BASE_APP_ADDR
    /\ BASE_APP_ADDR < EraseStart + FLASH_PAGE
    /\ BASE_APP_ADDR < BASE_BOOTLOADER_ADDR
    /\ BASE_BOOTLOADER_ADDR <= FLASH_SIZE
BY GeometryAssumption, EraseStartPlace DEF GeometryAssumption

(* Which part of flash an address belongs to.                              *)
LEMMA Regions ==
    /\ SoftdeviceTail = EraseStart..(BASE_APP_ADDR - 1)
    /\ SoftdeviceTail \subseteq Addresses /\ AppArea \subseteq Addresses
    /\ Mbr \cup BootloaderArea \subseteq Addresses
    /\ \A a \in EraseStart..(BASE_BOOTLOADER_ADDR - 1) :
            a \in Addresses /\ a \notin Mbr \cup BootloaderArea
    /\ \A a \in Nat : a >= BASE_APP_ADDR => a \notin SoftdeviceTail \cup Mbr
    /\ ~Debug => /\ FlashProtectMbrBootloader = Mbr \cup BootloaderArea
                 /\ Addresses \subseteq FlashProtectMbrBootloader
                                            \cup FlashProtectSdApplication
    /\ FlashProtectMbrBootloader \subseteq Addresses
    /\ FlashProtectSdApplication \subseteq Addresses
BY Geometry
   DEF SoftdeviceTail, AppArea, BootloaderArea, Mbr, Addresses,
       FlashProtectMbrBootloader, FlashProtectSdApplication

-----------------------------------------------------------------------------
(* Types and places.                                                       *)

(* The numbers among the variables.                                        *)
LEMMA Numbers ==
    ASSUME TypeOK
    PROVE  /\ offset \in 0..FLASH_SIZE /\ cursor \in 0..FLASH_SIZE
           /\ Len(saved) \in Nat /\ (saved # <<>> => Len(saved) > 0)
           /\ Len(todo) \in Nat /\ (todo # <<>> => Len(todo) > 0)
           /\ Len(acked) \in Nat
<1>1. offset \in 0..FLASH_SIZE /\ cursor \in Addresses \cup {FLASH_SIZE}
  BY DEF TypeOK
<1>2. /\ Len(saved) \in Nat /\ (saved # <<>> => Len(saved) \in Nat \ {0})
      /\ Len(todo) \in Nat /\ (todo # <<>> => Len(todo) \in Nat \ {0})
      /\ Len(acked) \in Nat
  BY LenProperties, EmptySeq DEF TypeOK
<1>3. cursor \in 0..FLASH_SIZE
  BY <1>1, Geometry DEF Addresses
<1> QED
  BY <1>1, <1>2, <1>3

(* StartUp sets everything but flash and interrupted.                      *)
LEMMA TypeStartUp ==
    ASSUME StartUp, flash' \in [Addresses -> SUBSET CellBits], interrupted' \in BOOLEAN
    PROVE  TypeOK' /\ Places'
<1>1. <<>> \in Seq(SUBSET CellBits) /\ 0 \in 0..FLASH_SIZE /\ 0 \in Addresses
  BY EmptySeq, Geometry DEF Addresses
<1>2. bprot' \subseteq Addresses
  BY Regions DEF StartUp
<1> QED
  BY <1>1, <1>2 DEF StartUp, TypeOK, Places

LEMMA TypeInit == Init => TypeOK /\ Places
<1> SUFFICES ASSUME Init
             PROVE  TypeOK /\ Places
  OBVIOUS
<1>1. <<>> \in Seq(SUBSET CellBits) /\ 0 \in 0..FLASH_SIZE /\ 0 \in Addresses
  BY EmptySeq, Geometry DEF Addresses
<1>2. bprot \subseteq Addresses
  BY Regions DEF Init
<1> QED
  BY <1>1, <1>2, ContentsAssumption DEF Init, TypeOK, Places, ContentsAssumption

LEMMA EraseTyped ==
    ASSUME TypeOK, Places, Erase
    PROVE  TypeOK' /\ Places'
<1> DEFINE bits == SUBSET CellBits
<1>1. CASE EraseFirmware
  <2> DEFINE n == BASE_APP_ADDR - EraseStart
             tail == [i \in 1..n |-> flash[EraseStart + i - 1]]
  <2>1. n \in Nat /\ \A i \in 1..n : EraseStart + i - 1 \in Addresses
    BY Geometry DEF Addresses
  <2>2. flash \in [Addresses -> bits]
    BY DEF TypeOK
  <2>3. \A i \in 1..n : flash[EraseStart + i - 1] \in bits
    BY <2>1, <2>2
  <2>4. tail \in [1..n -> bits]
    BY <2>3
  <2>5. tail \in Seq(bits)
    BY <2>1, <2>4, SeqDef
  <2>6. Len(tail) = n
    BY <2>1, <2>4, <2>5, LenProperties
  <2>7. EraseStart \in Addresses /\ EraseStart \in EraseStart..BASE_BOOTLOADER_ADDR
    BY Geometry DEF Addresses
  <2>8. /\ saved' = tail /\ cursor' = EraseStart /\ pc' = "erase"
        /\ UNCHANGED <<flash, offset, todo, resp, bootVars, history>>
    BY <1>1 DEF EraseFirmware
  <2> HIDE DEF tail
  <2>9. TypeOK'
    BY <2>5, <2>7, <2>8 DEF TypeOK, bootVars, history
  <2>10. Places'
    BY <2>6, <2>7, <2>8, EraseStartPlace DEF Places
  <2> QED
    BY <2>9, <2>10
<1>2. CASE ErasePage
  <2>1. /\ pc = "erase" /\ cursor < BASE_BOOTLOADER_ADDR /\ Aligned(cursor)
        /\ cursor \in EraseStart..BASE_BOOTLOADER_ADDR
        /\ Len(saved) = BASE_APP_ADDR - EraseStart
        /\ cursor' = cursor + FLASH_PAGE
        /\ UNCHANGED <<offset, pc, saved, todo, resp, bootVars, history>>
    BY <1>2 DEF ErasePage, Places
  <2>2. cursor \in Nat
    BY <2>1, Geometry
  <2>3. Aligned(cursor') /\ cursor' <= BASE_BOOTLOADER_ADDR
    BY <2>1, <2>2, NextPage
  <2>4. /\ cursor' \in EraseStart..BASE_BOOTLOADER_ADDR
        /\ cursor' \in Addresses \cup {FLASH_SIZE}
    BY <2>1, <2>2, <2>3, Geometry DEF Addresses
  <2>5. flash' \in [Addresses -> bits]
    BY <1>2 DEF ErasePage, TypeOK, Erased
  <2>6. TypeOK'
    BY <2>1, <2>4, <2>5 DEF TypeOK, bootVars, history
  <2>7. Places'
    BY <2>1, <2>3, <2>4 DEF Places
  <2> QED
    BY <2>6, <2>7
<1>3. CASE EraseDone
  <2>1. <<>> \in Seq(bits) /\ 0 \in 0..FLASH_SIZE /\ EraseStart \in Addresses
    BY EmptySeq, Geometry DEF Addresses
  <2>2. TypeOK'
    BY <1>3, <2>1 DEF EraseDone, TypeOK, bootVars
  <2>3. /\ pc' = "restore" /\ saved' = saved /\ cursor' = EraseStart
        /\ Len(saved) = BASE_APP_ADDR - EraseStart
    BY <1>3 DEF EraseDone, Places
  <2>4. Places'
    BY <2>3, Geometry DEF Places
  <2> QED
    BY <2>2, <2>4
<1>4. CASE RestoreWord
  <2>1. /\ pc = "restore" /\ saved # <<>> /\ cursor' = cursor + 1 /\ saved' = Tail(saved)
        /\ flash' = [flash EXCEPT ![cursor] = @ \cap Head(saved)]
        /\ Len(saved) <= BASE_APP_ADDR - EraseStart
        /\ cursor = BASE_APP_ADDR - Len(saved)
        /\ UNCHANGED <<offset, pc, todo, resp, bootVars, history>>
    BY <1>4 DEF RestoreWord, Places
  <2>2. saved \in Seq(bits) /\ flash \in [Addresses -> bits]
    BY DEF TypeOK
  <2>3. /\ Head(saved) \in bits /\ saved' \in Seq(bits)
        /\ Len(saved') = Len(saved) - 1 /\ Len(saved) \in Nat /\ Len(saved) > 0
    BY <2>1, <2>2, Numbers, HeadTailProperties
  <2>4. /\ cursor \in Addresses /\ cursor' \in Addresses
        /\ Len(saved') <= BASE_APP_ADDR - EraseStart
        /\ cursor' = BASE_APP_ADDR - Len(saved')
    BY <2>1, <2>3, Geometry DEF Addresses
  <2>5. flash' \in [Addresses -> bits]
    BY <2>1, <2>2, <2>3, <2>4
  <2>6. TypeOK'
    BY <2>1, <2>3, <2>4, <2>5 DEF TypeOK, bootVars, history
  <2>7. Places'
    BY <2>1, <2>4 DEF Places
  <2> QED
    BY <2>6, <2>7
<1>5. CASE RestoreDone
  BY <1>5 DEF RestoreDone, TypeOK, Places, ramVars, bootVars, history
<1> QED
  BY <1>1, <1>2, <1>3, <1>4, <1>5 DEF Erase

LEMMA WriteTyped ==
    ASSUME TypeOK, Places, Write
    PROVE  TypeOK' /\ Places'
<1> DEFINE bits == SUBSET CellBits
<1>1. ASSUME NEW data \in Blocks, NEW wholeWords \in BOOLEAN,
             WriteFirmwareBlock(data, wholeWords)
      PROVE  TypeOK' /\ Places'
  <2>1. data \in Seq(bits) /\ Len(data) \in Nat
    BY ContentsAssumption, LenProperties DEF ContentsAssumption
  <2>2. CASE pc' = "program"
    <3>1. /\ cursor' = BASE_APP_ADDR + offset /\ todo' = data
          /\ BASE_APP_ADDR + offset + Len(data) <= FLASH_SIZE
          /\ UNCHANGED <<flash, offset, saved, resp, bootVars, history>>
      BY <1>1, <2>2 DEF WriteFirmwareBlock
    <3>2. cursor' \in Addresses \cup {FLASH_SIZE} /\ cursor' >= BASE_APP_ADDR
      BY <2>1, <3>1, Numbers, Geometry DEF Addresses
    <3>3. TypeOK'
      BY <2>1, <2>2, <3>1, <3>2 DEF TypeOK, bootVars, history
    <3>4. Places'
      BY <2>2, <3>1, <3>2 DEF Places
    <3> QED
      BY <3>3, <3>4
  <2>3. CASE pc' # "program"
    <3>1. /\ resp' \in {"FirmwareOutOfBounds", "NackWithIdx"} /\ pc = "idle"
          /\ UNCHANGED <<pc, cursor, todo, flash, offset, saved, bootVars, history>>
      BY <1>1, <2>3 DEF WriteFirmwareBlock
    <3> QED
      BY <3>1 DEF TypeOK, Places, bootVars, history
  <2> QED
    BY <2>2, <2>3
<1>2. CASE ProgramWord
  <2>1. /\ pc = "program" /\ todo # <<>> /\ cursor' = cursor + 1 /\ todo' = Tail(todo)
        /\ flash' = [flash EXCEPT ![cursor] = @ \cap Head(todo)]
        /\ acked' = Append(acked, Head(todo))
        /\ cursor >= BASE_APP_ADDR /\ cursor + Len(todo) <= FLASH_SIZE
        /\ UNCHANGED <<offset, pc, saved, resp, bootVars, clean, interrupted>>
    BY <1>2 DEF ProgramWord, Places
  <2>2. todo \in Seq(bits) /\ acked \in Seq(bits) /\ flash \in [Addresses -> bits]
    BY DEF TypeOK
  <2>3. /\ Head(todo) \in bits /\ todo' \in Seq(bits) /\ acked' \in Seq(bits)
        /\ Len(todo') = Len(todo) - 1 /\ Len(todo) \in Nat /\ Len(todo) > 0
    BY <2>1, <2>2, Numbers, HeadTailProperties, AppendProperties
  <2>4. /\ cursor \in Addresses /\ cursor' \in Addresses \cup {FLASH_SIZE}
        /\ cursor' >= BASE_APP_ADDR /\ cursor' + Len(todo') <= FLASH_SIZE
    BY <2>1, <2>3, Numbers, Geometry, SMTT(60) DEF Addresses
  <2>5. flash' \in [Addresses -> bits]
    BY <2>1, <2>2, <2>3, <2>4
  <2>6. TypeOK'
    BY <2>1, <2>3, <2>4, <2>5 DEF TypeOK, bootVars
  <2>7. Places'
    BY <2>1, <2>4 DEF Places
  <2> QED
    BY <2>6, <2>7
<1>3. CASE ProgramFault
  BY <1>3 DEF ProgramFault, TypeOK, Places, ramVars, bootVars, history
<1>4. CASE ProgramDone
  <2>1. /\ offset' = cursor - BASE_APP_ADDR /\ pc' = "idle" /\ resp' = "AckWithIdxCrc"
        /\ cursor >= BASE_APP_ADDR
        /\ UNCHANGED <<flash, cursor, saved, todo, bootVars, history>>
    BY <1>4 DEF ProgramDone, Places
  <2>2. offset' \in 0..FLASH_SIZE
    BY <2>1, Numbers, Geometry
  <2> QED
    BY <2>1, <2>2 DEF TypeOK, Places, bootVars, history
<1> QED
  BY <1>1, <1>2, <1>3, <1>4 DEF Write

LEMMA BootTyped ==
    ASSUME TypeOK, Places, NEW trust \in {"Full", "Developer"}, BootFirmware(trust)
    PROVE  TypeOK' /\ Places'
<1>1. bprot' \subseteq Addresses /\ running' \in {"none", "Full", "Developer"}
  BY Regions DEF BootFirmware, JumpToApp, TypeOK, bootVars
<1>2. /\ pc' \in {"idle", "app"}
      /\ resp' \in {"NoCosignHeader", "AckVerifyFirmware false", "AckVerifyFirmware true"}
      /\ UNCHANGED <<flash, ramVars, history>>
  BY DEF BootFirmware, JumpToApp
<1> QED
  BY <1>1, <1>2 DEF TypeOK, Places, ramVars, history

LEMMA ApplicationTyped ==
    ASSUME TypeOK, Places, NEW addr \in Addresses, NEW word \in SUBSET CellBits,
           ApplicationWrites(addr, word)
    PROVE  TypeOK' /\ Places'
<1>1. flash' \in [Addresses -> SUBSET CellBits] /\ pc' \in {"app", "fault"}
  BY DEF ApplicationWrites, TypeOK
<1> QED
  BY <1>1 DEF ApplicationWrites, TypeOK, Places, ramVars, bootVars, history

LEMMA TornTyped ==
    ASSUME NEW old \in SUBSET CellBits, NEW new
    PROVE  Torn(old, new) \subseteq SUBSET CellBits
BY DEF Torn

LEMMA PowerFailureTyped ==
    ASSUME TypeOK, Places, PowerFailure
    PROVE  TypeOK' /\ Places'
<1> DEFINE bits == SUBSET CellBits
<1>1. flash \in [Addresses -> bits]
  BY DEF TypeOK
<1>2. flash' \in [Addresses -> bits]
  <2>1. CASE pc = "erase"
    <3>1. PICK set \in [Page(cursor) -> bits] :
             flash' = [a \in Addresses |-> IF a \in Page(cursor)
                                           THEN flash[a] \cup set[a] ELSE flash[a]]
      BY <2>1 DEF PowerFailure
    <3>2. ASSUME NEW a \in Addresses
          PROVE  (IF a \in Page(cursor) THEN flash[a] \cup set[a] ELSE flash[a]) \in bits
      <4>1. flash[a] \in bits /\ (a \in Page(cursor) => set[a] \in bits)
        BY <1>1, <3>1
      <4> QED
        BY <4>1
    <3> QED
      BY <3>1, <3>2
  <2>2. CASE pc \in {"restore", "program"}
    <3>1. cursor \in Addresses
      <4>1. CASE pc = "restore"
        <5>1. saved # <<>> /\ cursor = BASE_APP_ADDR - Len(saved)
              /\ Len(saved) <= BASE_APP_ADDR - EraseStart
          BY <4>1 DEF PowerFailure, Places
        <5> QED
          BY <5>1, Numbers, Geometry DEF Addresses
      <4>2. CASE pc = "program"
        <5>1. todo # <<>> /\ cursor >= BASE_APP_ADDR /\ cursor + Len(todo) <= FLASH_SIZE
          BY <4>2 DEF PowerFailure, Places
        <5> QED
          BY <5>1, Numbers, Geometry DEF Addresses
      <4> QED
        BY <2>2, <4>1, <4>2
    <3>2. PICK word, new : /\ word \in Torn(flash[cursor], new)
                           /\ flash' = [flash EXCEPT ![cursor] = word]
      BY <2>2 DEF PowerFailure
    <3>3. word \in bits
      BY <1>1, <3>1, <3>2, TornTyped
    <3> QED
      BY <1>1, <3>1, <3>2, <3>3
  <2> QED
    BY <2>1, <2>2 DEF PowerFailure
<1>3. StartUp /\ interrupted' \in BOOLEAN
  BY DEF PowerFailure, TypeOK
<1> QED
  BY <1>2, <1>3, TypeStartUp

LEMMA TypeStep == TypeOK /\ Places /\ [Next]_vars => TypeOK' /\ Places'
<1> SUFFICES ASSUME TypeOK, Places, [Next]_vars
             PROVE  TypeOK' /\ Places'
  OBVIOUS
<1>1. CASE Other
  BY <1>1 DEF Other, TypeOK, Places, ramVars, bootVars, history
<1>2. CASE Reset
  BY <1>2, TypeStartUp DEF Reset, TypeOK
<1>3. CASE UNCHANGED vars
  <2>1. TypeOK'
    BY <1>3 DEF vars, TypeOK, ramVars, bootVars, history
  <2>2. Places'
    BY <1>3 DEF vars, Places, ramVars
  <2> QED
    BY <2>1, <2>2
<1>4. CASE Erase \/ Write \/ PowerFailure
  BY <1>4, EraseTyped, WriteTyped, PowerFailureTyped
<1>5. ASSUME NEW trust \in {"Full", "Developer"}, BootFirmware(trust)
      PROVE  TypeOK' /\ Places'
  BY <1>5, BootTyped
<1>6. ASSUME NEW addr \in Addresses, NEW word \in SUBSET CellBits,
             ApplicationWrites(addr, word)
      PROVE  TypeOK' /\ Places'
  BY <1>6, ApplicationTyped
<1> QED
  BY <1>1, <1>2, <1>3, <1>4, <1>5, <1>6 DEF Next

-----------------------------------------------------------------------------
(* What the steps do to flash: which words they change, and to what.       *)

SameAt(set) == \A a \in set : flash'[a] = flash[a]

LEMMA ErasePageDoes ==
    ASSUME TypeOK, Places, ErasePage
    PROVE  /\ pc = "erase" /\ cursor \in EraseStart..(BASE_BOOTLOADER_ADDR - 1)
           /\ cursor' = cursor + FLASH_PAGE /\ cursor' <= BASE_BOOTLOADER_ADDR
           /\ \A a \in cursor..(cursor' - 1) : flash'[a] = Erased
           /\ SameAt({a \in Addresses : a < cursor \/ cursor' <= a})
<1>1. /\ pc = "erase" /\ cursor < BASE_BOOTLOADER_ADDR /\ Aligned(cursor)
      /\ cursor \in EraseStart..BASE_BOOTLOADER_ADDR
      /\ cursor' = cursor + FLASH_PAGE
      /\ flash' = [a \in Addresses |->
                        IF a \in Page(cursor) THEN Erased ELSE flash[a]]
  BY DEF ErasePage, Places
<1>2. cursor \in Nat
  BY Numbers
<1>3. cursor' <= BASE_BOOTLOADER_ADDR
  BY <1>1, <1>2, NextPage
<1>4. \A a \in cursor..(cursor' - 1) : a \in Addresses /\ a \in Page(cursor)
  BY <1>1, <1>2, <1>3, Geometry DEF Addresses, Page
<1>5. \A a \in Addresses : a < cursor \/ cursor' <= a => a \notin Page(cursor)
  BY <1>1, <1>2, Geometry DEF Addresses, Page
<1>6. cursor \in EraseStart..(BASE_BOOTLOADER_ADDR - 1)
  BY <1>1, Geometry
<1> QED
  BY <1>1, <1>3, <1>4, <1>5, <1>6 DEF SameAt

LEMMA RestoreWordDoes ==
    ASSUME TypeOK, Places, RestoreWord
    PROVE  /\ pc = "restore" /\ cursor \in SoftdeviceTail /\ cursor' = cursor + 1
           /\ Len(saved) = BASE_APP_ADDR - cursor
           /\ saved' \in Seq(SUBSET CellBits) /\ Len(saved') = Len(saved) - 1
           /\ \A i \in 1..Len(saved') : saved'[i] = saved[i + 1]
           /\ flash'[cursor] = flash[cursor] \cap saved[1]
           /\ SameAt(Addresses \ {cursor})
<1>1. /\ pc = "restore" /\ saved # <<>> /\ cursor' = cursor + 1 /\ saved' = Tail(saved)
      /\ flash' = [flash EXCEPT ![cursor] = @ \cap Head(saved)]
      /\ Len(saved) <= BASE_APP_ADDR - EraseStart
      /\ cursor = BASE_APP_ADDR - Len(saved)
  BY DEF RestoreWord, Places
<1>2. saved \in Seq(SUBSET CellBits) /\ flash \in [Addresses -> SUBSET CellBits]
  BY DEF TypeOK
<1>3. /\ saved' \in Seq(SUBSET CellBits) /\ Len(saved') = Len(saved) - 1
      /\ \A i \in 1..Len(saved') : saved'[i] = saved[i + 1]
      /\ Head(saved) = saved[1]
  BY <1>1, <1>2, HeadTailProperties
<1>4. cursor \in EraseStart..(BASE_APP_ADDR - 1) /\ Len(saved) = BASE_APP_ADDR - cursor
  BY <1>1, Numbers, Geometry
<1>5. cursor \in SoftdeviceTail /\ cursor \in Addresses
  BY <1>4, Regions
<1> QED
  BY <1>1, <1>2, <1>3, <1>4, <1>5 DEF SameAt

LEMMA ProgramWordDoes ==
    ASSUME TypeOK, Places, ProgramWord
    PROVE  /\ pc = "program" /\ cursor \in Addresses /\ cursor >= BASE_APP_ADDR
           /\ cursor \notin bprot /\ cursor' = cursor + 1
           /\ Head(todo) \in SUBSET CellBits /\ acked' = Append(acked, Head(todo))
           /\ flash'[cursor] = flash[cursor] \cap Head(todo)
           /\ SameAt(Addresses \ {cursor})
<1>1. /\ pc = "program" /\ todo # <<>> /\ cursor' = cursor + 1
      /\ flash' = [flash EXCEPT ![cursor] = @ \cap Head(todo)]
      /\ acked' = Append(acked, Head(todo)) /\ cursor \notin bprot
      /\ cursor >= BASE_APP_ADDR /\ cursor + Len(todo) <= FLASH_SIZE
  BY DEF ProgramWord, Places
<1>2. todo \in Seq(SUBSET CellBits) /\ flash \in [Addresses -> SUBSET CellBits]
  BY DEF TypeOK
<1>3. Head(todo) \in SUBSET CellBits
  BY <1>1, <1>2, HeadTailProperties
<1>4. cursor \in Addresses
  BY <1>1, Numbers, Geometry DEF Addresses
<1> QED
  BY <1>1, <1>2, <1>3, <1>4 DEF SameAt

(* A failure of power changes no more than the step it interrupts.         *)
LEMMA PowerFailureDoes ==
    ASSUME TypeOK, Places, PowerFailure
    PROVE  /\ pc \in {"erase", "restore", "program"} /\ StartUp
           /\ pc \in {"erase", "restore"} =>
                /\ interrupted'
                /\ SameAt({a \in Addresses :
                            a < EraseStart \/ BASE_BOOTLOADER_ADDR <= a})
           /\ pc = "program" =>
                /\ interrupted' = interrupted
                /\ cursor \in Addresses /\ cursor >= BASE_APP_ADDR
                /\ cursor \notin bprot /\ SameAt(Addresses \ {cursor})
<1>1. pc \in {"erase", "restore", "program"} /\ StartUp
  BY DEF PowerFailure
<1>2. flash \in [Addresses -> SUBSET CellBits] /\ interrupted \in BOOLEAN
  BY DEF TypeOK
<1>3. CASE pc = "erase"
  <2>1. PICK set : flash' = [a \in Addresses |-> IF a \in Page(cursor)
                                                 THEN flash[a] \cup set[a] ELSE flash[a]]
    BY <1>3 DEF PowerFailure
  <2>2. /\ cursor < BASE_BOOTLOADER_ADDR /\ Aligned(cursor)
        /\ cursor \in EraseStart..BASE_BOOTLOADER_ADDR /\ interrupted'
    BY <1>3 DEF PowerFailure, Places
  <2>3. cursor + FLASH_PAGE <= BASE_BOOTLOADER_ADDR
    BY <2>2, Numbers, NextPage
  <2>4. \A a \in Page(cursor) : EraseStart <= a /\ a < BASE_BOOTLOADER_ADDR
    BY <2>2, <2>3, Geometry DEF Page
  <2>5. \A a \in Addresses : a < EraseStart \/ BASE_BOOTLOADER_ADDR <= a => a \notin Page(cursor)
    BY <2>4, Geometry DEF Addresses
  <2> QED
    BY <1>1, <1>3, <2>1, <2>2, <2>5 DEF SameAt
<1>4. CASE pc = "restore"
  <2>1. PICK word : flash' = [flash EXCEPT ![cursor] = word]
    BY <1>4 DEF PowerFailure
  <2>2. /\ saved # <<>> /\ cursor = BASE_APP_ADDR - Len(saved)
        /\ Len(saved) <= BASE_APP_ADDR - EraseStart /\ interrupted'
    BY <1>4 DEF PowerFailure, Places
  <2>3. EraseStart <= cursor /\ cursor < BASE_BOOTLOADER_ADDR
    BY <2>2, Numbers, Geometry
  <2>4. \A a \in Addresses : a < EraseStart \/ BASE_BOOTLOADER_ADDR <= a => a # cursor
    BY <2>3, Numbers, Geometry DEF Addresses
  <2> QED
    BY <1>1, <1>2, <1>4, <2>1, <2>2, <2>4 DEF SameAt
<1>5. CASE pc = "program"
  <2>1. PICK word : flash' = [flash EXCEPT ![cursor] = word]
    BY <1>5 DEF PowerFailure
  <2>2. /\ todo # <<>> /\ cursor >= BASE_APP_ADDR /\ cursor + Len(todo) <= FLASH_SIZE
        /\ cursor \notin bprot
    BY <1>5 DEF PowerFailure, Places
  <2>3. interrupted' = interrupted
    BY <1>2, <1>5 DEF PowerFailure
  <2>4. cursor \in Addresses
    BY <2>2, Numbers, Geometry DEF Addresses
  <2> QED
    BY <1>1, <1>2, <1>5, <2>1, <2>2, <2>3, <2>4 DEF SameAt
<1> QED
  BY <1>1, <1>3, <1>4, <1>5

(* With the protection on, the application's writes end in a fault.        *)
LEMMA ApplicationDoes ==
    ASSUME Protected, NEW addr \in Addresses, NEW word \in SUBSET CellBits,
           ApplicationWrites(addr, word)
    PROVE  /\ pc = "app" /\ pc' \in {"app", "fault"}
           /\ UNCHANGED <<ramVars, resp, bootVars, history>>
           /\ ~Debug => pc' = "fault" /\ flash' = flash
BY DEF ApplicationWrites, Protected

(* The steps that are not about flash.                                     *)
Resting ==
    \/ EraseFirmware \/ EraseDone \/ RestoreDone
    \/ \E data \in Blocks, wholeWords \in BOOLEAN : WriteFirmwareBlock(data, wholeWords)
    \/ ProgramFault \/ ProgramDone
    \/ \E trust \in {"Full", "Developer"} : BootFirmware(trust)
    \/ Other \/ Reset
    \/ UNCHANGED vars

LEMMA RestingDoes == Resting => flash' = flash /\ interrupted' = interrupted
BY DEF Resting, EraseFirmware, EraseDone, RestoreDone, WriteFirmwareBlock, ProgramFault,
       ProgramDone, BootFirmware, Other, Reset, vars, history

(* Every step is one of six kinds.                                         *)
LEMMA Kinds ==
    ASSUME [Next]_vars
    PROVE  \/ Resting \/ ErasePage \/ RestoreWord \/ ProgramWord \/ PowerFailure
           \/ \E addr \in Addresses, word \in SUBSET CellBits : ApplicationWrites(addr, word)
BY DEF Next, Resting, Erase, Write

-----------------------------------------------------------------------------
(* The protection, and what it is there for.                               *)

LEMMA ProtectedStep ==
    ASSUME Protected, [Next]_vars
    PROVE  Protected'
<1>1. CASE StartUp
  BY <1>1, Regions DEF StartUp, Protected
<1>2. ASSUME NEW trust \in {"Full", "Developer"}, BootFirmware(trust)
      PROVE  Protected'
  <2>1. \/ UNCHANGED <<pc, bootVars>>
        \/ bprot' = bprot \cup FlashProtectSdApplication
    BY <1>2 DEF BootFirmware
  <2> QED
    BY <2>1, Regions DEF Protected, bootVars
<1>3. CASE bprot' = bprot /\ (pc' = "app" => pc = "app")
  BY <1>3 DEF Protected
<1>4. ASSUME NEW data \in Blocks, NEW wholeWords \in BOOLEAN,
             WriteFirmwareBlock(data, wholeWords)
      PROVE  bprot' = bprot /\ (pc' = "app" => pc = "app")
  BY <1>4 DEF WriteFirmwareBlock, bootVars
<1>5. ASSUME NEW addr \in Addresses, NEW word \in SUBSET CellBits,
             ApplicationWrites(addr, word)
      PROVE  bprot' = bprot /\ (pc' = "app" => pc = "app")
  BY <1>5 DEF ApplicationWrites, bootVars
<1>6. CASE Erase
  BY <1>3, <1>6 DEF Erase, EraseFirmware, ErasePage, EraseDone, RestoreWord,
     RestoreDone, bootVars
<1>7. CASE ProgramWord \/ ProgramFault \/ ProgramDone \/ Other \/ UNCHANGED vars
  BY <1>3, <1>7 DEF ProgramWord, ProgramFault, ProgramDone, Other, vars, bootVars
<1> QED
  BY <1>1, <1>2, <1>3, <1>4, <1>5, <1>6, <1>7 DEF Next, Write, Reset, PowerFailure

(* No step changes a word of the MBR or of the bootloader.                 *)
LEMMA BootloaderUntouched ==
    ASSUME TypeOK, Places, Protected, ~Debug, [Next]_vars
    PROVE  SameAt(Mbr \cup BootloaderArea)
<1> DEFINE area == Mbr \cup BootloaderArea
<1>1. /\ area \subseteq Addresses /\ area \subseteq bprot
      /\ \A a \in EraseStart..(BASE_BOOTLOADER_ADDR - 1) : a \notin area
  BY Regions DEF Protected
<1> HIDE DEF area
<1>2. CASE Resting
  BY <1>2, RestingDoes DEF SameAt
<1>3. CASE ErasePage
  <2>1. \A a \in Addresses : a \in cursor..(cursor' - 1) => a \notin area
    BY <1>1, <1>3, ErasePageDoes, Numbers, Geometry DEF Addresses
  <2>2. \A a \in area : a < cursor \/ cursor' <= a
    BY <1>1, <1>3, <2>1, ErasePageDoes, Numbers, Geometry DEF Addresses
  <2> QED
    BY <1>1, <1>3, <2>2, ErasePageDoes DEF SameAt, area
<1>4. CASE RestoreWord
  <2>1. cursor \in EraseStart..(BASE_BOOTLOADER_ADDR - 1)
    BY <1>4, RestoreWordDoes, Regions, Geometry
  <2> QED
    BY <1>1, <1>4, <2>1, RestoreWordDoes DEF SameAt, area
<1>5. CASE ProgramWord
  BY <1>1, <1>5, ProgramWordDoes DEF SameAt, area
<1>6. CASE PowerFailure
  <2>1. CASE pc \in {"erase", "restore"}
    <3>1. \A a \in area : a < EraseStart \/ BASE_BOOTLOADER_ADDR <= a
      BY <1>1, Geometry DEF Addresses
    <3> QED
      BY <1>1, <1>6, <2>1, <3>1, PowerFailureDoes DEF SameAt, area
  <2>2. CASE pc = "program"
    BY <1>1, <1>6, <2>2, PowerFailureDoes DEF SameAt, area
  <2> QED
    BY <1>6, <2>1, <2>2, PowerFailureDoes
<1>7. ASSUME NEW addr \in Addresses, NEW word \in SUBSET CellBits,
             ApplicationWrites(addr, word)
      PROVE  SameAt(Mbr \cup BootloaderArea)
  BY <1>7, ApplicationDoes DEF SameAt
<1> QED
  BY <1>2, <1>3, <1>4, <1>5, <1>6, <1>7, Kinds

LEMMA BootloaderStep ==
    ASSUME TypeOK, Places, Protected, BootloaderIsIntact, [Next]_vars
    PROVE  BootloaderIsIntact'
BY BootloaderUntouched DEF BootloaderIsIntact, SameAt

-----------------------------------------------------------------------------
(* The tail of the SoftDevice.                                             *)

LEMMA ErasedStep ==
    ASSUME TypeOK, Places, ErasedSoFar, [Next]_vars
    PROVE  ErasedSoFar'
<1>1. CASE EraseFirmware
  <2>1. pc' = "erase" /\ cursor' = EraseStart
    BY <1>1 DEF EraseFirmware
  <2> QED
    BY <2>1, Geometry DEF ErasedSoFar, IsErased
<1>2. CASE ErasePage
  <2>1. pc' = "erase" /\ \A a \in EraseStart..(cursor - 1) : flash[a] = Erased
    BY <1>2 DEF ErasePage, ErasedSoFar, IsErased
  <2>2. \A a \in EraseStart..(cursor' - 1) : flash'[a] = Erased
    <3> SUFFICES ASSUME NEW a \in EraseStart..(cursor' - 1)
                 PROVE  flash'[a] = Erased
      OBVIOUS
    <3>1. CASE a < cursor
      <4>1. a \in Addresses /\ a \in EraseStart..(cursor - 1)
        BY <1>2, <3>1, ErasePageDoes, Numbers, Geometry DEF Addresses
      <4> QED
        BY <1>2, <2>1, <3>1, <4>1, ErasePageDoes DEF SameAt
    <3>2. CASE ~(a < cursor)
      <4>1. a \in cursor..(cursor' - 1)
        BY <1>2, <3>2, ErasePageDoes, Numbers, Geometry
      <4> QED
        BY <1>2, <4>1, ErasePageDoes
    <3> QED
      BY <3>1, <3>2
  <2> QED
    BY <2>1, <2>2 DEF ErasedSoFar, IsErased
<1>3. CASE EraseDone
  <2>1. /\ pc' = "restore" /\ cursor' = EraseStart /\ flash' = flash
        /\ cursor >= BASE_BOOTLOADER_ADDR
        /\ \A a \in EraseStart..(cursor - 1) : flash[a] = Erased
    BY <1>3 DEF EraseDone, ErasedSoFar, IsErased
  <2>2. \A a \in EraseStart..(BASE_BOOTLOADER_ADDR - 1) : flash[a] = Erased
    BY <2>1, Numbers, Geometry
  <2> QED
    BY <2>1, <2>2 DEF ErasedSoFar, IsErased
<1>4. CASE RestoreWord
  <2>1. pc' = "restore" /\ \A a \in cursor..(BASE_BOOTLOADER_ADDR - 1) : flash[a] = Erased
    BY <1>4 DEF RestoreWord, ErasedSoFar, IsErased
  <2>2. \A a \in cursor'..(BASE_BOOTLOADER_ADDR - 1) :
            /\ a \in Addresses \ {cursor}
            /\ a \in cursor..(BASE_BOOTLOADER_ADDR - 1)
    BY <1>4, RestoreWordDoes, Numbers, Geometry DEF Addresses
  <2> QED
    BY <1>4, <2>1, <2>2, RestoreWordDoes DEF ErasedSoFar, IsErased, SameAt
<1>5. CASE pc' \notin {"erase", "restore"}
  BY <1>5 DEF ErasedSoFar
<1>6. CASE UNCHANGED vars
  BY <1>6 DEF vars, ramVars, ErasedSoFar, IsErased
<1>7. ASSUME NEW data \in Blocks, NEW wholeWords \in BOOLEAN,
             WriteFirmwareBlock(data, wholeWords)
      PROVE  pc' \notin {"erase", "restore"}
  BY <1>7 DEF WriteFirmwareBlock
<1>8. ASSUME NEW trust \in {"Full", "Developer"}, BootFirmware(trust)
      PROVE  pc' \notin {"erase", "restore"}
  BY <1>8 DEF BootFirmware, JumpToApp
<1>9. ASSUME NEW addr \in Addresses, NEW word \in SUBSET CellBits,
             ApplicationWrites(addr, word)
      PROVE  pc' \notin {"erase", "restore"}
  BY <1>9 DEF ApplicationWrites
<1>10. CASE RestoreDone \/ ProgramWord \/ ProgramFault \/ ProgramDone \/ Other
            \/ Reset \/ PowerFailure
  <2>1. pc' \notin {"erase", "restore"}
    BY <1>10 DEF RestoreDone, ProgramWord, ProgramFault, ProgramDone, Other,
       Reset, PowerFailure, StartUp
  <2> QED
    BY <1>5, <2>1
<1> QED
  BY <1>1, <1>2, <1>3, <1>4, <1>5, <1>6, <1>7, <1>8, <1>9, <1>10 DEF Next, Erase, Write

(* Once it is back, the tail of the SoftDevice is left alone.              *)
LEMMA TailKept ==
    ASSUME SoftdeviceIsIntact, ~Debug, ~interrupted, SameAt(SoftdeviceTail),
           pc \in {"idle", "program", "app", "fault"},
           pc' \in {"idle", "program", "app", "fault"}
    PROVE  TailIsSomewhere' /\ SoftdeviceIsIntact'
BY DEF SoftdeviceIsIntact, TailIsSomewhere, SameAt

LEMMA TailStep ==
    ASSUME TypeOK, Places, Protected, ErasedSoFar, TailIsSomewhere, SoftdeviceIsIntact,
           [Next]_vars
    PROVE  TailIsSomewhere' /\ SoftdeviceIsIntact'
<1> DEFINE quiet == {"idle", "program", "app", "fault"}
<1>1. interrupted' = interrupted \/ PowerFailure
  BY Kinds, RestingDoes DEF ErasePage, RestoreWord, ProgramWord, ApplicationWrites, history
<1>2. PowerFailure /\ interrupted => interrupted'
  BY DEF PowerFailure
<1> SUFFICES ASSUME ~Debug, ~interrupted'
             PROVE  TailIsSomewhere' /\ SoftdeviceIsIntact'
  BY DEF TailIsSomewhere, SoftdeviceIsIntact
<1>3. ~interrupted
  BY <1>1, <1>2
<1>4. CASE EraseFirmware
  <2>1. \A a \in SoftdeviceTail : flash[a] = Factory[a]
    BY <1>3, <1>4 DEF EraseFirmware, SoftdeviceIsIntact
  <2>2. /\ pc' = "erase"
        /\ saved' = [i \in 1..(BASE_APP_ADDR - EraseStart) |-> flash[EraseStart + i - 1]]
    BY <1>4 DEF EraseFirmware
  <2>3. \A a \in SoftdeviceTail :
            /\ a - EraseStart + 1 \in 1..(BASE_APP_ADDR - EraseStart)
            /\ EraseStart + (a - EraseStart + 1) - 1 = a
    BY Geometry DEF SoftdeviceTail
  <2>4. \A a \in SoftdeviceTail : saved'[a - EraseStart + 1] = Factory[a]
    BY <2>1, <2>2, <2>3
  <2> QED
    BY <2>2, <2>4 DEF TailIsSomewhere, SoftdeviceIsIntact
<1>5. CASE ErasePage
  BY <1>3, <1>5 DEF ErasePage, TailIsSomewhere, SoftdeviceIsIntact
<1>6. CASE EraseDone
  <2>1. /\ pc' = "restore" /\ cursor' = EraseStart /\ saved' = saved
        /\ \A a \in SoftdeviceTail : saved[a - EraseStart + 1] = Factory[a]
    BY <1>3, <1>6 DEF EraseDone, TailIsSomewhere
  <2>2. \A a \in SoftdeviceTail : ~(a < EraseStart)
    BY Geometry DEF SoftdeviceTail
  <2> QED
    BY <2>1, <2>2 DEF TailIsSomewhere, SoftdeviceIsIntact
<1>7. CASE RestoreWord
  <2>1. \A a \in SoftdeviceTail :
            IF a < cursor THEN flash[a] = Factory[a]
            ELSE saved[a - cursor + 1] = Factory[a]
    BY <1>3, <1>7 DEF RestoreWord, TailIsSomewhere
  <2>2. pc' = "restore" /\ flash[cursor] = Erased
    <3>1. cursor \in cursor..(BASE_BOOTLOADER_ADDR - 1)
      BY <1>7, RestoreWordDoes, Geometry DEF SoftdeviceTail
    <3> QED
      BY <1>7, <3>1 DEF RestoreWord, ErasedSoFar, IsErased
  <2>3. ASSUME NEW a \in SoftdeviceTail
        PROVE  IF a < cursor' THEN flash'[a] = Factory[a]
               ELSE saved'[a - cursor' + 1] = Factory[a]
    <3>1. CASE a < cursor
      <4>1. a < cursor' /\ a \in Addresses \ {cursor}
        BY <1>7, <3>1, RestoreWordDoes, Numbers, Regions DEF SoftdeviceTail
      <4> QED
        BY <1>7, <2>1, <3>1, <4>1, RestoreWordDoes DEF SameAt
    <3>2. CASE a = cursor
      <4>1. a < cursor' /\ a - cursor + 1 = 1 /\ ~(a < cursor)
        BY <1>7, <3>2, RestoreWordDoes, Numbers
      <4>2. saved[1] = Factory[a]
        BY <2>1, <4>1
      <4>3. saved[1] \subseteq CellBits
        <5>1. saved \in Seq(SUBSET CellBits)
          BY DEF TypeOK
        <5>2. 1 \in 1..Len(saved)
          BY <1>7, RestoreWordDoes, Numbers, Geometry DEF SoftdeviceTail
        <5> QED
          BY <5>1, <5>2, ElementOfSeq
      <4> QED
        BY <1>7, <2>2, <3>2, <4>1, <4>2, <4>3, RestoreWordDoes DEF Erased
    <3>3. CASE a > cursor
      <4>1. /\ ~(a < cursor') /\ ~(a < cursor)
            /\ a - cursor' + 1 \in 1..Len(saved')
            /\ (a - cursor' + 1) + 1 = a - cursor + 1
        BY <1>7, <3>3, RestoreWordDoes, Numbers, Geometry, SMTT(60) DEF SoftdeviceTail
      <4>2. saved'[a - cursor' + 1] = saved[a - cursor + 1]
        BY <1>7, <4>1, RestoreWordDoes
      <4> QED
        BY <2>1, <4>1, <4>2
    <3> QED
      BY <3>1, <3>2, <3>3, Numbers, Geometry DEF SoftdeviceTail
  <2> QED
    BY <2>2, <2>3 DEF TailIsSomewhere, SoftdeviceIsIntact
<1>8. CASE RestoreDone
  <2>1. /\ pc = "restore" /\ pc' = "idle" /\ flash' = flash /\ saved = <<>>
        /\ cursor = BASE_APP_ADDR - Len(saved)
    BY <1>8 DEF RestoreDone, Places
  <2>2. cursor = BASE_APP_ADDR
    BY <2>1, Geometry, EmptySeq
  <2>3. \A a \in SoftdeviceTail : a < cursor
    BY <2>2, Geometry DEF SoftdeviceTail
  <2>4. \A a \in SoftdeviceTail : flash[a] = Factory[a]
    BY <1>3, <2>1, <2>3 DEF TailIsSomewhere
  <2> QED
    BY <2>1, <2>4 DEF TailIsSomewhere, SoftdeviceIsIntact
<1>9. CASE pc \in quiet /\ pc' \in quiet /\ flash' = flash
  BY <1>3, <1>9, TailKept DEF SameAt
<1>10. CASE ProgramWord
  <2>1. cursor \notin SoftdeviceTail /\ pc \in quiet /\ pc' \in quiet
    BY <1>10, Regions, Numbers DEF ProgramWord, Places
  <2> QED
    BY <1>3, <1>10, <2>1, ProgramWordDoes, TailKept, Regions DEF SameAt
<1>11. CASE PowerFailure
  <2>1. pc = "program"
    BY <1>11, PowerFailureDoes
  <2>2. cursor \notin SoftdeviceTail /\ SameAt(Addresses \ {cursor}) /\ pc' = "idle"
    BY <1>11, <2>1, PowerFailureDoes, Regions, Numbers DEF StartUp
  <2> QED
    BY <1>3, <2>1, <2>2, TailKept, Regions DEF SameAt
<1>12. CASE UNCHANGED vars
  BY <1>12 DEF vars, ramVars, history, TailIsSomewhere, SoftdeviceIsIntact
<1>13. ASSUME NEW data \in Blocks, NEW wholeWords \in BOOLEAN,
              WriteFirmwareBlock(data, wholeWords)
       PROVE  pc \in quiet /\ pc' \in quiet /\ flash' = flash
  BY <1>13 DEF WriteFirmwareBlock
<1>14. ASSUME NEW trust \in {"Full", "Developer"}, BootFirmware(trust)
       PROVE  pc \in quiet /\ pc' \in quiet /\ flash' = flash
  BY <1>14 DEF BootFirmware, JumpToApp
<1>15. ASSUME NEW addr \in Addresses, NEW word \in SUBSET CellBits,
              ApplicationWrites(addr, word)
       PROVE  pc \in quiet /\ pc' \in quiet /\ flash' = flash
  BY <1>15, ApplicationDoes
<1>16. CASE ProgramFault \/ ProgramDone \/ Other \/ Reset
  <2>1. pc \in quiet /\ pc' \in quiet /\ flash' = flash
    BY <1>16 DEF ProgramFault, ProgramDone, Other, Reset, StartUp
  <2> QED
    BY <1>9, <2>1
<1> QED
  BY <1>4, <1>5, <1>6, <1>7, <1>8, <1>9, <1>10, <1>11, <1>12, <1>13, <1>14, <1>15, <1>16
  DEF Next, Erase, Write

-----------------------------------------------------------------------------
(* The application area.                                                   *)

(* A word programmed behind the acknowledged ones is one of them.          *)
LEMMA AreaGrows ==
    ASSUME TypeOK, Places, ProgramWord, Holds(acked),
           cursor = BASE_APP_ADDR + Len(acked)
    PROVE  /\ cursor' = BASE_APP_ADDR + Len(acked')
           /\ Holds(acked)'
<1> DEFINE word == Head(todo)
<1>1. acked \in Seq(SUBSET CellBits) /\ word \in SUBSET CellBits
  BY ProgramWordDoes DEF TypeOK
<1>2. /\ acked' = Append(acked, word) /\ Len(acked') = Len(acked) + 1
      /\ Len(acked) \in Nat
      /\ \A i \in 1..Len(acked) : acked'[i] = acked[i]
      /\ acked'[Len(acked) + 1] = word
  BY <1>1, ProgramWordDoes, AppendProperties, LenProperties
<1> HIDE DEF word
<1>3. cursor' = BASE_APP_ADDR + Len(acked')
  BY <1>2, ProgramWordDoes, Geometry
<1>4. ASSUME NEW a \in AppArea
      PROVE  flash'[a] = IF a - BASE_APP_ADDR < Len(acked')
                         THEN acked'[a - BASE_APP_ADDR + 1] ELSE Erased
  <2>1. a \in Nat /\ a >= BASE_APP_ADDR /\ a \in Addresses
    BY Geometry, Regions DEF AppArea
  <2>2. flash[a] = IF a - BASE_APP_ADDR < Len(acked)
                   THEN acked[a - BASE_APP_ADDR + 1] ELSE Erased
    BY DEF Holds
  <2>3. CASE a = cursor
    <3>1. /\ ~(a - BASE_APP_ADDR < Len(acked)) /\ a - BASE_APP_ADDR < Len(acked')
          /\ a - BASE_APP_ADDR + 1 = Len(acked) + 1
      BY <1>2, <2>1, <2>3, Geometry
    <3>2. flash'[cursor] = flash[cursor] \cap word
      BY ProgramWordDoes DEF word
    <3>3. flash'[a] = word
      BY <1>1, <2>2, <2>3, <3>1, <3>2 DEF Erased, word
    <3> QED
      BY <1>2, <3>1, <3>3
  <2>4. CASE a # cursor
    <3>1. flash'[a] = flash[a]
      BY <2>1, <2>4, ProgramWordDoes DEF SameAt
    <3>2. a - BASE_APP_ADDR < Len(acked') <=> a - BASE_APP_ADDR < Len(acked)
      BY <1>2, <2>1, <2>4, Geometry
    <3>3. a - BASE_APP_ADDR < Len(acked)
            => acked'[a - BASE_APP_ADDR + 1] = acked[a - BASE_APP_ADDR + 1]
      BY <1>2, <2>1, Geometry
    <3> QED
      BY <2>2, <3>1, <3>2, <3>3
  <2> QED
    BY <2>3, <2>4
<1> QED
  BY <1>3, <1>4 DEF Holds

LEMMA AreaStep ==
    ASSUME TypeOK, Places, Protected, ErasedSoFar, AreaHolds, [Next]_vars
    PROVE  AreaHolds'
<1>1. CASE pc' \in {"erase", "fault"} \/ (clean' = FALSE /\ pc' = "idle")
  BY <1>1 DEF AreaHolds
<1>2. CASE EraseFirmware \/ ErasePage \/ ProgramFault
  <2>1. pc' \in {"erase", "fault"}
    BY <1>2 DEF EraseFirmware, ErasePage, ProgramFault
  <2> QED
    BY <1>1, <2>1
<1>3. CASE Reset \/ PowerFailure
  BY <1>1, <1>3 DEF Reset, PowerFailure, StartUp
<1>4. CASE EraseDone
  BY <1>4 DEF EraseDone, AreaHolds
<1>5. CASE RestoreWord
  BY <1>5 DEF RestoreWord, AreaHolds, history
<1>6. CASE RestoreDone
  <2>1. /\ offset' = 0 /\ acked' = <<>> /\ pc' = "idle" /\ flash' = flash
        /\ saved = <<>> /\ cursor = BASE_APP_ADDR - Len(saved)
        /\ IsErased(cursor, BASE_BOOTLOADER_ADDR)
    BY <1>6 DEF RestoreDone, AreaHolds, Places, ErasedSoFar, ramVars, history
  <2>2. cursor = BASE_APP_ADDR /\ Len(acked') = 0
    BY <2>1, EmptySeq, Geometry
  <2>3. \A a \in AppArea : ~(a - BASE_APP_ADDR < 0) /\ flash'[a] = Erased
    BY <2>1, <2>2, Geometry DEF AppArea, IsErased
  <2> QED
    BY <2>1, <2>2, <2>3 DEF AreaHolds, Holds
<1>7. ASSUME NEW data \in Blocks, NEW wholeWords \in BOOLEAN,
             WriteFirmwareBlock(data, wholeWords)
      PROVE  AreaHolds'
  <2>1. /\ pc = "idle" /\ UNCHANGED <<flash, offset, saved, bootVars, history>>
        /\ \/ pc' = "idle"
           \/ pc' = "program" /\ cursor' = BASE_APP_ADDR + offset
    BY <1>7 DEF WriteFirmwareBlock
  <2> QED
    BY <2>1 DEF AreaHolds, Holds, history
<1>8. CASE ProgramWord
  <2>1. pc = "program" /\ pc' = "program" /\ clean' = clean
    BY <1>8 DEF ProgramWord
  <2> QED
    BY <1>8, <2>1, AreaGrows DEF AreaHolds
<1>9. CASE ProgramDone
  <2>1. /\ pc = "program" /\ pc' = "idle" /\ offset' = cursor - BASE_APP_ADDR
        /\ UNCHANGED <<flash, history>>
    BY <1>9 DEF ProgramDone
  <2>2. clean => offset' = Len(acked)
    BY <2>1, Numbers, Geometry DEF AreaHolds
  <2> QED
    BY <2>1, <2>2 DEF AreaHolds, Holds, history
<1>10. ASSUME NEW trust \in {"Full", "Developer"}, BootFirmware(trust)
       PROVE  AreaHolds'
  <2>1. pc = "idle" /\ pc' \in {"idle", "app"} /\ UNCHANGED <<flash, ramVars, history>>
    BY <1>10 DEF BootFirmware, JumpToApp
  <2> QED
    BY <2>1 DEF AreaHolds, Holds, ramVars, history
<1>11. ASSUME NEW addr \in Addresses, NEW word \in SUBSET CellBits,
              ApplicationWrites(addr, word)
       PROVE  AreaHolds'
  BY <1>11, ApplicationDoes DEF AreaHolds
<1>12. CASE Other \/ UNCHANGED vars
  BY <1>12 DEF Other, vars, ramVars, history, AreaHolds, Holds
<1> QED
  BY <1>2, <1>3, <1>4, <1>5, <1>6, <1>7, <1>8, <1>9, <1>10, <1>11, <1>12
  DEF Next, Erase, Write

-----------------------------------------------------------------------------
(* What boots, and what runs.                                              *)

(* What verifies while the area holds the acknowledged words is one of the *)
(* images, word for word.                                                  *)
LEMMA VerifiedIsSent ==
    ASSUME NEW trust \in {"Full", "Developer"}, Verifies(trust), Holds(acked), TypeOK
    PROVE  \E image \in Images :
               /\ image.trust = "Developer" => trust = "Developer"
               /\ \A i \in 1..Len(image.words) :
                    image.words[i] = IF i <= Len(acked) THEN acked[i] ELSE Erased
<1>1. PICK image \in Images :
          IsStored(image.words) /\ (image.trust = "Full" \/ trust = "Developer")
  BY DEF Verifies
<1>2. Len(image.words) \in Nat
  BY ContentsAssumption, LenProperties DEF ContentsAssumption
<1>3. ASSUME NEW i \in 1..Len(image.words)
      PROVE  image.words[i] = IF i <= Len(acked) THEN acked[i] ELSE Erased
  <2> DEFINE a == BASE_APP_ADDR + i - 1
  <2>1. image.words[i] = flash[a] /\ Len(image.words) <= BASE_BOOTLOADER_ADDR - BASE_APP_ADDR
    BY <1>1 DEF IsStored
  <2>2. a \in AppArea /\ a - BASE_APP_ADDR + 1 = i
        /\ (a - BASE_APP_ADDR < Len(acked) <=> i <= Len(acked))
    BY <1>2, <2>1, Geometry, Numbers DEF AppArea
  <2> HIDE DEF a
  <2>3. flash[a] = IF a - BASE_APP_ADDR < Len(acked)
                   THEN acked[a - BASE_APP_ADDR + 1] ELSE Erased
    BY <2>2 DEF Holds
  <2> QED
    BY <2>1, <2>2, <2>3
<1> QED
  BY <1>1, <1>3

(* Only a reset ends what has been booted; the application can do no more  *)
(* than write, and then it faults.                                         *)
LEMMA AfterBoot ==
    ASSUME [Next]_vars, pc \in {"app", "fault"}
    PROVE  \/ \E addr \in Addresses, word \in SUBSET CellBits :
                    ApplicationWrites(addr, word)
           \/ Reset
           \/ UNCHANGED vars
BY DEF Next, Erase, Write, EraseFirmware, ErasePage, EraseDone, RestoreWord, RestoreDone,
       WriteFirmwareBlock, ProgramWord, ProgramFault, ProgramDone, BootFirmware, Other,
       PowerFailure

(* Before it, only BootFirmware boots.                                     *)
LEMMA BeforeBoot ==
    ASSUME [Next]_vars, running = "none", pc \notin {"app", "fault"}
    PROVE  \/ running' = "none" /\ pc' # "app"
           \/ \E trust \in {"Full", "Developer"} :
                    /\ pc = "idle" /\ pc' = "app" /\ running' = trust
                    /\ Verifies(trust)
                    /\ UNCHANGED <<flash, ramVars, history>>
<1>1. ASSUME NEW data \in Blocks, NEW wholeWords \in BOOLEAN,
             WriteFirmwareBlock(data, wholeWords)
      PROVE  running' = "none" /\ pc' # "app"
  BY <1>1 DEF WriteFirmwareBlock, bootVars
<1>2. ASSUME NEW trust \in {"Full", "Developer"}, BootFirmware(trust)
      PROVE  \/ running' = "none" /\ pc' # "app"
             \/ /\ pc = "idle" /\ pc' = "app" /\ running' = trust
                /\ Verifies(trust)
                /\ UNCHANGED <<flash, ramVars, history>>
  BY <1>2 DEF BootFirmware, JumpToApp, bootVars
<1>3. CASE Erase
  BY <1>3 DEF Erase, EraseFirmware, ErasePage, EraseDone, RestoreWord, RestoreDone, bootVars
<1>4. CASE ProgramWord \/ ProgramFault \/ ProgramDone \/ Other \/ UNCHANGED vars
  BY <1>4 DEF ProgramWord, ProgramFault, ProgramDone, Other, vars, bootVars
<1>5. CASE Reset \/ PowerFailure
  BY <1>5 DEF Reset, PowerFailure, StartUp
<1>6. ASSUME NEW addr \in Addresses, NEW word \in SUBSET CellBits,
             ApplicationWrites(addr, word)
      PROVE  FALSE
  BY <1>6 DEF ApplicationWrites
<1> QED
  BY <1>1, <1>2, <1>3, <1>4, <1>5, <1>6 DEF Next, Write

LEMMA RunStep ==
    ASSUME TypeOK, Protected, AreaHolds, RunsAfterBoot, BootsWhatWasSent,
           RunsWhatWasVerified, [Next]_vars
    PROVE  RunsAfterBoot' /\ BootsWhatWasSent' /\ RunsWhatWasVerified'
<1>1. CASE pc \in {"app", "fault"}
  <2>1. CASE Reset
    BY <2>1 DEF Reset, StartUp, RunsAfterBoot, BootsWhatWasSent, RunsWhatWasVerified
  <2>2. CASE UNCHANGED vars
    BY <2>2 DEF vars, bootVars, history, RunsAfterBoot, BootsWhatWasSent,
       RunsWhatWasVerified, Verifies, IsStored
  <2>3. ASSUME NEW addr \in Addresses, NEW word \in SUBSET CellBits,
               ApplicationWrites(addr, word)
        PROVE  RunsAfterBoot' /\ BootsWhatWasSent' /\ RunsWhatWasVerified'
    <3>1. /\ pc = "app" /\ pc' \in {"app", "fault"}
          /\ UNCHANGED <<bootVars, history>>
          /\ ~Debug => pc' = "fault"
      BY <2>3, ApplicationDoes
    <3>2. BootsWhatWasSent'
      BY <3>1 DEF BootsWhatWasSent, bootVars, history
    <3> QED
      BY <3>1, <3>2 DEF RunsAfterBoot, RunsWhatWasVerified, bootVars
  <2> QED
    BY <1>1, <2>1, <2>2, <2>3, AfterBoot
<1>2. CASE pc \notin {"app", "fault"}
  <2>1. running = "none"
    BY <1>2 DEF RunsAfterBoot
  <2>2. CASE running' = "none" /\ pc' # "app"
    BY <2>2 DEF RunsAfterBoot, BootsWhatWasSent, RunsWhatWasVerified
  <2>3. ASSUME NEW trust \in {"Full", "Developer"},
               pc = "idle", pc' = "app", running' = trust, Verifies(trust),
               UNCHANGED <<flash, ramVars, history>>
        PROVE  RunsAfterBoot' /\ BootsWhatWasSent' /\ RunsWhatWasVerified'
    <3>1. BootsWhatWasSent'
      <4>1. clean => Holds(acked)
        BY <2>3 DEF AreaHolds
      <4>2. acked' = acked /\ clean' = clean
        BY <2>3 DEF history
      <4> QED
        BY <2>3, <4>1, <4>2, VerifiedIsSent DEF BootsWhatWasSent
    <3>2. RunsWhatWasVerified'
      BY <2>3 DEF RunsWhatWasVerified, Verifies, IsStored
    <3> QED
      BY <2>3, <3>1, <3>2 DEF RunsAfterBoot
  <2> QED
    BY <1>2, <2>1, <2>2, <2>3, BeforeBoot
<1> QED
  BY <1>1, <1>2

-----------------------------------------------------------------------------
(* The invariant.                                                          *)

LEMMA InitialInvariant == Init => IInv
<1> SUFFICES ASSUME Init
             PROVE  IInv
  OBVIOUS
<1>1. TypeOK /\ Places
  BY TypeInit
<1>2. /\ pc = "idle" /\ running = "none" /\ clean = FALSE /\ flash = Factory
      /\ bprot = FlashProtectMbrBootloader
  BY DEF Init
<1>3. /\ ErasedSoFar /\ TailIsSomewhere /\ AreaHolds /\ RunsAfterBoot
      /\ BootsWhatWasSent /\ RunsWhatWasVerified
  BY <1>2 DEF ErasedSoFar, TailIsSomewhere, AreaHolds, RunsAfterBoot,
     BootsWhatWasSent, RunsWhatWasVerified
<1>4. BootloaderIsIntact /\ SoftdeviceIsIntact
  BY <1>2 DEF BootloaderIsIntact, SoftdeviceIsIntact
<1>5. Protected
  BY <1>2, Regions DEF Protected
<1> QED
  BY <1>1, <1>3, <1>4, <1>5 DEF IInv

LEMMA InvariantStep == IInv /\ [Next]_vars => IInv'
<1> SUFFICES ASSUME IInv, [Next]_vars
             PROVE  IInv'
  OBVIOUS
<1>1. TypeOK' /\ Places'
  BY TypeStep DEF IInv
<1>2. Protected' /\ BootloaderIsIntact'
  BY ProtectedStep, BootloaderStep DEF IInv
<1>3. ErasedSoFar' /\ TailIsSomewhere' /\ SoftdeviceIsIntact'
  BY ErasedStep, TailStep DEF IInv
<1>4. AreaHolds'
  BY AreaStep DEF IInv
<1>5. RunsAfterBoot' /\ BootsWhatWasSent' /\ RunsWhatWasVerified'
  BY RunStep DEF IInv
<1> QED
  BY <1>1, <1>2, <1>3, <1>4, <1>5 DEF IInv

LEMMA Invariance == Spec => []IInv
BY InitialInvariant, InvariantStep, PTL DEF Spec

-----------------------------------------------------------------------------
(* Every variable has its type, and every address the code computes is one *)
(* of flash.                                                               *)
THEOREM TypeCorrect == Spec => []TypeOK
<1>1. IInv => TypeOK
  BY DEF IInv
<1> QED
  BY <1>1, Invariance, PTL

(* EraseFirmware gives back every word of the SoftDevice that it erases,   *)
(* for every geometry and however requests and resets follow each other.   *)
THEOREM SoftdeviceCorrect == Spec => []SoftdeviceIsIntact
<1>1. IInv => SoftdeviceIsIntact
  BY DEF IInv
<1> QED
  BY <1>1, Invariance, PTL

(* No request, failure or application changes the MBR or the bootloader.   *)
THEOREM BootloaderCorrect == Spec => []BootloaderIsIntact
<1>1. IInv => BootloaderIsIntact
  BY DEF IInv
<1> QED
  BY <1>1, Invariance, PTL

(* The area holds what WriteFirmwareBlock acknowledged since the erase.    *)
THEOREM AreaCorrect == Spec => []AreaHoldsAcknowledged
<1>1. IInv => AreaHoldsAcknowledged
  BY DEF IInv, AreaHolds, Holds, AreaHoldsAcknowledged
<1> QED
  BY <1>1, Invariance, PTL

(* BootFirmware boots an image that was acknowledged word for word.        *)
THEOREM BootCorrect == Spec => []BootsWhatWasSent
<1>1. IInv => BootsWhatWasSent
  BY DEF IInv
<1> QED
  BY <1>1, Invariance, PTL

(* The application stays the one that BootFirmware verified.               *)
THEOREM RunCorrect == Spec => []RunsWhatWasVerified
<1>1. IInv => RunsWhatWasVerified
  BY DEF IInv
<1> QED
  BY <1>1, Invariance, PTL

=============================================================================
