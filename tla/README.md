# Verification of the Prime BLE firmware

TLA+ models of the two programs that run on the nRF52805 beside Passport
Prime's main processor: the Bluetooth application (`firmware/`) and the
bootloader (`bootloader/`), with the host tool that updates the one through the
other (over a bridge that is not in the repository, see section 6) and the tool that
builds, signs and merges both into images (`xtask/`).
TLC checks them on small instances; TLAPS proves the most important properties
for every value of the constants.

## 1. The system

The main processor (the *host*) is master of an SPI bus. It sends one
postcard-encoded request at a time and clocks the response out. Which program
answers depends on which one runs: after a reset always the bootloader, after a
successful `BootFirmware` the application.

| Part | Source | State | Operations | Hard about it |
|---|---|---|---|---|
| Host-protocol handler | `firmware/src/comms.rs` | `BT_STATE_COPY`, the response being written | one handler per request | requests interleave with the Bluetooth loop at its await points; state is taken before the response is known to be read |
| Bluetooth loop | `firmware/src/server.rs` | where its futures are suspended; `CONNECTION` | advertise, store a connection, serve GATT, restart on a change, stop on Disable | futures are dropped at await points; SoftDevice events arrive late; one link only |
| Statics and executor | `firmware/src/main.rs` | `BT_ENABLE`, `BT_ADV_CHANGED` (signals of one place), `DEVICE_NAME`, `BT_ADV_CHAN`, `TX_PWR_VALUE`, `BT_DATA_RX`, `BT_DATA_RX_OVERFLOW`, the interrupt pin | `select(comms, ble)` beside the SoftDevice task | a signal overwrites the one before; poll order decides races |
| Nordic UART service | `firmware/src/nus.rs` | none of its own | put a packet in `BT_DATA_RX`, set the flag, lower the pin | the channel has 16 places, and the central does not wait |
| Bootloader command loop | `bootloader/src/main.rs` | `boot_status.offset`, `seal` | `EraseFirmware`, `WriteFirmwareBlock`, `ChallengeSet`, `BootFirmware`, ... | flash bits cannot be set again without an erase; the first page is shared with the SoftDevice; power may fail at any word |
| Verification, `write_secret` | `bootloader/src/verify.rs` | UICR words 0..8 | verify twice, write 8 words, read back, seal | UICR is never erased, so every failure is permanent |
| Jump | `bootloader/src/jump_app.rs` | - | hand over to the application | assumes that the SoftDevice is present |
| Constants | `consts/`, `bootloader/src/consts.rs` | - | addresses, seals, page size | `BASE_APP_ADDR` is inside a page |
| Protocol messages | `host-protocol/src/lib.rs` | - | encodings, `is_request` | - |
| Host tool | `host-protocol/examples/host_control.rs` | the block it waits for | erase, then one block after another, each awaited no longer than a timeout | late, lost and unexpected answers; requests carry no checksum; nothing is sent again, and nothing says that an update did not complete |
| Build and signing tool | `xtask/src/main.rs` | the files in `BtPackage`, `BtPackageDebug`, `misc` | seven commands, each a sequence of steps over files | what a command does depends on the files earlier ones, perhaps killed, left behind |
| `merge_files` | `xtask/src/main.rs` | upper address, next patch | read, sort, patch and write records of Intel HEX | four kinds of address record; one patch a record |
| Linker scripts | `bootloader/build.rs`, `firmware/build.rs` | - | regions of flash and UICR | depend on the feature `debug` |
| Test tools | `host-ble/`, `saleae-hla` | - | throughput tests, traces | - |

How the parts interact. The handler signals the loop (`BT_ENABLE`,
`BT_ADV_CHANGED`) and reads or closes the connection it stored (`CONNECTION`).
The GATT server's callback runs in the SoftDevice task and fills `BT_DATA_RX`,
which `GetReceivedData` empties; the pin is how the host learns of it. The
bootloader hands over to the application through flash and UICR only: the image
that verified, and the seal that says whether challenges are answered. Flash
itself first gets there as an image that `xtask` merged from the SoftDevice, the
signed application and the bootloader; later applications come block by block
from a host.

What makes each part correct:

* radio control: the state that is reported, the signals, the loop and the
  SoftDevice agree; no setting and no link is lost; the radio does what was asked
  of it last;
* data path: packets arrive once and in order, and a loss is never silent on
  the device's side; a waiting packet is announced;
* secret: it is sealed once, after it was read back; it is wiped before developer
  firmware runs, and only then; a failure never makes it look like another one;
* application area: the SoftDevice and the bootloader survive every update, what
  boots is exactly what was acknowledged, and what runs stays what was verified;
* update: an update the tool completes with every answer as it should be is in
  flash, whatever was lost or garbled; an acknowledgement that matches is true; and
  the tool never waits for ever;
* images: each part where the linker and the bootloader expect it, of one build,
  under a header that the bootloader accepts; success means that the image is there.

`PROJECT.json` lists the hazards at the lines where they bite, each with the
properties that cover it.

## 2. The modules

```
RadioSwitch      <--implements--  BleControl     <-- BleControlProofs,     MCBleControl
PacketQueue      <--implements--  NusData        <-- NusDataProofs
SecretLifecycle  <--implements--  SecretStore    <-- SecretStoreProofs,    MCSecretStore
                                  FirmwareFlash  <-- FirmwareFlashProofs,  MCFirmwareFlash
SecretStore, FirmwareFlash  -->   Bootloader     <-- BootloaderProofs,     MCBootloader
FirmwareFlash               -->   FirmwareUpdate <-- FirmwareUpdateProofs, MCFirmwareUpdate
                                  HexMerge       <-- HexMergeProofs
HexMerge                    -->   ReleaseTool    <-- ReleaseToolProofs,    MCReleaseTool
```

**BleControl** is the radio control. `turn` names the future that is polled:
the executor picks the SoftDevice task or the main task (`PollSoftdevice`,
`PollMain`); the main task polls `comms`, then the inner Bluetooth future
(`inner`), then `check_stopped` (`stop`). One step runs a future from one await
point to the next, so that nothing but the SoftDevice, which preempts
everything (`AirConnect`, `AirDisconnect`), comes between the statements of a
handler. `ble` is the await point the loop is suspended at. `Signal` holds one
value: `btEnable` and `btAdvChanged` are overwritten by the next signal.
`advResult` is the connection the library has handed to the advertise future
but that future has not yet been polled for; dropping the future drops it. The
life of a link is `link` (SoftDevice), the `events` that tell of it, and the
handles `advResult` and `connection`, which a disconnected event makes stale.

External and modelled from how the source uses it: nrf-softdevice hands a
connected event to the waiting advertise future and drops it when there is
none; dropping the advertise future stops the advertiser; with `conn_count: 1`
the SoftDevice refuses a connectable advertiser while a link exists, and one without
a channel; a mask with other bits than those of the three channels it may refuse or
not (`Startable`, `Refusable`); the last handle of a live connection disconnects it
when dropped. A mask is any set of the bits of its byte (`MaskBits`): `AdvChan` keeps
the undefined ones when it is decoded, and the handler refuses exactly 0xE0.

**NusData** is the data path: `RxWrite` is `Nus::handle`; `GetReceivedData`,
`GetStatus` and `SendData` are the handlers. A pending response (`resp`) holds
every firmware action back, as `blocking_write_from_ram` does. The host reads
it or gives it up; the code ignores which. `written`, `delivered`, `dropped`,
`reported` and `lost` are histories. What becomes of `CONNECTION` is
abstracted to what `SendData` sees of it. **PacketQueue** is what a host may rely
on: a queue of bounded length, in which a packet that finds no place leaves a mark,
and which a packet leaves at the front only, to the host (`Deliver`) or with an
answer the host gave up (`GiveUp`). Its queue is the channel with the packet of a
pending response in front of it (`Transit`), and its mark is the flag or the status
that carries it.

**SecretStore** is the secret. A word of flash is the set of its bits that are 1,
so that programming is intersection, and a word whose programming is cut short
is any set between the new and the old value (`Torn`). `pc` is where
`write_secret` is. The two seals, 0x5A5A5A5A and 0x42424242, repeat one byte,
which stands for them. `BootFirmware` stands for one with an image that
verifies. **SecretLifecycle** is what its users rely on: blank, sealed with the
secret that was sent, wiping, wiped.

**FirmwareFlash** is the application area. Addresses count words. `EraseFirmware`
saves the SoftDevice's words of the shared page in `saved`, `ErasePage` erases
page after page, `RestoreWord` writes them back; `WriteFirmwareBlock` checks the
range as the code does and `ProgramWord` programs. `bprot` is what BPROT
protects: the MBR and the bootloader from the start on, the SoftDevice and the
application from the moment before the jump; `Debug` is the feature that leaves
both out. `ApplicationWrites` is a running application that writes to flash,
which meets nothing but that protection. A signed image is a sequence of words with a trust level; it verifies when
flash holds all of its words. `acked`, `clean` and `interrupted` are histories.

**Bootloader** composes the two: the command loop is sequential, so that one side
moves only while the other is idle; `BootFirmware` verifies on one side and then
wipes on the other; both start together.

**FirmwareUpdate** puts `host_control` at the other end of a line over
FirmwareFlash. `tool` is the answer it waits for, `chunkIdx` the block; requests
and answers are queues of which the head may be lost. Nothing on the line checks a
request, so that `Receive` finds what was sent or any of `Forgeries`: a block with
other data, another index or a length that is not whole words, an erase, a boot, or
something that does not decode. The bootloader serves it like any other, and answers
with the index and the checksum of what *it* got; what the tool makes of that is
`Matches`. `Start` with `EraseApp` or `UpdateApp` finds a line that has gone quiet; a
port that nobody has open keeps no answer (`Reply`, `ToolEnds`).
`Timeout` may come at any time; `BlockAnswered` follows the nested matches
of the code, in which only a refusal or a mismatch stops the tool. `Elsewhere` is every
other host, between two runs of the tool, so that an update finds flash in any
state; `Application` is the application that runs after a boot, which answers that
the tool's requests are inappropriate and may write to flash. `confirmed` is a
history: every block so far had its matching answer.

**HexMerge** is `merge_files` as operators over records: `ReadIHex` and
`ReadBinary` make addressed records of the inputs, `Sorted` sorts them,
`WriteRecord` is the body of the output loop, and `Merge` all of it. Each loop is a
body (`Read`, `Insert`, `WriteRecord`) and a recursive function that repeats it.
`Contents` is the reference: what a programmer of the standard format loads from a
file. `Over` lays one memory on another.

**ReleaseTool** is the commands of `xtask` over the files there are. `todo` holds
the steps a command has left (`Steps` is `main`); a step may fail before its effect
(`Fail`), `rm` and the write of an image half way (`RemoveFails`, `WriteImage`).
A built crate is known by the sources and features it was built of, a signed
application also by its signatures, and an image is the records of its file. Of
the external programs, objcopy writes the records that llvm-objcopy writes (segment
addresses as far as they reach, then linear ones, the entry point last), and
cosign2 puts a header of the given size in front of the binary and adds one
signature a pass, or fails.

Actions of the model are named after the request or the function they model;
`PROJECT.json` maps every definition to its lines. Each module also holds, right
before the definition they vary, a few *mutants*: the plausible mistakes that show
that each property can fail.

## 3. What TLC checks

| Run | Module, bounds | Shows |
|---|---|---|
| `radio_control` | MCBleControl: 2 names, masks {}, {37}, all three channels and the whole byte, 2 powers, 4 pending events, `FairSpec` | `TypeOK`, `StateCopyAgrees`, `AdvertisesCurrentSettings`, `GattHasConnection`, `AdvertisingIsOwned`, `LinkIsReachable`, `SwitchSpec` (refinement of RadioSwitch, its liveness included), `BecomesDiscoverable`, `SettingsReachTheAir` |
| `data_path` | NusData: 2 places, 2 notifications, 4 packets, `FairSpec` | `TypeOK`, `IrqWhileData`, `DeliveredInOrder`, `EveryPacketAccounted`, `QueuedIsFetched`, `QueueSpec` (refinement of PacketQueue, its liveness included) |
| `secret` | MCSecretStore: 2 words of 2 bits, 6 secrets | `TypeOK`, `SealCopyAgrees`, `SealedAnswerHolds`, `DeveloperIsUnsealed`, `RetryCanSucceed`, `LifecycleSpec` |
| `firmware_update` | MCFirmwareUpdate: 4 pages of 2 words of 2 bits, 2 images, the tool's blocks of 1 word, others of up to 2, `UpdateSpec` | `TypeOK`, `UpdateTypeOK`, `SoftdeviceIsIntact`, `BootloaderIsIntact`, `AreaHoldsAcknowledged`, `BootsWhatWasSent`, `RunsWhatWasVerified`, `AreaFollowsTool`, `CompleteUpdateIsStored`, `UpdateEnds` |
| `bootloader` | MCBootloader: 4 words, 2 images, 2 secrets of one word | `OnlyTrustedHoldsSecret`, `SecretIsKept` |
| `release_image` | MCReleaseTool: 2 versions of the sources, any number of commands, a map of 5 segments of 8 bytes | `TypeOK`, `MergesAreExact`, `ImagesAreExact`, `ImageIsOneBuild`, `PackagedIsSigned`, `SuccessLeavesImage` |

The comment before each property says what it means.

Why the bounds are enough. The Bluetooth loop tells apart only whether a setting
equals the one on the air, so that two values of each suffice; four events are
two links, one of which ends while the other's event waits (`AirConnect` keeps
room for the disconnection, so that the bound never blocks one). The data path
compares the channel's length with its capacity: two places and four packets
overflow it, drain it and fill it again. For the secret, two words make
failures before, inside and after a word distinct, and two bits let one secret
clear what another needs. Flash has a page for the MBR, one the SoftDevice and the
application share, one of the application, and one of the bootloader, which a
block can reach into; the two images are of two blocks and of three
and share words, so that remains of one can complete the other and a block written
twice, or garbled, shifts or spoils the rest. A block that is garbled becomes any of the
blocks of the instance. In the
bootloader run it is cut down to four words, for the secret multiplies it. Images
have a SoftDevice in two segments with two patches in each, an application across
a border of segments, and UICR words out of reach of segment addresses; two
versions of the sources are enough to mix two builds, and the number of commands is
not bounded. The proofs of section 5 need none of these bounds.

Six runs check a statement of the repository that the code does not keep:
each stops at a counterexample.

| Run | Statement | What happens |
|---|---|---|
| `advertise_panics` | `unwrap!(conn, "Advertise failed")`, firmware `server.rs:129` | A central connects; before its event is dispatched the host changes a setting (or has just sent Disable and Enable): the loop starts advertising over a link it does not know of, the SoftDevice refuses, and the application panics and no longer answers. |
| `radio_off` | `State::Disabled`, "BLE radio is off", `host-protocol/src/lib.rs:268` | Disable arrives while a connection is handed over but not stored: the loop stores it and is then stopped, and the link stays up. A later Disable or Disconnect closes it. |
| `seal_over_zeros` | "provisioned", `consts/src/lib.rs:52` | Power fails in the wipe: the seal of a provisioned secret stays over zeros, and challenges are answered under a zero key until the next developer boot finishes the wipe. |
| `write_range` | "Validate write is within application area", bootloader `main.rs:296` | The check admits `BASE_BOOTLOADER_ADDR` and ignores the length. Only the hardware protection, off in debug builds, keeps the bootloader whole (`BootloaderIsIntact`). |
| `softdevice_tail` | "assuming softdevice is present", `jump_app.rs:14` | Power fails between the erase of the shared page and the restoration of its words: they are gone, and an image that verifies is booted without them. (To repeat `EraseFirmware`, which the run need not do, would save the erased ones.) |
| `debug_image` | "without: Flash protection", `xtask/src/main.rs:38-39`, and `README.md:90` | Neither debug build passes `--features debug`: the image carries APPROTECT and a bootloader that sets BPROT up, and an application linked behind a header that nobody put there. |

Others are modelled and have no run: `DisableChannels` with 0xFF or 0xE1 is
acknowledged, for only 0xE0 is refused (`comms.rs:70`), and disables all three channels:
if the SoftDevice refuses such an advertiser, which is not in the repository, the
`unwrap!` of `server.rs:129` panics here too (in the liveness properties, `halted`);
after a Disable `CONNECTION` is not cleared, so
that `GetStatus` says Connected for a link that is gone and `GetState` says Disabled
(`server.rs:188`); a response that the host does
not read takes its packet or overflow flag with it (`lost` in NusData; compare
`main.rs:63`); `SendData` answers BufferFull without a connection or a
subscription (`comms.rs:140,144`; compare `host-protocol/src/lib.rs:291`); the
checksum in `AckWithIdxCrc` is that of the data received and not of flash
(bootloader `main.rs:306`); an answer that is neither an acknowledgement nor a refusal
lets the tool go on to the next block (`confirmed` is false); the index of a block is echoed and not used, although it is
documented as "Write firmware block at specified index"
(`host-protocol/src/lib.rs:195`): after a restart of the bootloader in the middle of
an update (`clean` is false) the tool may complete it over a wrong area, and only
the verification notices; a `PackageFirmware` is good for one time, for it removes
`bootloader.hex`.

## 4. Fairness

* `WF(MainTask)` and `SF(PollSoftdevice)` in BleControl: every signal, SPI
  transfer and SoftDevice interrupt wakes its task, and a pass of the embassy
  executor polls every task that was woken. The host reads a response it asked
  for; a host that stops in the middle stops the device (`comms.rs:58` blocks).
* `WF(link = "closing" /\ AirDisconnect)`: a disconnection that was requested
  completes, at the latest by the supervision timeout.
* `WF(EraseAnswered \/ BlockAnswered \/ Timeout)` in FirmwareUpdate: the tool's
  timers expire. Neither the line nor the bootloader is assumed to do anything.
* Nothing is assumed of the host's requests or of the central.
* `FairSpec` of NusData assumes a host that answers the pin: while it is low it
  asks for data again and again (`SF(FetchWhileLow)`), and ends each transfer
  (`WF(HostReads)`). `QueueSpec` needs it too: PacketQueue promises that what is at
  the front leaves.

Liveness under these assumptions is TLC's alone. A panic (`turn = "halted"`) is
named in the liveness properties where the code can panic.

Deadlock is checked in every run. No model stops.

## 5. What is proved

Every invariant and action property of a passing run is the statement of a theorem,
and so are the steps of the three abstract specifications.

The proofs are for arbitrary constants under the named assumptions of the modules:

* BleControl: a default name among the names, masks over the eight bits of their byte,
  powers that exist. NusData: places for at least one packet and one notification.
* SecretStore: at least one word, and secrets of that many words.
* FirmwareFlash (`GeometryAssumption`, `ContentsAssumption`): the first page ends
  below or at the application, the application lies below the bootloader, and the
  bootloader begins at a page, as `consts/src/lib.rs` has it. `Bootloader` states the
  same of its own constants (`FlashAssumption`).
* FirmwareUpdate: chunks of at least one word (`ChunkAssumption`), each of which is a
  block a host may send (`BlocksAssumption`).
* HexMerge (`HexAssumption`): the segment size is a multiple of the unit of segment
  addresses and of the pieces a binary is read in.
* ReleaseTool, `LayoutAssumption`: linked code fits its region, the signature header
  is at least one byte, and the UICR words are out of reach of segment addresses.
* ReleaseTool, `SoftDeviceAssumption`: the vendor's file holds data and address records
  only, which do not overlap and begin in the first segment; it ends below the
  application; the patches are listed from the highest address down, each in a record
  of its own. All of it is true of `misc/s113_nrf52_7.3.0_softdevice.hex` (its last byte
  is at 0x1B3D3, the application begins at 0x1B400) and of `patches_7_3_0`, and some of
  it is needed: `merge_files` writes one patch a record and tries only the last of
  those that are left.

TLC evaluates each of them in a run.

**BleControlProofs.** `TypeCorrect`, `Correct` (all five safety invariants, all
of them also stated by name), `FollowsSwitch` (initial states and steps of
RadioSwitch). The invariants are not inductive as they stand. `ResultIsAwaited`
says that the advertise future holds a connection only while the loop is
suspended at it and has not been polled; without it, a stop could lose a link
that `LinkIsReachable` counts as handed over. `HandlesDieTogether` and
`LinkHandle` say which link an event speaks of: a queued disconnection can make
stale only handles of an earlier link. `FollowsSwitch` uses `StateCopyAgrees` to
show that a stop or a start goes the way the host last asked.

**NusDataProofs.** `TypeCorrect`, `PinCorrect`, `OrderCorrect`, `AccountCorrect`: for
every capacity of the channel and every number of packets. The argument follows one
sequence, `Stream`: what the host has, reads and will read. A write appends to it, a
fetch and a read leave it alone, and only a response that is given up takes a packet
out. `StreamIsWritten` is the strengthening: a packet that is on its way was
written, so that the next one is greater than all of them. `FollowsQueue` shows the
steps of PacketQueue: a fetch and a request for the status are stutters, because
what they take stays under way in the response (`PacketInFlight`); it is the end of the
transfer that delivers, or gives up. A write finds no response under way, so that the
channel alone decides whether there is a place.

**SecretStoreProofs.** `TypeCorrect`, `CopyCorrect`, `AnswerCorrect`,
`DeveloperCorrect`, `RetryCorrect`. The key to the induction is
`SpentSealOverZeros`: only a wipe takes bits from a seal, and by then the secret
is zero, so that a later `ChallengeSet` (which the code does let through when a
wipe tore the seal) fails at its read-back and never writes its seal.
`JobIsWhole` ties secret and seal of the call together, `Progress` says what the
loop has done so far, and `CommonBitsRemain` is `RetryCanSucceed` in the form
that a torn word keeps. `FollowsLifecycle` shows that SecretStore implements
SecretLifecycle. It needs one invariant more, `OnlyLoses`: one secret at most was ever
read back, and under its seal words only lose bits, so that a secret of which a wipe
took one bit never looks whole again. Each step of the bootloader is put into one of
four classes (`UicrStep`: the words rest, lose bits, are read back, or are sealed) and
the class decides the step of the abstract specification.

**FirmwareFlashProofs.** `TypeCorrect`, `SoftdeviceCorrect`, `BootloaderCorrect`,
`AreaCorrect`, `BootCorrect`, `RunCorrect`: for every geometry, factory content, set of
blocks and set of images. The properties speak of the moments between two requests;
the invariant has to say what holds inside one. `Places` is where an erase, a
restoration or a block can be: an erase goes from page border to page border, which
is why it ends at the bootloader and not behind its first word. `ErasedSoFar` keeps
what is erased, so that programming, which only clears bits, leaves exactly what was
sent. `TailIsSomewhere` says that, unless the power failed, each word of the SoftDevice
that is not in flash is in `saved`, at the place `RestoreWord` takes it from. `AreaHolds` is
`AreaHoldsAcknowledged` in the middle of a block. `Protected` is what BPROT covers:
it, not the check of the range, keeps the bootloader whole, and it is what a running
application meets (`RunsAfterBoot`).

**FirmwareUpdateProofs.** `UpdateRefinesFlash`: each step of an update is a step of
FirmwareFlash or leaves it alone; with it, `UpdateKeepsFlash` carries all that is
proved of FirmwareFlash over. `UpdateTypeCorrect`, `AreaFollows` and `UpdateStores` need
`UpdateInv`: while every answer so far was the one the tool waits for, at most one
message is under way (`Alone`): a request on the line, one that is served, or an
answer. Which it is, `Erasing`, `Writing` and `Complete` tell, and what the area holds
then. A block that is served comes behind the file as far as the tool has come, be it
the tool's or what the line made of it, and an acknowledgement is of what was
programmed; so the area is right whenever one matches (`AreaFollowsTool`), and may hold
anything while one that does not is on its way, which ends the update. `ServesOne` and
`AckedFits` tie the line to what the bootloader is at. In a debug build nothing keeps a
block out of the bootloader, and `UpdateStores` speaks of images that fit the area.

**BootloaderProofs.** `Meet` says where the two sides can be together.
`SecretRefined` and `FlashRefined` show that the whole bootloader is a behaviour of
SecretStore, because a power failure while flash is at work finds the secret at rest,
and of FirmwareFlash; so the theorems of both carry over (`SecretCorrect`, its life
included, and `FlashCorrect`), and with `Meet` they give `OnlyTrustedCorrect` and
`SecretKept`. Since the running application may write to flash, `Meet` also needs
what BPROT protects: `AreaIsCovered` says that the application area is within it from
the jump on, and `VerifiedStays` that an image that verified goes on to. A debug
build has no protection, and `OnlyTrustedHoldsSecret` speaks of the others only.

**ReleaseToolProofs.** `TypeCorrect` and `FoldersCorrect` hold without a hypothesis:
whatever commands ran, failed or were killed, all that is in `BtPackage` is of one
state of the sources, and so is all in `BtPackageDebug`; each file there has the
contents and the signatures its name says, an image torn at most (`OneBuild`). The
invariant says how far a command is (`TodoIsRest`), what it may rely on behind its
first step (`Cleaned`: no file of another version, no first signature) and behind the
one that packages (`Packaged`). `ImagesCorrect`, `OneBuildCorrect`, `SignedCorrect` and
`SuccessCorrect` read images, and rest on what `merge_files` computes of any two builds
(`MergesExact`, from which `MergesCorrect` follows). For that, each input of a merge is
shown to hold the memory of its linked code (`BootloaderHolds`, `AppHolds`,
`SignedHolds`): the records that objcopy writes are built one after another in
`DumpHolds`. `PatchedBeside` and `WithSoftDevice` lay them beside the patched
SoftDevice, which by the layout they do not touch.

**HexMergeProofs.** `MergeCorrect`: for every list of addressed records that are
apart, hold a memory and begin in the first segment, and all patches that fit them, a
programmer loads from the merged file exactly that memory with the patches in it. The
order of the records, the size of each, and how many segments they lie in do not
matter. The induction over data
that this takes cannot be had from the library's theorems, which are about an arbitrary
predicate; it is had for *sets*: `Induction` says that a set with 0 and the successor
of each member holds all naturals, by the pigeonhole theorem (counting down from a
number outside the set would squeeze 0..n into 0..(n - 1)), and `SeqInduction` the same of
sequences. That each recursive function has the value its equation gives it is itself
such an induction, once for each loop (`LoadAllIs`, `ReadAllIs`, `SortedIs`,
`WriteAllIs`). With these, the proof follows the code: what was read so far *holds* a
memory (`Hold`; `ReadPlain` for a file of the vendor, `ReadBinaryHolds` for a binary);
the sort permutes it (`SortedFacts`); and after i records are written (`Wrote`) the
output makes the memory of the first i, the upper address is that of a programmer at
that place, and the patches left are those of the records to come (`NextPatch`).

Not proved, and checked by TLC only:

* liveness and fairness: `BecomesDiscoverable`, `SettingsReachTheAir`,
  the liveness of `SwitchSpec` and of `QueueSpec`, `QueuedIsFetched`, `UpdateEnds`;
* the violations of section 3, which are counterexamples.

## 6. What is left out

* Power failure *between* two SoftDevice calls of the application is a
  `PowerCycle` at any step. The application writes no flash of its own accord; what
  it could write is in FirmwareFlash, its writes to UICR are not.
* The cryptography: an image verifies if it is one of the signed ones; HMACs under
  different keys are different. Glitch counter-measures (double verification,
  random delays) have no meaning in the model.
* Negative answers of `EraseFirmware`: the flash driver refuses only addresses
  that are not aligned or out of range, and these are constants. Nor does the wipe of
  the secret fail its writes, whose result the code ignores (bootloader `main.rs:369`):
  zeros can be programmed over any word. A memory that does not take a write is not
  modelled; a power failure that tears it is, bit by bit, in an erase too.
* `actual_sector`, `actual_pkt_idx`: written, logged, never read.
* Connection parameters, data length, RSSI: requests whose results change nothing.
* The bridge. `host_control` sends COBS packets over a serial port, the bootloader
  reads bare postcard from SPI and puts a length before its answers. Whatever
  translates between the two is not in the repository; it is taken to hand messages
  over one by one, and is part of the line that loses and garbles them.
* The partial reads of the tool's serial port, and answers to requests of an earlier
  run: a person starts it again only when the line is quiet.
* An answer that the line turns into the acknowledgement the tool waits for, and two
  blocks with one checksum: in the model a checksum is the data. A garbled answer that
  is none is `ReadError` or `Timeout`. A request that is garbled into a `Reset` is
  `LoseRequest` and `Reset`.
* What holds across start-ups and passed-over answers. `clean` ends with each start-up
  of the bootloader: `AreaHoldsAcknowledged`, `BootsWhatWasSent` and the two properties of
  an update say nothing of an area that was filled across start-ups or torn by a power
  failure. `confirmed` ends with an answer that the tool passes over. The behaviours
  are in the model, and what boots then is an image that verifies, no more.
* In the build: edits of the sources while a command runs, two commands at once, the
  version field of the signed header, the compilers, and the binaries that are made to
  print their size. The output of an external program is there whole or not at all.
* The logic-analyser plug-in, `host-ble`, and the commands of `host_control` that send
  one request and print the answer.

## 7. Plan

1. *Firmware*: compose BleControl and NusData over one connection, for the packets
   of an earlier connection and writes before the GATT server runs.
2. *SpiLink*: the framing of requests and responses, the padding, a host that
   polls too early, an idle poll that decodes as a request.
3. *Protocol*: the `is_request` tables against the handlers of both programs.
4. Proofs: the invariants of the composed *Firmware*.
