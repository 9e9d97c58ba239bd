----------------------------- MODULE ReleaseTool -----------------------------
(***************************************************************************)
(* The build and signing tool (xtask/src/main.rs): which files its         *)
(* commands leave in BtPackage, BtPackageDebug and misc, and what is in    *)
(* the images made of them.  A command is a sequence of steps, each of     *)
(* which may fail, and the tool may be killed between and inside them.     *)
(* Commands run one at a time, in any order, and the sources change only   *)
(* between two commands.                                                   *)
(*                                                                         *)
(* cargo, objcopy and cosign2 are external.  What one of them writes is    *)
(* there whole or not at all; what the tool itself writes may be torn.     *)
(* Binaries made only to print their sizes are left out.                   *)
(***************************************************************************)
EXTENDS HexMerge

CONSTANTS
    BASE_APP_ADDR,
    SIGNATURE_HEADER_SIZE,
    BASE_BOOTLOADER_ADDR,
    UICR_BOOTLOADER_ADDR,    \* the word .mbr_uicr_bootloader_addr
    UICR_APPROTECT,          \* the word .uicr_approtect
    SoftDevice,              \* misc/s113_nrf52_7.3.0_softdevice.hex
    patches_7_3_0,
    VendorByte,              \* the bytes of both
    CodeSize(_, _),          \* bytes of a crate ("bootloader", "app") at a version
    Keys,                    \* keys that cosign2.toml may name
    MaxVersion               \* bound: versions of the sources

ASSUME BoundsAssumption == MaxVersion \in Nat \ {0} /\ Keys # {}

(* Linked code fits its region (else the linker fails), and a record of    *)
(* the binary never crosses a segment.                                     *)
ASSUME LayoutAssumption ==
    /\ {BASE_APP_ADDR, BASE_BOOTLOADER_ADDR} \subseteq Nat /\ SIGNATURE_HEADER_SIZE \in Nat \ {0}
    /\ {UICR_BOOTLOADER_ADDR, UICR_APPROTECT} \subseteq Nat \ 0 .. (SEGMENT * PARAGRAPH - 1)
    /\ BASE_APP_ADDR % CHUNK = 0
    /\ BASE_APP_ADDR + SIGNATURE_HEADER_SIZE < BASE_BOOTLOADER_ADDR
    /\ \A v \in 1..MaxVersion :
        /\ CodeSize("app", v) \in
                1..(BASE_BOOTLOADER_ADDR - BASE_APP_ADDR - SIGNATURE_HEADER_SIZE)
        /\ CodeSize("bootloader", v) \in 1..(SEGMENT * PARAGRAPH - BASE_BOOTLOADER_ADDR)

PatchedSoftDevice == Patched(Contents(SoftDevice), patches_7_3_0)

(* The file of the vendor has no start address, begins in the first        *)
(* segment, ends below the application and holds no byte of what is built  *)
(* here; its records are apart, and each of the patches is in another.     *)
ASSUME SoftDeviceAssumption ==
    /\ SoftDevice \in Seq(PlainRecords(VendorByte))
    /\ Apart(ReadIHex(SoftDevice))
    /\ \E r \in ToSet(ReadIHex(SoftDevice)) : r.addr < SEGMENT
    /\ patches_7_3_0 \in Seq([addr : Nat, value : VendorByte])
    /\ PatchesFit(patches_7_3_0, ReadIHex(SoftDevice))
    /\ \A a \in DOMAIN PatchedSoftDevice :
        /\ a \in 0 .. (BASE_APP_ADDR - 1)
        /\ PatchedSoftDevice[a].part \notin {"bootloader", "app", "header"}

VARIABLES
    version,   \* of the sources
    cmd,       \* the command that runs, "none" between two
    todo,      \* steps it has left
    atRoot,    \* it was started in the root of the repository
    key,       \* key of the cosign2 config it signs with
    exit,      \* of the command
    files      \* from the names of the files there are to their contents

vars == <<version, cmd, todo, atRoot, key, exit, files>>

PackageFiles == {"bootloader.hex", "BT_application.bin", "BT_application_signed_once.bin",
                 "BT_application_signed.bin", "BTApp_Full_Image.hex", "BT_Minimal_Image.hex"}
DebugFiles == {"bootloaderDebug.hex", "BtappDebug.hex", "BTApp_Full_Image_debug.hex"}
Images == {"BTApp_Full_Image.hex", "BT_Minimal_Image.hex", "BTApp_Full_Image_debug.hex",
           "softdevice_patched.hex"}

(* main                                                                    *)
Steps == [
    BuildFwImage      |-> <<"clean", "bootloader", "firmware", "sign", "package", "tidy">>,
    BuildMinimalImage |-> <<"clean", "bootloader", "minimal", "tidy">>,
    BuildUnsigned     |-> <<"toolchain", "clean", "bootloader", "firmware">>,
    SignFirmware      |-> <<"sign">>,
    PackageFirmware   |-> <<"package", "tidy">>,
    BuildFwDebugImage |-> <<"cleanDebug", "bootloaderDebug", "firmwareDebug",
                            "packageDebug", "tidyDebug">>,
    PatchSd           |-> <<"patchSd">>]

-----------------------------------------------------------------------------
(* What is built: memory.x of the two crates says where it is.             *)

Build(features) == [source |-> version, features |-> features]

Code(crate, build, origin) ==
    [a \in origin .. (origin + CodeSize(crate, build.source) - 1) |->
        [part |-> crate, build |-> build, at |-> a]]

UicrWords(build) ==
    {UICR_BOOTLOADER_ADDR} \cup (IF "debug" \in build.features THEN {} ELSE {UICR_APPROTECT})

BootloaderMemory(build) ==
    Over(Code("bootloader", build, BASE_BOOTLOADER_ADDR),
         [a \in UicrWords(build) |-> [part |-> "uicr", at |-> a]])

AppOrigin(build) ==
    BASE_APP_ADDR + (IF "debug" \in build.features THEN 0 ELSE SIGNATURE_HEADER_SIZE)

AppMemory(build) == Code("app", build, AppOrigin(build))

Padding == [part |-> "padding"]

(* BT_application.bin, padded up to the bootloader, behind its header.     *)
SignedMemory(app) ==
    Over(AppMemory(app.build),
         [a \in BASE_APP_ADDR .. (BASE_BOOTLOADER_ADDR - 1) |->
            IF a < AppOrigin(app.build) THEN [part |-> "header", app |-> app] ELSE Padding])

SignedBinary(app) ==
    [i \in 1 .. (BASE_BOOTLOADER_ADDR - BASE_APP_ADDR) |->
        SignedMemory(app)[BASE_APP_ADDR + i - 1]]

(* llvm-objcopy -O ihex: a record of each byte, in the order of addresses. *)
(* Offsets count from a segment address as far as segments reach, from a   *)
(* linear address beyond, and the entry point comes last.                  *)
Put(at, memory, a) ==
    LET upper == a \div SEGMENT
        far   == a >= at.base + SEGMENT
        move  == IF a >= SEGMENT * PARAGRAPH
                 THEN <<ExtendedSegmentAddress(0), ExtendedLinearAddress(upper)>>
                 ELSE <<ExtendedSegmentAddress(upper * (SEGMENT \div PARAGRAPH))>>
        base  == IF far THEN upper * SEGMENT ELSE at.base
    IN  IF a \notin DOMAIN memory THEN at
        ELSE [base |-> base,
              out  |-> at.out \o (IF far THEN move ELSE <<>>)
                              \o <<Data(a - base, <<memory[a]>>)>>]

Dumped(memory) ==
    LET last == Max(DOMAIN memory)
        below[a \in 0..(last + 1)] ==
            IF a = 0 THEN [base |-> 0, out |-> <<>>] ELSE Put(below[a - 1], memory, a - 1)
    IN  below[last + 1].out

ObjcopyHex(memory, entry) ==
    Dumped(memory)
        \o <<StartSegmentAddress((entry \div SEGMENT) * (SEGMENT \div PARAGRAPH),
                                 entry % SEGMENT), EndOfFile>>

BootloaderHex(build) == ObjcopyHex(BootloaderMemory(build), BASE_BOOTLOADER_ADDR)
AppHex(build) == ObjcopyHex(AppMemory(build), AppOrigin(build))

(* What is merged of an application and a bootloader.                      *)
FullImage(app, boot) ==
    Merge(ReadIHex(SoftDevice) \o ReadBinary(SignedBinary(app), BASE_APP_ADDR)
            \o ReadIHex(BootloaderHex(boot)), patches_7_3_0)
MinimalImage(boot) ==
    Merge(ReadIHex(SoftDevice) \o ReadIHex(BootloaderHex(boot)), patches_7_3_0)
DebugImage(app, boot) ==
    Merge(ReadIHex(SoftDevice) \o ReadIHex(AppHex(app)) \o ReadIHex(BootloaderHex(boot)),
          patches_7_3_0)
SoftDeviceImage == Merge(ReadIHex(SoftDevice), patches_7_3_0)

-----------------------------------------------------------------------------
Init ==
    /\ version = 1
    /\ cmd = "none"
    /\ todo = <<>>
    /\ atRoot = TRUE
    /\ key = CHOOSE k \in Keys : TRUE
    /\ exit = "ok"
    /\ files = EmptyMemory

Edit ==
    /\ cmd = "none" /\ version < MaxVersion
    /\ version' = version + 1
    /\ UNCHANGED <<cmd, todo, atRoot, key, exit, files>>

Start(command, root, k) ==
    /\ cmd = "none"
    /\ root \/ "sign" \in ToSet(Steps[command])    \* no other step looks
    /\ cmd' = command
    /\ todo' = Steps[command]
    /\ atRoot' = root
    /\ key' = k
    /\ exit' = "running"
    /\ UNCHANGED <<version, files>>

(* What a command was started with goes with it.                           *)
End(status) ==
    /\ cmd' = "none"
    /\ todo' = <<>>
    /\ atRoot' = TRUE
    /\ key' = CHOOSE k \in Keys : TRUE
    /\ exit' = status
    /\ UNCHANGED version

Step(name) == todo # <<>> /\ Head(todo) = name

(* Mutant: the command does not end behind its last step.                  *)
ProceedPastLast ==
    IF todo = <<>> THEN End("ok")
    ELSE todo' = Tail(todo) /\ UNCHANGED <<version, cmd, atRoot, key, exit>>

Proceed ==
    IF Len(todo) = 1 THEN End("ok")
    ELSE todo' = Tail(todo) /\ UNCHANGED <<version, cmd, atRoot, key, exit>>

Write(name, content) ==
    files' = [f \in DOMAIN files \cup {name} |-> IF f = name THEN content ELSE files[f]]
Delete(names) == files' = Restrict(files, DOMAIN files \ names)

(* exit(-1), a panic, or the tool is killed.                               *)
Fail ==
    /\ cmd # "none"
    /\ End("failed")
    /\ UNCHANGED files

-----------------------------------------------------------------------------
(* check_toolchain_path: the person that is asked may cancel the build,    *)
(* which is no failure.                                                    *)
CheckToolchainPath ==
    /\ Step("toolchain")
    /\ Proceed \/ End("ok")
    /\ UNCHANGED files

(* Mutant: BtPackage is left as it is.                                     *)
BuildToolsCheckKeeps ==
    /\ Step("clean") /\ Proceed /\ UNCHANGED files

BuildToolsCheck ==
    /\ Step("clean") /\ Proceed /\ Delete(PackageFiles)

BuildToolsCheckDebug ==
    /\ Step("cleanDebug") /\ Proceed /\ Delete(DebugFiles)

(* rm -rf stops half way.                                                  *)
RemoveFails ==
    /\ Step("clean") \/ Step("cleanDebug")
    /\ End("failed")
    /\ \E gone \in SUBSET (DOMAIN files
            \cap (IF Step("clean") THEN PackageFiles ELSE DebugFiles)) : Delete(gone)

BuildBtBootloader ==
    /\ Step("bootloader") /\ Proceed /\ Write("bootloader.hex", Build({}))

(* Neither passes a feature to cargo.                                      *)
BuildBtBootloaderDebug ==
    /\ Step("bootloaderDebug") /\ Proceed /\ Write("bootloaderDebug.hex", Build({}))

BuildBtDebugFirmware ==
    /\ Step("firmwareDebug") /\ Proceed /\ Write("BtappDebug.hex", Build({}))

BuildBtFirmware ==
    /\ Step("firmware") /\ Proceed
    /\ Write("BT_application.bin", [build |-> Build({}), signers |-> <<>>])

(* Mutant: the output is the signed application in any case.               *)
SignBtFirmwareAtOnce ==
    LET input == IF atRoot /\ "BT_application_signed_once.bin" \in DOMAIN files
                 THEN "BT_application_signed_once.bin" ELSE "BT_application.bin"
    IN  /\ Step("sign") /\ input \in DOMAIN files /\ Proceed
        /\ Write("BT_application_signed.bin",
                 [files[input] EXCEPT !.signers =
                    Append(@, IF cmd = "BuildFwImage" THEN "developer" ELSE key)])

(* sign_bt_firmware.  A first signature is looked for where the command    *)
(* was started, its input and output are below the root.                   *)
SignBtFirmware ==
    LET signedOnce == atRoot /\ "BT_application_signed_once.bin" \in DOMAIN files
        developer  == cmd = "BuildFwImage"
        input      == IF signedOnce THEN "BT_application_signed_once.bin"
                      ELSE "BT_application.bin"
        output     == IF signedOnce \/ developer THEN "BT_application_signed.bin"
                      ELSE "BT_application_signed_once.bin"
    IN  /\ Step("sign") /\ input \in DOMAIN files
        /\ Proceed
        /\ Write(output, [files[input] EXCEPT !.signers =
                            Append(@, IF developer THEN "developer" ELSE key)])

(* Mutant: an error of write_all is dropped.                               *)
WriteImageUnchecked(name, image) ==
    /\ Proceed
    /\ Write(name, image) \/ Write(name, <<Head(image)>>)

(* merge_files writes the image last: all of it, or it fails inside.       *)
WriteImage(name, image) ==
    \/ Proceed /\ Write(name, image)
    \/ End("failed") /\ Write(name, <<Head(image)>>)

BuildBtPackage ==
    /\ Step("package")
    /\ {"BT_application_signed.bin", "bootloader.hex"} \subseteq DOMAIN files
    /\ WriteImage("BTApp_Full_Image.hex",
                  FullImage(files["BT_application_signed.bin"], files["bootloader.hex"]))

BuildBtMinimalPackage ==
    /\ Step("minimal") /\ "bootloader.hex" \in DOMAIN files
    /\ WriteImage("BT_Minimal_Image.hex", MinimalImage(files["bootloader.hex"]))

BuildBtPackageDebug ==
    /\ Step("packageDebug")
    /\ {"BtappDebug.hex", "bootloaderDebug.hex"} \subseteq DOMAIN files
    /\ WriteImage("BTApp_Full_Image_debug.hex",
                  DebugImage(files["BtappDebug.hex"], files["bootloaderDebug.hex"]))

PatchSd ==
    /\ Step("patchSd")
    /\ WriteImage("softdevice_patched.hex", SoftDeviceImage)

(* The bootloader that was merged goes, and in the debug package the       *)
(* application too.                                                        *)
RemoveTemporaries ==
    \/ Step("tidy") /\ Proceed /\ Delete({"bootloader.hex"})
    \/ Step("tidyDebug") /\ Proceed /\ Delete({"bootloaderDebug.hex", "BtappDebug.hex"})

Next ==
    \/ Edit
    \/ \E command \in DOMAIN Steps, root \in BOOLEAN, k \in Keys : Start(command, root, k)
    \/ Fail
    \/ CheckToolchainPath
    \/ BuildToolsCheck \/ BuildToolsCheckDebug \/ RemoveFails
    \/ BuildBtBootloader \/ BuildBtFirmware
    \/ BuildBtBootloaderDebug \/ BuildBtDebugFirmware
    \/ SignBtFirmware
    \/ BuildBtPackage \/ BuildBtMinimalPackage \/ BuildBtPackageDebug \/ PatchSd
    \/ RemoveTemporaries

Spec == Init /\ [][Next]_vars

-----------------------------------------------------------------------------
(* Images that were written to their end, as a programmer reads them.      *)
Whole(folder, name) == name \in DOMAIN folder /\ IsWhole(folder[name])
Image(name) == Contents(files[name])

(* The builds a memory is made of.                                         *)
BuildsIn(memory, part) ==
    {memory[a].build : a \in {a \in DOMAIN memory : memory[a].part = part}}
AppsIn(memory) ==
    {memory[a].app : a \in {a \in DOMAIN memory : memory[a].part = "header"}}

(* Where the linker scripts and the bootloader expect the parts.           *)
FullMemory(app, boot) == Over(PatchedSoftDevice, Over(SignedMemory(app), BootloaderMemory(boot)))
MinimalMemory(boot) == Over(PatchedSoftDevice, BootloaderMemory(boot))
DebugMemory(app, boot) == Over(PatchedSoftDevice, Over(AppMemory(app), BootloaderMemory(boot)))

(* All that can be built and packaged within the bound.                    *)
Builds == [source : 1..MaxVersion, features : {{}}]
Signatures == {<<"developer">>} \cup {<<j, k>> : j \in Keys, k \in Keys}
SignedApps == [build : Builds, signers : Signatures]

(* Every variable has its type, and only the tool's files are there.       *)
TypeOK ==
    /\ version \in 1..MaxVersion
    /\ cmd \in DOMAIN Steps \cup {"none"}
    /\ todo # <<>> <=> cmd # "none"
    /\ atRoot \in BOOLEAN
    /\ key \in Keys
    /\ exit \in {"running", "ok", "failed"}
    /\ DOMAIN files \subseteq PackageFiles \cup DebugFiles \cup {"softdevice_patched.hex"}

(* A file that breaks off behind its first record is not taken for a whole.*)
Exact(image, memory) ==
    /\ IsWhole(image) /\ ~IsWhole(<<Head(image)>>)
    /\ Contents(image) = memory

MergesExactlyOf(builds) ==
    /\ Exact(SoftDeviceImage, PatchedSoftDevice)
    /\ \A boot \in builds :
        /\ Exact(MinimalImage(boot), MinimalMemory(boot))
        /\ \A app \in builds : Exact(DebugImage(app, boot), DebugMemory(app, boot))
        /\ \A app \in [build : builds, signers : Signatures] :
            Exact(FullImage(app, boot), FullMemory(app, boot))

(* merge_files is exact: what it makes of every pair of an application and *)
(* a bootloader that any two versions of the sources so far have given,    *)
(* packaged together by a command or not, is to a programmer these parts   *)
(* where they belong.  It is asked of each version before its first build. *)
MergesAreExact ==
    files = EmptyMemory => MergesExactlyOf({build \in Builds : build.source <= version})

(* An image that is whole puts, on the device, every part exactly where    *)
(* the linker scripts and the bootloader expect it: the SoftDevice with    *)
(* its patches, the application behind its header and padded up to the     *)
(* bootloader, the bootloader and its words of the UICR, and nothing else, *)
(* however the inputs cut, order and address their records.                *)
ImagesAreExact ==
    /\ Whole(files, "BTApp_Full_Image.hex") =>
        LET memory == Image("BTApp_Full_Image.hex")
        IN  \E boot \in BuildsIn(memory, "bootloader"), app \in AppsIn(memory) :
                memory = FullMemory(app, boot)
    /\ Whole(files, "BT_Minimal_Image.hex") =>
        LET memory == Image("BT_Minimal_Image.hex")
        IN  \E boot \in BuildsIn(memory, "bootloader") :
                memory = MinimalMemory(boot)
    /\ Whole(files, "BTApp_Full_Image_debug.hex") =>
        LET memory == Image("BTApp_Full_Image_debug.hex")
        IN  \E boot \in BuildsIn(memory, "bootloader"), app \in BuildsIn(memory, "app") :
                memory = DebugMemory(app, boot)
    /\ Whole(files, "softdevice_patched.hex") =>
        Image("softdevice_patched.hex") = PatchedSoftDevice

(* The bootloader and the application of an image come from one state of   *)
(* the sources, in whatever order and however often commands were run,     *)
(* failed or were killed before it was packaged.                           *)
ImageIsOneBuild ==
    \A name \in {"BTApp_Full_Image.hex", "BTApp_Full_Image_debug.hex"} :
        Whole(files, name) =>
            \A boot \in BuildsIn(Image(name), "bootloader"), app \in BuildsIn(Image(name), "app") :
                boot = app

(* No application is packaged that its bootloader refuses for its header:  *)
(* it has the developer's signature alone or went through two passes of    *)
(* signing, even when a pass was started outside the root and did not see  *)
(* the one before it.                                                      *)
PackagedIsSigned ==
    Whole(files, "BTApp_Full_Image.hex") =>
        \A app \in AppsIn(Image("BTApp_Full_Image.hex")) :
            \/ app.signers = <<"developer">>
            \/ app.signers \in Seq(Keys) /\ Len(app.signers) = 2

(* A command that exits with success leaves the image it is for, whole,    *)
(* and a command that builds leaves it made of the sources it found.       *)
SuccessLeavesImage ==
    [][exit = "running" /\ exit' = "ok" =>
        /\ cmd \in {"BuildFwImage", "PackageFirmware"} => Whole(files', "BTApp_Full_Image.hex")
        /\ cmd = "BuildMinimalImage" => Whole(files', "BT_Minimal_Image.hex")
        /\ cmd = "BuildFwDebugImage" => Whole(files', "BTApp_Full_Image_debug.hex")
        /\ cmd = "PatchSd" => Whole(files', "softdevice_patched.hex")
        /\ \A name \in Images \cap DOMAIN files' :
            \/ cmd = "BuildFwImage" /\ name = "BTApp_Full_Image.hex"
            \/ cmd = "BuildMinimalImage" /\ name = "BT_Minimal_Image.hex"
            \/ cmd = "BuildFwDebugImage" /\ name = "BTApp_Full_Image_debug.hex"
            => BuildsIn(Contents(files'[name]), "bootloader") = {Build({})}]_vars

(* The image of a debug build has no flash protection: its bootloader      *)
(* carries no APPROTECT word and is compiled with the feature that leaves  *)
(* out the BPROT setup, as the comment on BuildFwDebugImage says.          *)
DebugImageIsUnprotected ==
    Whole(files, "BTApp_Full_Image_debug.hex") =>
        LET memory == Image("BTApp_Full_Image_debug.hex")
        IN  /\ UICR_APPROTECT \notin DOMAIN memory
            /\ \A boot \in BuildsIn(memory, "bootloader") : "debug" \in boot.features
=============================================================================
