-------------------------- MODULE ReleaseToolProofs --------------------------
(***************************************************************************)
(* The files of the build tool, for every number of versions, commands and *)
(* keys and every layout.  Whatever is in a folder is proved to come from  *)
(* where it should; what merge_files makes of it is proved to be these     *)
(* parts where they belong, from what HexMergeProofs says of any records   *)
(* and from what llvm-objcopy and the reading of a binary give it here.    *)
(***************************************************************************)
EXTENDS ReleaseTool, HexMergeProofs, SequenceTheorems, TLAPS

(* How far the command is.                                                 *)
Rest(command) ==
    {SubSeq(Steps[command], i, Len(Steps[command])) : i \in 1 .. Len(Steps[command])}
IsLeft(name) == \E i \in 1 .. Len(todo) : todo[i] = name

TodoIsRest ==
    /\ cmd # "none" => todo \in Rest(cmd) /\ exit = "running"
    /\ cmd = "none" => exit # "running"

(* What may be in a file that was built of one state of the sources.       *)
Written(image) == {image, <<Head(image)>>}
Signed(build) == [build : {build}, signers : Signatures]

Fits(build, name, content) ==
    /\ name \in {"bootloader.hex", "bootloaderDebug.hex", "BtappDebug.hex"} => content = build
    /\ name = "BT_application.bin" => content = [build |-> build, signers |-> <<>>]
    /\ name = "BT_application_signed_once.bin" =>
        \E k \in Keys : content = [build |-> build, signers |-> <<k>>]
    /\ name = "BT_application_signed.bin" => content \in Signed(build)
    /\ name = "BTApp_Full_Image.hex" =>
        \E app \in Signed(build) : content \in Written(FullImage(app, build))
    /\ name = "BT_Minimal_Image.hex" => content \in Written(MinimalImage(build))
    /\ name = "BTApp_Full_Image_debug.hex" => content \in Written(DebugImage(build, build))

OfBuild(names, build) ==
    /\ build \in Builds
    /\ \A name \in names \cap DOMAIN files : Fits(build, name, files[name])

(* Both folders are of one build each, whatever was run before.            *)
OneBuild ==
    /\ \E build \in Builds : OfBuild(PackageFiles, build)
    /\ \E build \in Builds : OfBuild(DebugFiles, build)
    /\ "softdevice_patched.hex" \in DOMAIN files =>
        files["softdevice_patched.hex"] \in Written(SoftDeviceImage)

(* From its first step on, a command that builds has no file of another    *)
(* version in its folder, and no first signature.                          *)
Cleans == {"BuildFwImage", "BuildMinimalImage", "BuildUnsigned"}

Cleaned ==
    /\ cmd \in Cleans /\ ~IsLeft("clean") => OfBuild(PackageFiles, Build({}))
    /\ cmd = "BuildFwDebugImage" /\ ~IsLeft("cleanDebug") => OfBuild(DebugFiles, Build({}))
    /\ cmd = "BuildFwImage" /\ ~IsLeft("clean") =>
        "BT_application_signed_once.bin" \notin DOMAIN files

(* From the step that packages on, the image is there to its end.          *)
Packaged ==
    /\ cmd \in {"BuildFwImage", "PackageFirmware"} /\ ~IsLeft("package") =>
        /\ "BTApp_Full_Image.hex" \in DOMAIN files
        /\ \E build \in Builds, app \in SignedApps :
            files["BTApp_Full_Image.hex"] = FullImage(app, build)
    /\ cmd = "BuildMinimalImage" /\ ~IsLeft("minimal") =>
        /\ "BT_Minimal_Image.hex" \in DOMAIN files
        /\ \E build \in Builds : files["BT_Minimal_Image.hex"] = MinimalImage(build)
    /\ cmd = "BuildFwDebugImage" /\ ~IsLeft("packageDebug") =>
        /\ "BTApp_Full_Image_debug.hex" \in DOMAIN files
        /\ \E build \in Builds, app \in Builds :
            files["BTApp_Full_Image_debug.hex"] = DebugImage(app, build)

IInv == TypeOK /\ TodoIsRest /\ OneBuild /\ Cleaned /\ Packaged

-----------------------------------------------------------------------------
(* The commands.                                                           *)

LEMMA StepsOfCommands ==
    /\ DOMAIN Steps = {"BuildFwImage", "BuildMinimalImage", "BuildUnsigned", "SignFirmware",
                       "PackageFirmware", "BuildFwDebugImage", "PatchSd"}
    /\ Steps["BuildFwImage"] =
        <<"clean", "bootloader", "firmware", "sign", "package", "tidy">>
    /\ Steps["BuildMinimalImage"] = <<"clean", "bootloader", "minimal", "tidy">>
    /\ Steps["BuildUnsigned"] = <<"toolchain", "clean", "bootloader", "firmware">>
    /\ Steps["SignFirmware"] = <<"sign">>
    /\ Steps["PackageFirmware"] = <<"package", "tidy">>
    /\ Steps["BuildFwDebugImage"] =
        <<"cleanDebug", "bootloaderDebug", "firmwareDebug", "packageDebug", "tidyDebug">>
    /\ Steps["PatchSd"] = <<"patchSd">>
BY DEF Steps

StepNames ==
    {"clean", "bootloader", "firmware", "sign", "package", "tidy", "minimal", "toolchain",
     "cleanDebug", "bootloaderDebug", "firmwareDebug", "packageDebug", "tidyDebug", "patchSd"}

LEMMA StepsAreSequences ==
    \A c \in DOMAIN Steps : Steps[c] \in Seq(StepNames) /\ Len(Steps[c]) \in 1..6
<1> SUFFICES ASSUME NEW c \in DOMAIN Steps
             PROVE  Steps[c] \in Seq(StepNames) /\ Len(Steps[c]) \in 1..6
  OBVIOUS
<1> USE DEF StepNames
<1>1. CASE c = "BuildFwImage"
  BY <1>1, StepsOfCommands
<1>2. CASE c = "BuildMinimalImage"
  BY <1>2, StepsOfCommands
<1>3. CASE c = "BuildUnsigned"
  BY <1>3, StepsOfCommands
<1>4. CASE c = "SignFirmware"
  BY <1>4, StepsOfCommands
<1>5. CASE c = "PackageFirmware"
  BY <1>5, StepsOfCommands
<1>6. CASE c = "BuildFwDebugImage"
  BY <1>6, StepsOfCommands
<1>7. CASE c = "PatchSd"
  BY <1>7, StepsOfCommands
<1> QED
  BY <1>1, <1>2, <1>3, <1>4, <1>5, <1>6, <1>7, StepsOfCommands

(* Which command is at a step, and what is left then.                      *)
StepIsOf(step, c, i) ==
    /\ step = "clean" => c \in Cleans
    /\ step = "cleanDebug" => c = "BuildFwDebugImage"
    /\ step \in {"bootloader", "firmware"} =>
        c \in Cleans /\ \A j \in i .. Len(Steps[c]) : Steps[c][j] # "clean"
    /\ step \in {"bootloaderDebug", "firmwareDebug"} =>
        /\ c = "BuildFwDebugImage"
        /\ \A j \in i .. Len(Steps[c]) : Steps[c][j] # "cleanDebug"
    /\ step = "sign" =>
        /\ c \in {"BuildFwImage", "SignFirmware"}
        /\ \A j \in i .. Len(Steps[c]) : Steps[c][j] # "clean"
    /\ step = "toolchain" => c = "BuildUnsigned"
    /\ step = "package" => c \in {"BuildFwImage", "PackageFirmware"}
    /\ step = "minimal" => c = "BuildMinimalImage"
    /\ step = "packageDebug" => c = "BuildFwDebugImage"
    /\ step = "patchSd" => c = "PatchSd"
    /\ step = "tidy" => c \in {"BuildFwImage", "PackageFirmware", "BuildMinimalImage"}
    /\ step = "tidyDebug" => c = "BuildFwDebugImage"
    /\ step \in {"tidy", "tidyDebug"} => i = Len(Steps[c])
    /\ c \in {"BuildFwImage", "PackageFirmware"} =>
        (\A j \in i .. Len(Steps[c]) : Steps[c][j] # "package") <=> step = "tidy"
    /\ c = "BuildMinimalImage" =>
        (\A j \in i .. Len(Steps[c]) : Steps[c][j] # "minimal") <=> step = "tidy"
    /\ c = "BuildFwDebugImage" =>
        (\A j \in i .. Len(Steps[c]) : Steps[c][j] # "packageDebug") <=> step = "tidyDebug"
    /\ i = Len(Steps[c]) =>
        /\ c \in {"BuildFwImage", "PackageFirmware", "BuildMinimalImage"} => step = "tidy"
        /\ c = "BuildFwDebugImage" => step = "tidyDebug"
        /\ c = "PatchSd" => step = "patchSd"
    /\ \A j \in (i + 1) .. Len(Steps[c]) : Steps[c][j] # step

LEMMA StepOrder ==
    \A c \in DOMAIN Steps : \A i \in 1 .. Len(Steps[c]) : StepIsOf(Steps[c][i], c, i)
<1> SUFFICES ASSUME NEW c \in DOMAIN Steps, NEW i \in 1 .. Len(Steps[c])
             PROVE  StepIsOf(Steps[c][i], c, i)
  OBVIOUS
<1> USE DEF StepIsOf, Cleans
<1>1. CASE c = "BuildFwImage"
  BY <1>1, StepsOfCommands
<1>2. CASE c = "BuildMinimalImage"
  BY <1>2, StepsOfCommands
<1>3. CASE c = "BuildUnsigned"
  BY <1>3, StepsOfCommands
<1>4. CASE c = "SignFirmware"
  BY <1>4, StepsOfCommands
<1>5. CASE c = "PackageFirmware"
  BY <1>5, StepsOfCommands
<1>6. CASE c = "BuildFwDebugImage"
  BY <1>6, StepsOfCommands
<1>7. CASE c = "PatchSd"
  BY <1>7, StepsOfCommands
<1> QED
  BY <1>1, <1>2, <1>3, <1>4, <1>5, <1>6, <1>7, StepsOfCommands

-----------------------------------------------------------------------------
(* What is left of a command.                                              *)

LEMMA RestOf ==
    ASSUME NEW c \in DOMAIN Steps, NEW i \in 1 .. Len(Steps[c])
    PROVE  LET rest == SubSeq(Steps[c], i, Len(Steps[c]))
           IN  /\ rest \in Seq(StepNames)
               /\ Len(rest) = Len(Steps[c]) - i + 1
               /\ \A j \in 1 .. Len(rest) : rest[j] = Steps[c][i + j - 1]
               /\ rest # <<>> /\ Head(rest) = Steps[c][i]
               /\ i < Len(Steps[c]) => Tail(rest) = SubSeq(Steps[c], i + 1, Len(Steps[c]))
<1> DEFINE rest == SubSeq(Steps[c], i, Len(Steps[c]))
           next == SubSeq(Steps[c], i + 1, Len(Steps[c]))
<1>1. Steps[c] \in Seq(StepNames) /\ Len(Steps[c]) \in Nat
  BY StepsAreSequences
<1>2. /\ rest \in Seq(StepNames)
      /\ Len(rest) = Len(Steps[c]) - i + 1
      /\ \A j \in 1 .. Len(rest) : rest[j] = Steps[c][i + j - 1]
  BY <1>1, SubSeqProperties
<1>3. rest # <<>> /\ Head(rest) = Steps[c][i]
  BY <1>1, <1>2, HeadTailProperties
<1>4. ASSUME i < Len(Steps[c])
      PROVE  Tail(rest) = next
  <2>1. /\ next \in Seq(StepNames)
        /\ Len(next) = Len(Steps[c]) - i
        /\ \A j \in 1 .. Len(next) : next[j] = Steps[c][i + j]
    BY <1>1, <1>4, SubSeqProperties
  <2>2. /\ Tail(rest) \in Seq(StepNames)
        /\ Len(Tail(rest)) = Len(rest) - 1
        /\ \A j \in 1 .. Len(Tail(rest)) : Tail(rest)[j] = rest[j + 1]
    BY <1>2, <1>3, HeadTailProperties
  <2> QED
    BY <1>1, <1>2, <2>1, <2>2, SeqEqual
<1> QED
  BY <1>2, <1>3, <1>4

(* A command that has just started has everything to do.                   *)
LEMMA AtStart ==
    ASSUME NEW c \in DOMAIN Steps, todo' = Steps[c]
    PROVE  /\ todo' \in Rest(c) /\ todo' # <<>>
           /\ c \in Cleans => IsLeft("clean")'
           /\ c = "BuildFwDebugImage" => IsLeft("cleanDebug")' /\ IsLeft("packageDebug")'
           /\ c \in {"BuildFwImage", "PackageFirmware"} => IsLeft("package")'
           /\ c = "BuildMinimalImage" => IsLeft("minimal")'
<1>1. Steps[c] \in Seq(StepNames) /\ Len(Steps[c]) \in 1..6
  BY StepsAreSequences
<1>2. Steps[c] = SubSeq(Steps[c], 1, Len(Steps[c]))
  <2>1. LET rest == SubSeq(Steps[c], 1, Len(Steps[c]))
        IN  /\ rest \in Seq(StepNames)
            /\ Len(rest) = Len(Steps[c])
            /\ \A j \in 1 .. Len(rest) : rest[j] = Steps[c][j]
    BY <1>1, SubSeqProperties
  <2> QED
    BY <1>1, <2>1, SeqEqual
<1>3. todo' \in Rest(c) /\ todo' # <<>>
  BY <1>1, <1>2 DEF Rest
<1>4. /\ c \in Cleans => \E i \in 1 .. Len(Steps[c]) : Steps[c][i] = "clean"
      /\ c = "BuildFwDebugImage" => Steps[c][1] = "cleanDebug" /\ Steps[c][4] = "packageDebug"
                                    /\ Len(Steps[c]) = 5
      /\ c \in {"BuildFwImage", "PackageFirmware"} =>
            \E i \in 1 .. Len(Steps[c]) : Steps[c][i] = "package"
      /\ c = "BuildMinimalImage" => Steps[c][3] = "minimal" /\ Len(Steps[c]) = 4
  <2>1. CASE c = "BuildFwImage"
    <3>1. Steps[c][1] = "clean" /\ Steps[c][5] = "package" /\ Len(Steps[c]) = 6
      BY <2>1, StepsOfCommands
    <3> QED
      BY <2>1, <3>1
  <2>2. CASE c = "BuildMinimalImage"
    <3>1. Steps[c][1] = "clean" /\ Steps[c][3] = "minimal" /\ Len(Steps[c]) = 4
      BY <2>2, StepsOfCommands
    <3> QED
      BY <2>2, <3>1
  <2>3. CASE c = "BuildUnsigned"
    <3>1. Steps[c][2] = "clean" /\ Len(Steps[c]) = 4
      BY <2>3, StepsOfCommands
    <3> QED
      BY <2>3, <3>1
  <2>4. CASE c = "PackageFirmware"
    <3>1. Steps[c][1] = "package" /\ Len(Steps[c]) = 2
      BY <2>4, StepsOfCommands
    <3> QED
      BY <2>4, <3>1 DEF Cleans
  <2>5. CASE c = "BuildFwDebugImage"
    BY <2>5, StepsOfCommands DEF Cleans
  <2> QED
    BY <2>1, <2>2, <2>3, <2>4, <2>5 DEF Cleans
<1> QED
  BY <1>3, <1>4 DEF IsLeft

(* Where a command is that is at a step.                                   *)
LEMMA AtStep ==
    ASSUME TypeOK, TodoIsRest, NEW step, Step(step)
    PROVE  /\ cmd \in DOMAIN Steps /\ cmd # "none" /\ exit = "running"
           /\ IsLeft(step)
           /\ step = "clean" => cmd \in Cleans
           /\ step = "cleanDebug" => cmd = "BuildFwDebugImage"
           /\ step \in {"bootloader", "firmware"} => cmd \in Cleans /\ ~IsLeft("clean")
           /\ step \in {"bootloaderDebug", "firmwareDebug"} =>
                cmd = "BuildFwDebugImage" /\ ~IsLeft("cleanDebug")
           /\ step = "sign" => cmd \in {"BuildFwImage", "SignFirmware"} /\ ~IsLeft("clean")
           /\ step = "toolchain" => cmd = "BuildUnsigned"
           /\ step = "package" => cmd \in {"BuildFwImage", "PackageFirmware"}
           /\ step = "minimal" => cmd = "BuildMinimalImage"
           /\ step = "packageDebug" => cmd = "BuildFwDebugImage"
           /\ step = "patchSd" => cmd = "PatchSd"
           /\ step = "tidy" => cmd \in {"BuildFwImage", "PackageFirmware", "BuildMinimalImage"}
           /\ step = "tidyDebug" => cmd = "BuildFwDebugImage"
           /\ step \in {"tidy", "tidyDebug"} => Len(todo) = 1
           /\ cmd \in {"BuildFwImage", "PackageFirmware"} => ~IsLeft("package") <=> step = "tidy"
           /\ cmd = "BuildMinimalImage" => ~IsLeft("minimal") <=> step = "tidy"
           /\ cmd = "BuildFwDebugImage" => ~IsLeft("packageDebug") <=> step = "tidyDebug"
           /\ Len(todo) = 1 =>
                /\ cmd \in {"BuildFwImage", "PackageFirmware", "BuildMinimalImage"} =>
                    step = "tidy"
                /\ cmd = "BuildFwDebugImage" => step = "tidyDebug"
                /\ cmd = "PatchSd" => step = "patchSd"
           /\ Len(todo) # 1 =>
                /\ Tail(todo) \in Rest(cmd) /\ Tail(todo) # <<>>
                /\ \A name : (\E j \in 1 .. Len(Tail(todo)) : Tail(todo)[j] = name)
                                <=> (IsLeft(name) /\ name # step)
<1>1. todo # <<>> /\ Head(todo) = step
  BY DEF Step
<1>2. cmd \in DOMAIN Steps /\ cmd # "none" /\ todo \in Rest(cmd) /\ exit = "running"
  BY <1>1 DEF TypeOK, TodoIsRest
<1>3. PICK i \in 1 .. Len(Steps[cmd]) : todo = SubSeq(Steps[cmd], i, Len(Steps[cmd]))
  BY <1>2 DEF Rest
<1>4. Len(Steps[cmd]) \in 1..6
  BY <1>2, StepsAreSequences
<1>5. /\ Len(todo) = Len(Steps[cmd]) - i + 1
      /\ \A j \in 1 .. Len(todo) : todo[j] = Steps[cmd][i + j - 1]
      /\ Steps[cmd][i] = step
      /\ i < Len(Steps[cmd]) => Tail(todo) = SubSeq(Steps[cmd], i + 1, Len(Steps[cmd]))
  BY <1>1, <1>2, <1>3, RestOf
<1>6. \A name : IsLeft(name) <=> \E j \in i .. Len(Steps[cmd]) : Steps[cmd][j] = name
  <2>1. ASSUME NEW name, NEW j \in i .. Len(Steps[cmd]), Steps[cmd][j] = name
        PROVE  IsLeft(name)
    <3>1. j - i + 1 \in 1 .. Len(todo) /\ todo[j - i + 1] = name
      BY <1>4, <1>5, <2>1
    <3> QED
      BY <3>1 DEF IsLeft
  <2>2. ASSUME NEW name, NEW j \in 1 .. Len(todo), todo[j] = name
        PROVE  \E n \in i .. Len(Steps[cmd]) : Steps[cmd][n] = name
    <3>1. i + j - 1 \in i .. Len(Steps[cmd]) /\ Steps[cmd][i + j - 1] = name
      BY <1>4, <1>5, <2>2
    <3> QED
      BY <3>1
  <2> QED
    BY <2>1, <2>2 DEF IsLeft
<1>7. StepIsOf(step, cmd, i)
  BY <1>2, <1>5, StepOrder
<1>8. ASSUME Len(todo) # 1
      PROVE  /\ Tail(todo) \in Rest(cmd) /\ Tail(todo) # <<>>
             /\ \A name : (\E j \in 1 .. Len(Tail(todo)) : Tail(todo)[j] = name)
                             <=> (IsLeft(name) /\ name # step)
  <2>1. i + 1 \in 1 .. Len(Steps[cmd]) /\ Tail(todo) = SubSeq(Steps[cmd], i + 1, Len(Steps[cmd]))
    BY <1>4, <1>5, <1>8
  <2>2. /\ Len(Tail(todo)) = Len(Steps[cmd]) - i
        /\ \A j \in 1 .. Len(Tail(todo)) : Tail(todo)[j] = Steps[cmd][i + j]
        /\ Tail(todo) # <<>>
    <3>1. PICK k \in 1 .. Len(Steps[cmd]) : k = i + 1
      BY <2>1
    <3>2. PICK rest : rest = SubSeq(Steps[cmd], k, Len(Steps[cmd]))
      OBVIOUS
    <3>3. /\ Len(rest) = Len(Steps[cmd]) - k + 1
          /\ \A j \in 1 .. Len(rest) : rest[j] = Steps[cmd][k + j - 1]
          /\ rest # <<>>
      BY <1>2, <3>2, RestOf
    <3>4. Tail(todo) = rest
      BY <2>1, <3>1, <3>2
    <3>5. Len(rest) = Len(Steps[cmd]) - i
      BY <1>4, <3>1, <3>3
    <3>6. \A j \in 1 .. Len(rest) : rest[j] = Steps[cmd][i + j]
      <4> SUFFICES ASSUME NEW j \in 1 .. Len(rest)
                   PROVE  rest[j] = Steps[cmd][i + j]
        OBVIOUS
      <4>1. k + j - 1 = i + j
        BY <1>4, <3>1, <3>5
      <4> QED
        BY <3>3, <4>1
    <3> QED
      BY <3>3, <3>4, <3>5, <3>6, Zenon
  <2>3. ASSUME NEW name
        PROVE  (\E j \in 1 .. Len(Tail(todo)) : Tail(todo)[j] = name)
                   <=> (\E n \in (i + 1) .. Len(Steps[cmd]) : Steps[cmd][n] = name)
    <3>1. ASSUME NEW n \in (i + 1) .. Len(Steps[cmd]), Steps[cmd][n] = name
          PROVE  \E j \in 1 .. Len(Tail(todo)) : Tail(todo)[j] = name
      <4>1. n - i \in 1 .. Len(Tail(todo)) /\ Tail(todo)[n - i] = name
        BY <1>4, <2>2, <3>1, SMTT(60)
      <4> QED
        BY <4>1
    <3>2. ASSUME NEW j \in 1 .. Len(Tail(todo)), Tail(todo)[j] = name
          PROVE  \E n \in (i + 1) .. Len(Steps[cmd]) : Steps[cmd][n] = name
      <4>1. i + j \in (i + 1) .. Len(Steps[cmd]) /\ Steps[cmd][i + j] = name
        BY <1>4, <2>2, <3>2
      <4> QED
        BY <4>1
    <3> QED
      BY <3>1, <3>2
  <2>4. ASSUME NEW name
        PROVE  (\E n \in (i + 1) .. Len(Steps[cmd]) : Steps[cmd][n] = name)
                   <=> (IsLeft(name) /\ name # step)
    BY <1>4, <1>5, <1>6, <1>7 DEF StepIsOf
  <2> QED
    BY <2>1, <2>2, <2>3, <2>4 DEF Rest
<1>9. Len(todo) = 1 <=> i = Len(Steps[cmd])
  BY <1>4, <1>5
<1>10. IsLeft(step)
  BY <1>4, <1>5, <1>6
<1> HIDE DEF Rest, Step
<1> QED
  BY <1>2, <1>6, <1>7, <1>8, <1>9, <1>10 DEF StepIsOf

(* A step that succeeds is behind the command then.                        *)
LEMMA AfterStep ==
    ASSUME TypeOK, TodoIsRest, NEW step, Step(step), Proceed
    PROVE  /\ TodoIsRest'
           /\ version' = version
           /\ cmd' = "none" \/ cmd' = cmd
           /\ todo' # <<>> <=> cmd' # "none"
           /\ cmd' # "none" => \A name : IsLeft(name)' <=> (IsLeft(name) /\ name # step)
<1>1. CASE Len(todo) = 1
  BY <1>1 DEF Proceed, End, TodoIsRest
<1>2. CASE Len(todo) # 1
  <2>1. todo' = Tail(todo) /\ UNCHANGED <<version, cmd, exit>>
    BY <1>2 DEF Proceed
  <2>2. /\ cmd # "none" /\ exit = "running"
        /\ Tail(todo) \in Rest(cmd) /\ Tail(todo) # <<>>
        /\ \A name : (\E j \in 1 .. Len(Tail(todo)) : Tail(todo)[j] = name)
                        <=> (IsLeft(name) /\ name # step)
    BY <1>2, AtStep
  <2> QED
    BY <2>1, <2>2 DEF TodoIsRest, IsLeft
<1> QED
  BY <1>1, <1>2

-----------------------------------------------------------------------------
(* The folders.                                                            *)

LEMMA AfterWrite ==
    ASSUME NEW names, NEW build, OfBuild(names, build),
           NEW name, NEW content, Write(name, content),
           name \in names => Fits(build, name, content)
    PROVE  OfBuild(names, build)'
BY DEF OfBuild, Write

LEMMA AfterDelete ==
    ASSUME NEW names, NEW build, OfBuild(names, build),
           NEW gone, Delete(gone)
    PROVE  OfBuild(names, build)'
BY DEF OfBuild, Delete, Restrict

LEMMA AfterClean ==
    ASSUME NEW names, Delete(names), NEW build \in Builds
    PROVE  OfBuild(names, build)'
BY DEF OfBuild, Delete, Restrict

LEMMA AfterNothing ==
    ASSUME NEW names, NEW build, OfBuild(names, build), UNCHANGED files
    PROVE  OfBuild(names, build)'
BY DEF OfBuild

(* One way or the other, an image is written as far as it is.              *)
LEMMA AfterImage ==
    ASSUME NEW name, NEW image, WriteImage(name, image)
    PROVE  \E content \in Written(image) : Write(name, content)
BY DEF WriteImage, Written

LEMMA CurrentBuild == TypeOK => Build({}) \in Builds
BY DEF TypeOK, Build, Builds

(* What goes into an image.                                                *)
LEMMA Inputs ==
    ASSUME NEW build, OfBuild(PackageFiles, build)
    PROVE  /\ "bootloader.hex" \in DOMAIN files => files["bootloader.hex"] = build
           /\ "BT_application_signed.bin" \in DOMAIN files =>
                files["BT_application_signed.bin"] \in Signed(build)
           /\ "BT_application.bin" \in DOMAIN files =>
                files["BT_application.bin"] = [build |-> build, signers |-> <<>>]
           /\ "BT_application_signed_once.bin" \in DOMAIN files =>
                \E k \in Keys : files["BT_application_signed_once.bin"]
                                    = [build |-> build, signers |-> <<k>>]
BY DEF OfBuild, Fits, PackageFiles

LEMMA DebugInputs ==
    ASSUME NEW build, OfBuild(DebugFiles, build)
    PROVE  /\ "bootloaderDebug.hex" \in DOMAIN files => files["bootloaderDebug.hex"] = build
           /\ "BtappDebug.hex" \in DOMAIN files => files["BtappDebug.hex"] = build
BY DEF OfBuild, Fits, DebugFiles

(* A pass of signing adds to what is signed and leaves its build.          *)
LEMMA SignStep ==
    ASSUME TypeOK, TodoIsRest, Cleaned, SignBtFirmware,
           NEW build, OfBuild(PackageFiles, build)
    PROVE  OfBuild(PackageFiles, build)'
<1> DEFINE signedOnce == atRoot /\ "BT_application_signed_once.bin" \in DOMAIN files
           developer  == cmd = "BuildFwImage"
           input      == IF signedOnce THEN "BT_application_signed_once.bin"
                         ELSE "BT_application.bin"
           output     == IF signedOnce \/ developer THEN "BT_application_signed.bin"
                         ELSE "BT_application_signed_once.bin"
           signer     == IF developer THEN "developer" ELSE key
           content    == [files[input] EXCEPT !.signers = Append(@, signer)]
<1>1. /\ Step("sign") /\ input \in DOMAIN files
      /\ Write(output, content)
  BY DEF SignBtFirmware
<1>2. developer => ~signedOnce
  BY <1>1, AtStep DEF Cleaned
<1>3. key \in Keys /\ build \in Builds
  BY DEF TypeOK, OfBuild
<1>4. CASE signedOnce
  <2>1. PICK k \in Keys : files[input] = [build |-> build, signers |-> <<k>>]
    BY <1>1, <1>4, Inputs
  <2>2. content = [build |-> build, signers |-> <<k, key>>]
    BY <1>2, <1>4, <2>1
  <2>3. content \in Signed(build)
    BY <1>3, <2>2 DEF Signed, Signatures
  <2>4. Fits(build, output, content)
    BY <1>4, <2>3 DEF Fits
  <2> QED
    BY <1>1, <2>4, AfterWrite
<1>5. CASE ~signedOnce /\ developer
  <2>1. files[input] = [build |-> build, signers |-> <<>>]
    BY <1>1, <1>5, Inputs
  <2>2. content = [build |-> build, signers |-> <<"developer">>]
    BY <1>5, <2>1
  <2>3. content \in Signed(build)
    BY <2>2 DEF Signed, Signatures
  <2>4. Fits(build, output, content)
    BY <1>5, <2>3 DEF Fits
  <2> QED
    BY <1>1, <2>4, AfterWrite
<1>6. CASE ~signedOnce /\ ~developer
  <2>1. files[input] = [build |-> build, signers |-> <<>>]
    BY <1>1, <1>6, Inputs
  <2>2. content = [build |-> build, signers |-> <<key>>]
    BY <1>6, <2>1
  <2>3. Fits(build, output, content)
    BY <1>3, <1>6, <2>2 DEF Fits
  <2> QED
    BY <1>1, <2>3, AfterWrite
<1> QED
  BY <1>4, <1>5, <1>6

(* A package stays of the build it is of; what is built goes into one of   *)
(* the sources as they are.                                                *)
LEMMA PackageStep ==
    ASSUME TypeOK, TodoIsRest, Cleaned, [Next]_vars,
           NEW build \in Builds, OfBuild(PackageFiles, build),
           Step("bootloader") \/ Step("firmware") => build = Build({})
    PROVE  OfBuild(PackageFiles, build)'
<1>1. CASE \/ Edit \/ Fail \/ CheckToolchainPath \/ UNCHANGED vars
           \/ \E command \in DOMAIN Steps, root \in BOOLEAN, k \in Keys : Start(command, root, k)
  BY <1>1, AfterNothing DEF Edit, Fail, CheckToolchainPath, vars, Start
<1>2. CASE BuildToolsCheck \/ BuildToolsCheckDebug \/ RemoveFails \/ RemoveTemporaries
  BY <1>2, AfterDelete
     DEF BuildToolsCheck, BuildToolsCheckDebug, RemoveFails, RemoveTemporaries
<1>3. CASE BuildBtBootloader
  <2>1. Fits(build, "bootloader.hex", Build({}))
    BY <1>3 DEF BuildBtBootloader, Fits
  <2> QED
    BY <1>3, <2>1, AfterWrite DEF BuildBtBootloader
<1>4. CASE BuildBtFirmware
  <2>1. Fits(build, "BT_application.bin", [build |-> Build({}), signers |-> <<>>])
    BY <1>4 DEF BuildBtFirmware, Fits
  <2> QED
    BY <1>4, <2>1, AfterWrite DEF BuildBtFirmware
<1>5. CASE BuildBtBootloaderDebug
  BY <1>5, AfterWrite DEF BuildBtBootloaderDebug, PackageFiles
<1>6. CASE BuildBtDebugFirmware
  BY <1>6, AfterWrite DEF BuildBtDebugFirmware, PackageFiles
<1>7. CASE SignBtFirmware
  BY <1>7, SignStep
<1>8. CASE BuildBtPackage
  <2> DEFINE app == files["BT_application_signed.bin"]
  <2>1. app \in Signed(build) /\ files["bootloader.hex"] = build
    BY <1>8, Inputs DEF BuildBtPackage
  <2>2. PICK content \in Written(FullImage(app, build)) : Write("BTApp_Full_Image.hex", content)
    BY <1>8, <2>1, AfterImage DEF BuildBtPackage
  <2>3. Fits(build, "BTApp_Full_Image.hex", content)
    BY <2>1, <2>2 DEF Fits
  <2> QED
    BY <2>2, <2>3, AfterWrite
<1>9. CASE BuildBtMinimalPackage
  <2>1. files["bootloader.hex"] = build
    BY <1>9, Inputs DEF BuildBtMinimalPackage
  <2>2. PICK content \in Written(MinimalImage(build)) : Write("BT_Minimal_Image.hex", content)
    BY <1>9, <2>1, AfterImage DEF BuildBtMinimalPackage
  <2>3. Fits(build, "BT_Minimal_Image.hex", content)
    BY <2>2 DEF Fits
  <2> QED
    BY <2>2, <2>3, AfterWrite
<1>10. CASE BuildBtPackageDebug
  <2>1. PICK content : Write("BTApp_Full_Image_debug.hex", content)
    BY <1>10, AfterImage DEF BuildBtPackageDebug
  <2> QED
    BY <2>1, AfterWrite DEF PackageFiles
<1>11. CASE PatchSd
  <2>1. PICK content : Write("softdevice_patched.hex", content)
    BY <1>11, AfterImage DEF PatchSd
  <2> QED
    BY <2>1, AfterWrite DEF PackageFiles
<1> QED
  BY <1>1, <1>2, <1>3, <1>4, <1>5, <1>6, <1>7, <1>8, <1>9, <1>10, <1>11 DEF Next

LEMMA DebugStep ==
    ASSUME TypeOK, TodoIsRest, [Next]_vars,
           NEW build \in Builds, OfBuild(DebugFiles, build),
           Step("bootloaderDebug") \/ Step("firmwareDebug") => build = Build({})
    PROVE  OfBuild(DebugFiles, build)'
<1>1. CASE \/ Edit \/ Fail \/ CheckToolchainPath \/ UNCHANGED vars
           \/ \E command \in DOMAIN Steps, root \in BOOLEAN, k \in Keys : Start(command, root, k)
  BY <1>1, AfterNothing DEF Edit, Fail, CheckToolchainPath, vars, Start
<1>2. CASE BuildToolsCheck \/ BuildToolsCheckDebug \/ RemoveFails \/ RemoveTemporaries
  BY <1>2, AfterDelete
     DEF BuildToolsCheck, BuildToolsCheckDebug, RemoveFails, RemoveTemporaries
<1>3. CASE BuildBtBootloaderDebug
  <2>1. Fits(build, "bootloaderDebug.hex", Build({}))
    BY <1>3 DEF BuildBtBootloaderDebug, Fits
  <2> QED
    BY <1>3, <2>1, AfterWrite DEF BuildBtBootloaderDebug
<1>4. CASE BuildBtDebugFirmware
  <2>1. Fits(build, "BtappDebug.hex", Build({}))
    BY <1>4 DEF BuildBtDebugFirmware, Fits
  <2> QED
    BY <1>4, <2>1, AfterWrite DEF BuildBtDebugFirmware
<1>5. CASE BuildBtBootloader \/ BuildBtFirmware
  BY <1>5, AfterWrite DEF BuildBtBootloader, BuildBtFirmware, DebugFiles
<1>6. CASE SignBtFirmware
  <2>1. \E content : \/ Write("BT_application_signed.bin", content)
                     \/ Write("BT_application_signed_once.bin", content)
    BY <1>6 DEF SignBtFirmware
  <2> QED
    BY <2>1, AfterWrite DEF DebugFiles
<1>7. CASE BuildBtPackage
  <2>1. PICK content : Write("BTApp_Full_Image.hex", content)
    BY <1>7, AfterImage DEF BuildBtPackage
  <2> QED
    BY <2>1, AfterWrite DEF DebugFiles
<1>8. CASE BuildBtMinimalPackage
  <2>1. PICK content : Write("BT_Minimal_Image.hex", content)
    BY <1>8, AfterImage DEF BuildBtMinimalPackage
  <2> QED
    BY <2>1, AfterWrite DEF DebugFiles
<1>9. CASE BuildBtPackageDebug
  <2>1. files["BtappDebug.hex"] = build /\ files["bootloaderDebug.hex"] = build
    BY <1>9, DebugInputs DEF BuildBtPackageDebug
  <2>2. PICK content \in Written(DebugImage(build, build)) :
            Write("BTApp_Full_Image_debug.hex", content)
    BY <1>9, <2>1, AfterImage DEF BuildBtPackageDebug
  <2>3. Fits(build, "BTApp_Full_Image_debug.hex", content)
    BY <2>2 DEF Fits
  <2> QED
    BY <2>2, <2>3, AfterWrite
<1>10. CASE PatchSd
  <2>1. PICK content : Write("softdevice_patched.hex", content)
    BY <1>10, AfterImage DEF PatchSd
  <2> QED
    BY <2>1, AfterWrite DEF DebugFiles
<1> QED
  BY <1>1, <1>2, <1>3, <1>4, <1>5, <1>6, <1>7, <1>8, <1>9, <1>10 DEF Next

-----------------------------------------------------------------------------
(* The first signature of a build is not of an earlier one.                *)
LEMMA OnceStep ==
    ASSUME [Next]_vars, "BT_application_signed_once.bin" \notin DOMAIN files,
           cmd = "BuildFwImage"
    PROVE  "BT_application_signed_once.bin" \notin DOMAIN files'
<1> DEFINE once == "BT_application_signed_once.bin"
<1>1. \A name, content : name # once /\ Write(name, content) => once \notin DOMAIN files'
  BY DEF Write
<1>2. \A gone : Delete(gone) => once \notin DOMAIN files'
  BY DEF Delete, Restrict
<1>3. \A name, image : name # once /\ WriteImage(name, image) => once \notin DOMAIN files'
  BY <1>1 DEF WriteImage
<1> HIDE DEF once
<1>4. CASE \/ Edit \/ Fail \/ CheckToolchainPath \/ UNCHANGED vars
           \/ \E command \in DOMAIN Steps, root \in BOOLEAN, k \in Keys : Start(command, root, k)
  BY <1>4 DEF Edit, Fail, CheckToolchainPath, vars, Start, once
<1>5. CASE BuildToolsCheck \/ BuildToolsCheckDebug \/ RemoveFails \/ RemoveTemporaries
  BY <1>2, <1>5 DEF BuildToolsCheck, BuildToolsCheckDebug, RemoveFails, RemoveTemporaries, once
<1>6. CASE \/ BuildBtBootloader \/ BuildBtFirmware
           \/ BuildBtBootloaderDebug \/ BuildBtDebugFirmware
  BY <1>1, <1>6
     DEF BuildBtBootloader, BuildBtFirmware, BuildBtBootloaderDebug, BuildBtDebugFirmware, once
<1>7. CASE SignBtFirmware
  <2>1. \E content : Write("BT_application_signed.bin", content)
    BY <1>7 DEF SignBtFirmware
  <2> QED
    BY <1>1, <2>1 DEF once
<1>8. CASE BuildBtPackage \/ BuildBtMinimalPackage \/ BuildBtPackageDebug \/ PatchSd
  BY <1>3, <1>8
     DEF BuildBtPackage, BuildBtMinimalPackage, BuildBtPackageDebug, PatchSd, once
<1> QED
  BY <1>4, <1>5, <1>6, <1>7, <1>8 DEF Next, once

-----------------------------------------------------------------------------
(* What a step does to the command.                                        *)
Passed(step) == Step(step) /\ Proceed

LEMMA CommandStep ==
    ASSUME [Next]_vars
    PROVE  \/ cmd = "none" /\ UNCHANGED <<cmd, todo, exit, atRoot, key>>
           \/ UNCHANGED vars
           \/ \E c \in DOMAIN Steps, root \in BOOLEAN, k \in Keys : Start(c, root, k)
           \/ End("failed") /\ cmd # "none"
           \/ End("failed") /\ todo # <<>>
           \/ Step("toolchain") /\ End("ok")
           \/ Passed("clean") /\ BuildToolsCheck
           \/ Passed("cleanDebug") /\ BuildToolsCheckDebug
           \/ Passed("package") /\ BuildBtPackage
           \/ Passed("minimal") /\ BuildBtMinimalPackage
           \/ Passed("packageDebug") /\ BuildBtPackageDebug
           \/ \E step \in StepNames \ {"clean", "cleanDebug", "package", "minimal",
                                       "packageDebug"} : Passed(step)
<1> USE DEF Passed, StepNames
<1>1. CASE Edit \/ Fail \/ CheckToolchainPath \/ RemoveFails
  BY <1>1 DEF Edit, Fail, CheckToolchainPath, RemoveFails, Step
<1>2. CASE BuildToolsCheck \/ BuildToolsCheckDebug
  BY <1>2 DEF BuildToolsCheck, BuildToolsCheckDebug
<1>3. CASE \/ BuildBtBootloader \/ BuildBtFirmware \/ SignBtFirmware
           \/ BuildBtBootloaderDebug \/ BuildBtDebugFirmware \/ RemoveTemporaries
  BY <1>3 DEF BuildBtBootloader, BuildBtFirmware, SignBtFirmware, BuildBtBootloaderDebug,
              BuildBtDebugFirmware, RemoveTemporaries
<1>4. CASE BuildBtPackage \/ BuildBtMinimalPackage \/ BuildBtPackageDebug \/ PatchSd
  BY <1>4 DEF BuildBtPackage, BuildBtMinimalPackage, BuildBtPackageDebug, PatchSd,
              WriteImage, Step
<1> QED
  BY <1>1, <1>2, <1>3, <1>4 DEF Next

LEMMA TodoStep == TypeOK /\ TodoIsRest /\ [Next]_vars => TodoIsRest' /\ (todo' # <<>> <=> cmd' # "none")
<1> SUFFICES ASSUME TypeOK, TodoIsRest, [Next]_vars
             PROVE  TodoIsRest' /\ (todo' # <<>> <=> cmd' # "none")
  OBVIOUS
<1>1. CASE cmd = "none" /\ UNCHANGED <<cmd, todo, exit, atRoot, key>>
  BY <1>1 DEF TodoIsRest, TypeOK
<1>2. CASE UNCHANGED vars
  BY <1>2 DEF vars, TodoIsRest, TypeOK
<1>3. ASSUME NEW c \in DOMAIN Steps, NEW root \in BOOLEAN, NEW k \in Keys, Start(c, root, k)
      PROVE  TodoIsRest' /\ (todo' # <<>> <=> cmd' # "none")
  <2>1. cmd' = c /\ todo' = Steps[c] /\ exit' = "running" /\ c # "none"
    BY <1>3, StepsOfCommands DEF Start
  <2>2. todo' \in Rest(c) /\ todo' # <<>>
    BY <2>1, AtStart
  <2> QED
    BY <2>1, <2>2 DEF TodoIsRest
<1>4. CASE \E status \in {"ok", "failed"} : End(status)
  BY <1>4 DEF End, TodoIsRest
<1>5. CASE \E step : Passed(step)
  BY <1>5, AfterStep DEF Passed
<1> QED
  BY <1>1, <1>2, <1>3, <1>4, <1>5, CommandStep

LEMMA FileNames ==
    ASSUME [Next]_vars
    PROVE  DOMAIN files' \subseteq
               DOMAIN files \cup PackageFiles \cup DebugFiles \cup {"softdevice_patched.hex"}
<1> DEFINE names == PackageFiles \cup DebugFiles \cup {"softdevice_patched.hex"}
<1>1. \A name \in names : \A content : Write(name, content) =>
        DOMAIN files' \subseteq DOMAIN files \cup names
  BY DEF Write
<1>2. \A gone : Delete(gone) => DOMAIN files' \subseteq DOMAIN files
  BY DEF Delete, Restrict
<1>3. \A name \in names : \A image : WriteImage(name, image) =>
        DOMAIN files' \subseteq DOMAIN files \cup names
  BY <1>1 DEF WriteImage
<1>4. {"bootloader.hex", "BT_application.bin", "BT_application_signed_once.bin",
       "BT_application_signed.bin", "BTApp_Full_Image.hex", "BT_Minimal_Image.hex",
       "bootloaderDebug.hex", "BtappDebug.hex", "BTApp_Full_Image_debug.hex",
       "softdevice_patched.hex"} \subseteq names
  BY DEF PackageFiles, DebugFiles
<1> HIDE DEF names
<1> SUFFICES DOMAIN files' \subseteq DOMAIN files \cup names
  BY DEF names
<1>5. CASE \/ Edit \/ Fail \/ CheckToolchainPath \/ UNCHANGED vars
           \/ \E command \in DOMAIN Steps, root \in BOOLEAN, k \in Keys : Start(command, root, k)
  BY <1>5 DEF Edit, Fail, CheckToolchainPath, vars, Start
<1>6. CASE BuildToolsCheck \/ BuildToolsCheckDebug \/ RemoveFails \/ RemoveTemporaries
  BY <1>2, <1>6 DEF BuildToolsCheck, BuildToolsCheckDebug, RemoveFails, RemoveTemporaries
<1>7. CASE \/ BuildBtBootloader \/ BuildBtFirmware
           \/ BuildBtBootloaderDebug \/ BuildBtDebugFirmware
  BY <1>1, <1>4, <1>7
     DEF BuildBtBootloader, BuildBtFirmware, BuildBtBootloaderDebug, BuildBtDebugFirmware
<1>8. CASE SignBtFirmware
  <2>1. \E content : \/ Write("BT_application_signed.bin", content)
                     \/ Write("BT_application_signed_once.bin", content)
    BY <1>8 DEF SignBtFirmware
  <2> QED
    BY <1>1, <1>4, <2>1
<1>9. CASE BuildBtPackage \/ BuildBtMinimalPackage \/ BuildBtPackageDebug \/ PatchSd
  BY <1>3, <1>4, <1>9
     DEF BuildBtPackage, BuildBtMinimalPackage, BuildBtPackageDebug, PatchSd
<1> QED
  BY <1>5, <1>6, <1>7, <1>8, <1>9 DEF Next

LEMMA KeyExists == (CHOOSE k \in Keys : TRUE) \in Keys
BY BoundsAssumption DEF BoundsAssumption

LEMMA TypeInit == Init => TypeOK
BY KeyExists, BoundsAssumption DEF Init, TypeOK, EmptyMemory, BoundsAssumption

LEMMA TypeStep == TypeOK /\ TodoIsRest /\ [Next]_vars => TypeOK'
<1> SUFFICES ASSUME TypeOK, TodoIsRest, [Next]_vars
             PROVE  TypeOK'
  OBVIOUS
<1>1. todo' # <<>> <=> cmd' # "none"
  BY TodoStep
<1>2. DOMAIN files' \subseteq PackageFiles \cup DebugFiles \cup {"softdevice_patched.hex"}
  BY FileNames DEF TypeOK
<1>3. version' \in 1..MaxVersion
  <2>1. CASE Edit
    BY <2>1, BoundsAssumption DEF Edit, TypeOK, BoundsAssumption
  <2>2. CASE ~Edit
    <3>1. version' = version
      BY <2>2, CommandStep
         DEF Passed, Proceed, End, Start, vars, Next, Fail, CheckToolchainPath,
             BuildToolsCheck, BuildToolsCheckDebug, RemoveFails, BuildBtBootloader,
             BuildBtFirmware, BuildBtBootloaderDebug, BuildBtDebugFirmware, SignBtFirmware,
             BuildBtPackage, BuildBtMinimalPackage, BuildBtPackageDebug, PatchSd, WriteImage,
             RemoveTemporaries
    <3> QED
      BY <3>1 DEF TypeOK
  <2> QED
    BY <2>1, <2>2
<1>4. /\ cmd' \in DOMAIN Steps \cup {"none"}
      /\ atRoot' \in BOOLEAN
      /\ key' \in Keys
      /\ exit' \in {"running", "ok", "failed"}
  BY CommandStep, KeyExists DEF TypeOK, vars, Start, End, Passed, Proceed
<1> QED
  BY <1>1, <1>2, <1>3, <1>4 DEF TypeOK

-----------------------------------------------------------------------------
LEMMA OneBuildStep ==
    TypeOK /\ TodoIsRest /\ OneBuild /\ Cleaned /\ [Next]_vars => OneBuild'
<1> SUFFICES ASSUME TypeOK, TodoIsRest, OneBuild, Cleaned, [Next]_vars
             PROVE  OneBuild'
  OBVIOUS
<1>1. \E build \in Builds : OfBuild(PackageFiles, build)'
  <2>1. PICK build \in Builds : /\ OfBuild(PackageFiles, build)
                                /\ Step("bootloader") \/ Step("firmware") => build = Build({})
    <3>1. CASE Step("bootloader") \/ Step("firmware")
      <4>1. OfBuild(PackageFiles, Build({}))
        BY <3>1, AtStep DEF Cleaned
      <4> QED
        BY <4>1, CurrentBuild
    <3>2. CASE ~(Step("bootloader") \/ Step("firmware"))
      BY <3>2 DEF OneBuild
    <3> QED
      BY <3>1, <3>2
  <2> QED
    BY <2>1, PackageStep
<1>2. \E build \in Builds : OfBuild(DebugFiles, build)'
  <2>1. PICK build \in Builds :
            /\ OfBuild(DebugFiles, build)
            /\ Step("bootloaderDebug") \/ Step("firmwareDebug") => build = Build({})
    <3>1. CASE Step("bootloaderDebug") \/ Step("firmwareDebug")
      <4>1. OfBuild(DebugFiles, Build({}))
        BY <3>1, AtStep DEF Cleaned
      <4> QED
        BY <4>1, CurrentBuild
    <3>2. CASE ~(Step("bootloaderDebug") \/ Step("firmwareDebug"))
      BY <3>2 DEF OneBuild
    <3> QED
      BY <3>1, <3>2
  <2> QED
    BY <2>1, DebugStep
<1>3. "softdevice_patched.hex" \in DOMAIN files' =>
        files'["softdevice_patched.hex"] \in Written(SoftDeviceImage)
  <2> DEFINE patched == "softdevice_patched.hex"
             Right == patched \in DOMAIN files' => files'[patched] \in Written(SoftDeviceImage)
  <2>1. \A name, content : name # patched /\ Write(name, content) => Right
    BY DEF Write, OneBuild
  <2>2. \A gone : Delete(gone) => Right
    BY DEF Delete, Restrict, OneBuild
  <2>3. \A name, image : name # patched /\ WriteImage(name, image) => Right
    BY <2>1 DEF WriteImage
  <2>4. UNCHANGED files => Right
    BY DEF OneBuild
  <2>5. ASSUME WriteImage(patched, SoftDeviceImage)
        PROVE  Right
    <3>1. PICK content \in Written(SoftDeviceImage) : Write(patched, content)
      BY <2>5, AfterImage
    <3> QED
      BY <3>1 DEF Write
  <2> HIDE DEF Right
  <2> SUFFICES Right
    BY DEF Right
  <2>6. CASE \/ Edit \/ Fail \/ CheckToolchainPath \/ UNCHANGED vars
             \/ \E c \in DOMAIN Steps, root \in BOOLEAN, k \in Keys : Start(c, root, k)
    BY <2>4, <2>6 DEF Edit, Fail, CheckToolchainPath, vars, Start
  <2>7. CASE BuildToolsCheck \/ BuildToolsCheckDebug \/ RemoveFails \/ RemoveTemporaries
    BY <2>2, <2>7 DEF BuildToolsCheck, BuildToolsCheckDebug, RemoveFails, RemoveTemporaries
  <2>8. CASE \/ BuildBtBootloader \/ BuildBtFirmware
             \/ BuildBtBootloaderDebug \/ BuildBtDebugFirmware
    BY <2>1, <2>8
       DEF BuildBtBootloader, BuildBtFirmware, BuildBtBootloaderDebug, BuildBtDebugFirmware
  <2>9. CASE SignBtFirmware
    <3>1. \E content : \/ Write("BT_application_signed.bin", content)
                       \/ Write("BT_application_signed_once.bin", content)
      BY <2>9 DEF SignBtFirmware
    <3> QED
      BY <2>1, <3>1
  <2>10. CASE BuildBtPackage \/ BuildBtMinimalPackage \/ BuildBtPackageDebug
    BY <2>3, <2>10 DEF BuildBtPackage, BuildBtMinimalPackage, BuildBtPackageDebug
  <2>11. CASE PatchSd
    BY <2>5, <2>11 DEF PatchSd
  <2> QED
    BY <2>6, <2>7, <2>8, <2>9, <2>10, <2>11 DEF Next
<1> QED
  BY <1>1, <1>2, <1>3 DEF OneBuild

(* The folder of a command that runs on stays of the sources it found.     *)
LEMMA CleanedRuns ==
    ASSUME TypeOK, TodoIsRest, Cleaned, [Next]_vars, version' = version,
           cmd' = cmd, cmd # "none", \A name \in {"clean", "cleanDebug"} : IsLeft(name)' => IsLeft(name),
           \A name \in {"clean", "cleanDebug"} : IsLeft(name) => IsLeft(name)'
    PROVE  Cleaned'
<1>1. PICK build \in Builds : build = Build({})
  BY CurrentBuild
<1>2. Build({})' = build
  BY <1>1 DEF Build
<1>3. ASSUME cmd \in Cleans, ~IsLeft("clean")
      PROVE  OfBuild(PackageFiles, build)'
  BY <1>1, <1>3, PackageStep DEF Cleaned
<1>4. ASSUME cmd = "BuildFwDebugImage", ~IsLeft("cleanDebug")
      PROVE  OfBuild(DebugFiles, build)'
  BY <1>1, <1>4, DebugStep DEF Cleaned
<1>5. ASSUME cmd = "BuildFwImage", ~IsLeft("clean")
      PROVE  "BT_application_signed_once.bin" \notin DOMAIN files'
  BY <1>5, OnceStep DEF Cleaned
<1>6. ASSUME cmd' \in Cleans, ~IsLeft("clean")'
      PROVE  OfBuild(PackageFiles, Build({}))'
  BY <1>2, <1>3, <1>6 DEF OfBuild
<1>7. ASSUME cmd' = "BuildFwDebugImage", ~IsLeft("cleanDebug")'
      PROVE  OfBuild(DebugFiles, Build({}))'
  BY <1>2, <1>4, <1>7 DEF OfBuild
<1> QED
  BY <1>5, <1>6, <1>7 DEF Cleaned

LEMMA CleanedStep == TypeOK /\ TodoIsRest /\ Cleaned /\ [Next]_vars => Cleaned'
<1> SUFFICES ASSUME TypeOK, TodoIsRest, Cleaned, [Next]_vars
             PROVE  Cleaned'
  OBVIOUS
<1>1. CASE cmd' = "none"
  BY <1>1 DEF Cleaned, Cleans
<1>2. CASE UNCHANGED vars
  BY <1>2 DEF vars, Cleaned, IsLeft, OfBuild, Build
<1>3. ASSUME NEW c \in DOMAIN Steps, NEW root \in BOOLEAN, NEW k \in Keys, Start(c, root, k)
      PROVE  Cleaned'
  <2>1. cmd' = c /\ todo' = Steps[c]
    BY <1>3 DEF Start
  <2>2. /\ c \in Cleans => IsLeft("clean")'
        /\ c = "BuildFwDebugImage" => IsLeft("cleanDebug")'
    BY <2>1, AtStart
  <2> QED
    BY <2>1, <2>2 DEF Cleaned, Cleans
<1>4. CASE Passed("clean") /\ BuildToolsCheck /\ cmd' # "none"
  <2>1. version' = version /\ cmd' = cmd /\ cmd \in Cleans
    BY <1>4, AfterStep, AtStep DEF Passed
  <2>2. PICK build \in Builds : build = Build({})
    BY CurrentBuild
  <2>3. OfBuild(PackageFiles, build)'
    BY <1>4, AfterClean DEF BuildToolsCheck
  <2>4. OfBuild(PackageFiles, Build({}))'
    BY <2>1, <2>2, <2>3 DEF OfBuild, Build
  <2>5. "BT_application_signed_once.bin" \notin DOMAIN files'
    BY <1>4 DEF BuildToolsCheck, Delete, Restrict, PackageFiles
  <2> QED
    BY <2>1, <2>4, <2>5 DEF Cleaned, Cleans
<1>5. CASE Passed("cleanDebug") /\ BuildToolsCheckDebug /\ cmd' # "none"
  <2>1. version' = version /\ cmd' = cmd /\ cmd = "BuildFwDebugImage"
    BY <1>5, AfterStep, AtStep DEF Passed
  <2>2. PICK build \in Builds : build = Build({})
    BY CurrentBuild
  <2>3. OfBuild(DebugFiles, build)'
    BY <1>5, AfterClean DEF BuildToolsCheckDebug
  <2>4. OfBuild(DebugFiles, Build({}))'
    BY <2>1, <2>2, <2>3 DEF OfBuild, Build
  <2> QED
    BY <2>1, <2>4 DEF Cleaned, Cleans
<1>6. ASSUME NEW step \in StepNames \ {"clean", "cleanDebug"}, Passed(step), cmd' # "none"
      PROVE  Cleaned'
  <2>1. /\ version' = version /\ cmd' = cmd
        /\ \A name : IsLeft(name)' <=> (IsLeft(name) /\ name # step)
    BY <1>6, AfterStep DEF Passed
  <2> QED
    BY <1>6, <2>1, CleanedRuns
<1>7. "package" \in StepNames /\ "minimal" \in StepNames /\ "packageDebug" \in StepNames
  BY DEF StepNames
<1> QED
  BY <1>1, <1>2, <1>3, <1>4, <1>5, <1>6, <1>7, CommandStep DEF End

-----------------------------------------------------------------------------
LEMMA PackagedStep == TypeOK /\ TodoIsRest /\ OneBuild /\ Packaged /\ [Next]_vars => Packaged'
<1> SUFFICES ASSUME TypeOK, TodoIsRest, OneBuild, Packaged, [Next]_vars
             PROVE  Packaged'
  OBVIOUS
<1>1. CASE cmd' = "none"
  BY <1>1 DEF Packaged
<1>2. CASE UNCHANGED vars
  BY <1>2 DEF vars, Packaged, IsLeft
<1>3. ASSUME NEW c \in DOMAIN Steps, NEW root \in BOOLEAN, NEW k \in Keys, Start(c, root, k)
      PROVE  Packaged'
  <2>1. cmd' = c /\ todo' = Steps[c]
    BY <1>3 DEF Start
  <2>2. /\ c \in {"BuildFwImage", "PackageFirmware"} => IsLeft("package")'
        /\ c = "BuildMinimalImage" => IsLeft("minimal")'
        /\ c = "BuildFwDebugImage" => IsLeft("packageDebug")'
    BY <2>1, AtStart
  <2> QED
    BY <2>1, <2>2 DEF Packaged
<1>4. CASE Passed("package") /\ BuildBtPackage /\ cmd' # "none"
  <2>1. cmd' = cmd /\ cmd \in {"BuildFwImage", "PackageFirmware"}
    BY <1>4, AfterStep, AtStep DEF Passed
  <2>2. PICK build \in Builds : OfBuild(PackageFiles, build)
    BY DEF OneBuild
  <2> DEFINE app == files["BT_application_signed.bin"]
  <2>3. app \in Signed(build) /\ files["bootloader.hex"] = build
    BY <1>4, <2>2, Inputs DEF BuildBtPackage
  <2>4. app \in SignedApps
    BY <2>3 DEF Signed, SignedApps
  <2>5. Write("BTApp_Full_Image.hex", FullImage(app, build))
    BY <1>4, <2>3 DEF BuildBtPackage, WriteImage, End
  <2>6. /\ "BTApp_Full_Image.hex" \in DOMAIN files'
        /\ files'["BTApp_Full_Image.hex"] = FullImage(app, build)
    BY <2>5 DEF Write
  <2> QED
    BY <2>1, <2>4, <2>6 DEF Packaged
<1>5. CASE Passed("minimal") /\ BuildBtMinimalPackage /\ cmd' # "none"
  <2>1. cmd' = cmd /\ cmd = "BuildMinimalImage"
    BY <1>5, AfterStep, AtStep DEF Passed
  <2>2. PICK build \in Builds : OfBuild(PackageFiles, build)
    BY DEF OneBuild
  <2>3. files["bootloader.hex"] = build
    BY <1>5, <2>2, Inputs DEF BuildBtMinimalPackage
  <2>4. Write("BT_Minimal_Image.hex", MinimalImage(build))
    BY <1>5, <2>3 DEF BuildBtMinimalPackage, WriteImage, End
  <2>5. /\ "BT_Minimal_Image.hex" \in DOMAIN files'
        /\ files'["BT_Minimal_Image.hex"] = MinimalImage(build)
    BY <2>4 DEF Write
  <2> QED
    BY <2>1, <2>5 DEF Packaged
<1>6. CASE Passed("packageDebug") /\ BuildBtPackageDebug /\ cmd' # "none"
  <2>1. cmd' = cmd /\ cmd = "BuildFwDebugImage"
    BY <1>6, AfterStep, AtStep DEF Passed
  <2>2. PICK build \in Builds : OfBuild(DebugFiles, build)
    BY DEF OneBuild
  <2>3. files["BtappDebug.hex"] = build /\ files["bootloaderDebug.hex"] = build
    BY <1>6, <2>2, DebugInputs DEF BuildBtPackageDebug
  <2>4. Write("BTApp_Full_Image_debug.hex", DebugImage(build, build))
    BY <1>6, <2>3 DEF BuildBtPackageDebug, WriteImage, End
  <2>5. /\ "BTApp_Full_Image_debug.hex" \in DOMAIN files'
        /\ files'["BTApp_Full_Image_debug.hex"] = DebugImage(build, build)
    BY <2>4 DEF Write
  <2> QED
    BY <2>1, <2>5 DEF Packaged
<1>7. ASSUME NEW step \in StepNames \ {"package", "minimal", "packageDebug"},
             Passed(step), cmd' # "none"
      PROVE  Packaged'
  <2>1. cmd' = cmd /\ \A name : IsLeft(name)' <=> (IsLeft(name) /\ name # step)
    BY <1>7, AfterStep DEF Passed
  <2>2. Len(todo) # 1
    BY <1>7 DEF Passed, Proceed, End
  <2>3. /\ cmd \in {"BuildFwImage", "PackageFirmware"} => IsLeft("package")
        /\ cmd = "BuildMinimalImage" => IsLeft("minimal")
        /\ cmd = "BuildFwDebugImage" => IsLeft("packageDebug")
    BY <1>7, <2>2, AtStep DEF Passed
  <2> QED
    BY <1>7, <2>1, <2>3 DEF Packaged
<1>8. "clean" \in StepNames /\ "cleanDebug" \in StepNames
  BY DEF StepNames
<1> QED
  BY <1>1, <1>2, <1>3, <1>4, <1>5, <1>6, <1>7, <1>8, CommandStep DEF End

-----------------------------------------------------------------------------
(* The inductive invariant of the files.                                   *)
THEOREM Invariance == Spec => []IInv
<1>1. Init => IInv
  <2> SUFFICES ASSUME Init
               PROVE  IInv
    OBVIOUS
  <2>1. TypeOK
    BY TypeInit
  <2>2. cmd = "none" /\ exit = "ok" /\ DOMAIN files = {}
    BY DEF Init, EmptyMemory
  <2>3. Build({}) \in Builds
    BY <2>1, CurrentBuild
  <2>4. OneBuild
    BY <2>2, <2>3 DEF OneBuild, OfBuild
  <2> QED
    BY <2>1, <2>2, <2>4 DEF IInv, TodoIsRest, Cleaned, Cleans, Packaged
<1>2. IInv /\ [Next]_vars => IInv'
  BY TypeStep, TodoStep, OneBuildStep, CleanedStep, PackagedStep DEF IInv
<1> QED
  BY <1>1, <1>2, PTL DEF Spec

-----------------------------------------------------------------------------
(* The bytes of what is built.                                             *)

LEMMA CodeBytes ==
    ASSUME NEW crate \in {"app", "bootloader"}, NEW build, NEW origin,
           NEW a \in DOMAIN Code(crate, build, origin)
    PROVE  /\ Code(crate, build, origin)[a].part = crate
           /\ Code(crate, build, origin)[a].build = build
           /\ a \in origin .. (origin + CodeSize(crate, build.source) - 1)
BY DEF Code

LEMMA BootloaderBytes ==
    ASSUME NEW build \in Builds
    PROVE  /\ \A a \in DOMAIN BootloaderMemory(build) :
                \/ /\ BootloaderMemory(build)[a].part = "bootloader"
                   /\ BootloaderMemory(build)[a].build = build
                \/ BootloaderMemory(build)[a].part = "uicr"
           /\ BASE_BOOTLOADER_ADDR \in DOMAIN BootloaderMemory(build)
           /\ BootloaderMemory(build)[BASE_BOOTLOADER_ADDR].part = "bootloader"
           /\ BootloaderMemory(build)[BASE_BOOTLOADER_ADDR].build = build
<1> DEFINE code == Code("bootloader", build, BASE_BOOTLOADER_ADDR)
           words == [a \in UicrWords(build) |-> [part |-> "uicr", at |-> a]]
<1>1. \A a \in DOMAIN code : code[a].part = "bootloader" /\ code[a].build = build
  BY CodeBytes
<1>2. \A a \in DOMAIN words : words[a].part = "uicr"
  OBVIOUS
<1>3. BASE_BOOTLOADER_ADDR \in DOMAIN code
  <2>1. build.source \in 1..MaxVersion
    BY DEF Builds
  <2>2. CodeSize("bootloader", build.source) \in Nat \ {0} /\ BASE_BOOTLOADER_ADDR \in Nat
    BY <2>1, LayoutAssumption, HexAssumption DEF LayoutAssumption, HexAssumption
  <2> QED
    BY <2>2 DEF Code
<1> HIDE DEF code, words
<1>4. BootloaderMemory(build) = Over(code, words)
  BY DEF BootloaderMemory, code, words
<1>5. \A a \in DOMAIN Over(code, words) :
        \/ a \in DOMAIN code /\ Over(code, words)[a] = code[a]
        \/ a \in DOMAIN words /\ Over(code, words)[a] = words[a]
  BY DEF Over
<1>6. /\ BASE_BOOTLOADER_ADDR \in DOMAIN Over(code, words)
      /\ Over(code, words)[BASE_BOOTLOADER_ADDR] = code[BASE_BOOTLOADER_ADDR]
  BY <1>3 DEF Over
<1> QED
  BY <1>1, <1>2, <1>3, <1>4, <1>5, <1>6

LEMMA AppBytes ==
    ASSUME NEW build \in Builds
    PROVE  /\ AppOrigin(build) = BASE_APP_ADDR + SIGNATURE_HEADER_SIZE
           /\ \A a \in DOMAIN AppMemory(build) :
                /\ AppMemory(build)[a].part = "app"
                /\ AppMemory(build)[a].build = build
                /\ a \in AppOrigin(build) .. (BASE_BOOTLOADER_ADDR - 1)
           /\ AppOrigin(build) \in DOMAIN AppMemory(build)
<1>1. build.source \in 1..MaxVersion /\ build.features = {}
  BY DEF Builds
<1>2. AppOrigin(build) = BASE_APP_ADDR + SIGNATURE_HEADER_SIZE
  BY <1>1 DEF AppOrigin
<1>3. /\ CodeSize("app", build.source) \in
            1 .. (BASE_BOOTLOADER_ADDR - BASE_APP_ADDR - SIGNATURE_HEADER_SIZE)
      /\ BASE_BOOTLOADER_ADDR \in Nat /\ BASE_APP_ADDR \in Nat /\ SIGNATURE_HEADER_SIZE \in Nat
  BY <1>1, LayoutAssumption DEF LayoutAssumption
<1>4. \A a \in DOMAIN AppMemory(build) :
        /\ AppMemory(build)[a].part = "app"
        /\ AppMemory(build)[a].build = build
        /\ a \in AppOrigin(build) .. (AppOrigin(build) + CodeSize("app", build.source) - 1)
  BY CodeBytes DEF AppMemory
<1>5. AppOrigin(build) \in DOMAIN AppMemory(build)
  BY <1>2, <1>3 DEF AppMemory, Code
<1> QED
  BY <1>2, <1>3, <1>4, <1>5

LEMMA SignedBytes ==
    ASSUME NEW app \in SignedApps
    PROVE  /\ \A a \in DOMAIN SignedMemory(app) :
                /\ a \in BASE_APP_ADDR .. (BASE_BOOTLOADER_ADDR - 1)
                /\ \/ /\ SignedMemory(app)[a].part = "app"
                      /\ SignedMemory(app)[a].build = app.build
                   \/ /\ SignedMemory(app)[a].part = "header"
                      /\ SignedMemory(app)[a].app = app
                   \/ SignedMemory(app)[a].part = "padding"
           /\ BASE_APP_ADDR \in DOMAIN SignedMemory(app)
           /\ SignedMemory(app)[BASE_APP_ADDR].part = "header"
           /\ SignedMemory(app)[BASE_APP_ADDR].app = app
<1> DEFINE code == AppMemory(app.build)
           rest == [a \in BASE_APP_ADDR .. (BASE_BOOTLOADER_ADDR - 1) |->
                        IF a < AppOrigin(app.build) THEN [part |-> "header", app |-> app]
                        ELSE Padding]
<1>1. app.build \in Builds
  BY DEF SignedApps
<1>2. /\ BASE_APP_ADDR \in Nat /\ BASE_BOOTLOADER_ADDR \in Nat
      /\ SIGNATURE_HEADER_SIZE \in Nat \ {0}
      /\ BASE_APP_ADDR + SIGNATURE_HEADER_SIZE < BASE_BOOTLOADER_ADDR
  BY LayoutAssumption DEF LayoutAssumption
<1>3. /\ AppOrigin(app.build) = BASE_APP_ADDR + SIGNATURE_HEADER_SIZE
      /\ \A a \in DOMAIN code :
            /\ code[a].part = "app" /\ code[a].build = app.build
            /\ a \in AppOrigin(app.build) .. (BASE_BOOTLOADER_ADDR - 1)
  BY <1>1, AppBytes
<1>4. \A a \in DOMAIN rest : \/ rest[a].part = "header" /\ rest[a].app = app
                             \/ rest[a].part = "padding"
  BY DEF Padding
<1>5. /\ BASE_APP_ADDR \in DOMAIN rest
      /\ rest[BASE_APP_ADDR].part = "header" /\ rest[BASE_APP_ADDR].app = app
  BY <1>2, <1>3
<1>6. DOMAIN rest = BASE_APP_ADDR .. (BASE_BOOTLOADER_ADDR - 1)
  OBVIOUS
<1> HIDE DEF code, rest
<1>7. SignedMemory(app) = Over(code, rest)
  BY DEF SignedMemory, code, rest
<1>8. \A a \in DOMAIN Over(code, rest) :
        \/ a \in DOMAIN code /\ Over(code, rest)[a] = code[a]
        \/ a \in DOMAIN rest /\ Over(code, rest)[a] = rest[a]
  BY DEF Over
<1>9. BASE_APP_ADDR \notin DOMAIN code
  BY <1>2, <1>3
<1>10. /\ BASE_APP_ADDR \in DOMAIN Over(code, rest)
       /\ Over(code, rest)[BASE_APP_ADDR] = rest[BASE_APP_ADDR]
  BY <1>5, <1>9 DEF Over
<1>11. \A a \in DOMAIN code : a \in BASE_APP_ADDR .. (BASE_BOOTLOADER_ADDR - 1)
  BY <1>2, <1>3
<1> QED
  BY <1>3, <1>4, <1>5, <1>6, <1>7, <1>8, <1>10, <1>11

(* Three memories in one: what is on top is seen.                          *)
LEMMA InOver ==
    ASSUME NEW top, NEW bottom
    PROVE  /\ \A a \in DOMAIN Over(top, bottom) :
                \/ a \in DOMAIN top /\ Over(top, bottom)[a] = top[a]
                \/ a \in DOMAIN bottom /\ Over(top, bottom)[a] = bottom[a]
           /\ \A a \in DOMAIN top :
                a \in DOMAIN Over(top, bottom) /\ Over(top, bottom)[a] = top[a]
           /\ \A a \in DOMAIN bottom \ DOMAIN top :
                a \in DOMAIN Over(top, bottom) /\ Over(top, bottom)[a] = bottom[a]
BY DEF Over

LEMMA SoftDeviceBytes ==
    /\ \A a \in DOMAIN PatchedSoftDevice :
        PatchedSoftDevice[a].part \notin {"bootloader", "app", "header"}
    /\ BASE_BOOTLOADER_ADDR \notin DOMAIN PatchedSoftDevice
    /\ BASE_APP_ADDR \notin DOMAIN PatchedSoftDevice
    /\ \A build \in Builds : AppOrigin(build) \notin DOMAIN PatchedSoftDevice
<1>1. /\ BASE_APP_ADDR \in Nat /\ BASE_BOOTLOADER_ADDR \in Nat
      /\ SIGNATURE_HEADER_SIZE \in Nat \ {0}
      /\ BASE_APP_ADDR + SIGNATURE_HEADER_SIZE < BASE_BOOTLOADER_ADDR
  BY LayoutAssumption DEF LayoutAssumption
<1>2. \A a \in DOMAIN PatchedSoftDevice :
        /\ a \in 0 .. (BASE_APP_ADDR - 1)
        /\ PatchedSoftDevice[a].part \notin {"bootloader", "app", "header"}
  BY SoftDeviceAssumption DEF SoftDeviceAssumption
<1> HIDE DEF PatchedSoftDevice
<1> QED
  BY <1>1, <1>2, AppBytes

(* An image tells what it was made of.                                     *)
LEMMA FullParts ==
    ASSUME NEW app \in SignedApps, NEW boot \in Builds
    PROVE  /\ BuildsIn(FullMemory(app, boot), "bootloader") = {boot}
           /\ BuildsIn(FullMemory(app, boot), "app") \subseteq {app.build}
           /\ AppsIn(FullMemory(app, boot)) = {app}
<1> DEFINE sd == PatchedSoftDevice
           signed == SignedMemory(app)
           loader == BootloaderMemory(boot)
           memory == FullMemory(app, boot)
<1>1. memory = Over(sd, Over(signed, loader))
  BY DEF FullMemory
<1>2. BASE_BOOTLOADER_ADDR \notin DOMAIN signed
  BY SignedBytes, LayoutAssumption DEF LayoutAssumption
<1> HIDE DEF sd, signed, loader, memory
<1>3. \A a \in DOMAIN memory : \/ a \in DOMAIN sd /\ memory[a] = sd[a]
                               \/ a \in DOMAIN signed /\ memory[a] = signed[a]
                               \/ a \in DOMAIN loader /\ memory[a] = loader[a]
  BY <1>1, InOver
<1>4. \A a \in DOMAIN sd : sd[a].part \notin {"bootloader", "app", "header"}
  BY SoftDeviceBytes DEF sd
<1>5. \A a \in DOMAIN signed : \/ signed[a].part = "app" /\ signed[a].build = app.build
                               \/ signed[a].part = "header" /\ signed[a].app = app
                               \/ signed[a].part = "padding"
  BY SignedBytes DEF signed
<1>6. \A a \in DOMAIN loader : \/ loader[a].part = "bootloader" /\ loader[a].build = boot
                               \/ loader[a].part = "uicr"
  BY BootloaderBytes DEF loader
<1>7. /\ BASE_BOOTLOADER_ADDR \in DOMAIN memory
      /\ memory[BASE_BOOTLOADER_ADDR].part = "bootloader"
      /\ memory[BASE_BOOTLOADER_ADDR].build = boot
  <2>1. BASE_BOOTLOADER_ADDR \in DOMAIN Over(signed, loader)
        /\ Over(signed, loader)[BASE_BOOTLOADER_ADDR] = loader[BASE_BOOTLOADER_ADDR]
    BY <1>2, InOver, BootloaderBytes DEF loader
  <2>2. BASE_BOOTLOADER_ADDR \in DOMAIN memory
        /\ memory[BASE_BOOTLOADER_ADDR] = loader[BASE_BOOTLOADER_ADDR]
    BY <1>1, <2>1, InOver, SoftDeviceBytes DEF sd
  <2> QED
    BY <2>2, BootloaderBytes DEF loader
<1>8. /\ BASE_APP_ADDR \in DOMAIN memory
      /\ memory[BASE_APP_ADDR].part = "header"
      /\ memory[BASE_APP_ADDR].app = app
  <2>1. BASE_APP_ADDR \in DOMAIN Over(signed, loader)
        /\ Over(signed, loader)[BASE_APP_ADDR] = signed[BASE_APP_ADDR]
    BY InOver, SignedBytes DEF signed
  <2>2. BASE_APP_ADDR \in DOMAIN memory
        /\ memory[BASE_APP_ADDR] = signed[BASE_APP_ADDR]
    BY <1>1, <2>1, InOver, SoftDeviceBytes DEF sd
  <2> QED
    BY <2>2, SignedBytes DEF signed
<1>9. \A a \in DOMAIN memory :
        /\ memory[a].part = "bootloader" => memory[a].build = boot
        /\ memory[a].part = "app" => memory[a].build = app.build
        /\ memory[a].part = "header" => memory[a].app = app
  BY <1>3, <1>4, <1>5, <1>6
<1>10. BuildsIn(memory, "bootloader") = {boot} /\ AppsIn(memory) = {app}
  BY <1>7, <1>8, <1>9 DEF BuildsIn, AppsIn
<1>11. BuildsIn(memory, "app") \subseteq {app.build}
  BY <1>9 DEF BuildsIn
<1> QED
  BY <1>10, <1>11 DEF memory

LEMMA MinimalParts ==
    ASSUME NEW boot \in Builds
    PROVE  BuildsIn(MinimalMemory(boot), "bootloader") = {boot}
<1> DEFINE sd == PatchedSoftDevice
           loader == BootloaderMemory(boot)
           memory == MinimalMemory(boot)
<1>1. memory = Over(sd, loader)
  BY DEF MinimalMemory
<1> HIDE DEF sd, loader, memory
<1>2. \A a \in DOMAIN memory : \/ a \in DOMAIN sd /\ memory[a] = sd[a]
                               \/ a \in DOMAIN loader /\ memory[a] = loader[a]
  BY <1>1, InOver
<1>3. \A a \in DOMAIN sd : sd[a].part \notin {"bootloader", "app", "header"}
  BY SoftDeviceBytes DEF sd
<1>4. \A a \in DOMAIN loader : \/ loader[a].part = "bootloader" /\ loader[a].build = boot
                               \/ loader[a].part = "uicr"
  BY BootloaderBytes DEF loader
<1>5. BASE_BOOTLOADER_ADDR \in DOMAIN memory
      /\ memory[BASE_BOOTLOADER_ADDR] = loader[BASE_BOOTLOADER_ADDR]
  BY <1>1, InOver, SoftDeviceBytes, BootloaderBytes DEF sd, loader
<1>6. memory[BASE_BOOTLOADER_ADDR].part = "bootloader"
      /\ memory[BASE_BOOTLOADER_ADDR].build = boot
  BY <1>5, BootloaderBytes DEF loader
<1>7. \A a \in DOMAIN memory : memory[a].part = "bootloader" => memory[a].build = boot
  BY <1>2, <1>3, <1>4
<1> QED
  BY <1>5, <1>6, <1>7 DEF BuildsIn, memory

LEMMA DebugParts ==
    ASSUME NEW app \in Builds, NEW boot \in Builds
    PROVE  /\ BuildsIn(DebugMemory(app, boot), "bootloader") = {boot}
           /\ BuildsIn(DebugMemory(app, boot), "app") = {app}
<1> DEFINE sd == PatchedSoftDevice
           code == AppMemory(app)
           loader == BootloaderMemory(boot)
           memory == DebugMemory(app, boot)
           origin == AppOrigin(app)
<1>1. memory = Over(sd, Over(code, loader))
  BY DEF DebugMemory
<1>2. BASE_BOOTLOADER_ADDR \notin DOMAIN code
  BY AppBytes, LayoutAssumption DEF LayoutAssumption
<1> HIDE DEF sd, code, loader, memory, origin
<1>3. \A a \in DOMAIN memory : \/ a \in DOMAIN sd /\ memory[a] = sd[a]
                               \/ a \in DOMAIN code /\ memory[a] = code[a]
                               \/ a \in DOMAIN loader /\ memory[a] = loader[a]
  BY <1>1, InOver
<1>4. \A a \in DOMAIN sd : sd[a].part \notin {"bootloader", "app", "header"}
  BY SoftDeviceBytes DEF sd
<1>5. \A a \in DOMAIN code : code[a].part = "app" /\ code[a].build = app
  BY AppBytes DEF code
<1>6. \A a \in DOMAIN loader : \/ loader[a].part = "bootloader" /\ loader[a].build = boot
                               \/ loader[a].part = "uicr"
  BY BootloaderBytes DEF loader
<1>7. /\ BASE_BOOTLOADER_ADDR \in DOMAIN memory
      /\ memory[BASE_BOOTLOADER_ADDR].part = "bootloader"
      /\ memory[BASE_BOOTLOADER_ADDR].build = boot
  <2>1. BASE_BOOTLOADER_ADDR \in DOMAIN Over(code, loader)
        /\ Over(code, loader)[BASE_BOOTLOADER_ADDR] = loader[BASE_BOOTLOADER_ADDR]
    BY <1>2, InOver, BootloaderBytes DEF loader
  <2>2. BASE_BOOTLOADER_ADDR \in DOMAIN memory
        /\ memory[BASE_BOOTLOADER_ADDR] = loader[BASE_BOOTLOADER_ADDR]
    BY <1>1, <2>1, InOver, SoftDeviceBytes DEF sd
  <2> QED
    BY <2>2, BootloaderBytes DEF loader
<1>8. origin \in DOMAIN memory /\ memory[origin].part = "app" /\ memory[origin].build = app
  <2>1. origin \in DOMAIN code /\ origin \notin DOMAIN sd
    BY AppBytes, SoftDeviceBytes DEF code, sd, origin
  <2>2. origin \in DOMAIN Over(code, loader) /\ Over(code, loader)[origin] = code[origin]
    BY <2>1, InOver
  <2>3. origin \in DOMAIN memory /\ memory[origin] = code[origin]
    BY <1>1, <2>1, <2>2, InOver
  <2> QED
    BY <1>5, <2>1, <2>3
<1>9. \A a \in DOMAIN memory :
        /\ memory[a].part = "bootloader" => memory[a].build = boot
        /\ memory[a].part = "app" => memory[a].build = app
  BY <1>3, <1>4, <1>5, <1>6
<1> QED
  BY <1>7, <1>8, <1>9 DEF BuildsIn, memory

-----------------------------------------------------------------------------
(* What llvm-objcopy writes of a memory.                                   *)

(* A bounded set of addresses has a last one.                              *)
LEMMA MaxIs ==
    ASSUME NEW S \in SUBSET Nat, NEW x \in S, NEW b \in Nat, \A a \in S : a <= b
    PROVE  Max(S) \in S /\ \A a \in S : a <= Max(S)
<1> DEFINE HasMax(n) == (\A a \in S : a <= n) => \E m \in S : \A a \in S : a <= m
           T == {n \in Nat : HasMax(n)}
<1>1. 0 \in T
  <2> SUFFICES ASSUME \A a \in S : a <= 0
               PROVE  \A a \in S : a <= x
    OBVIOUS
  <2> QED
    OBVIOUS
<1>2. ASSUME NEW n \in Nat, n \in T
      PROVE  n + 1 \in T
  <2> SUFFICES ASSUME \A a \in S : a <= n + 1
               PROVE  \E m \in S : \A a \in S : a <= m
    OBVIOUS
  <2>1. CASE n + 1 \in S
    BY <2>1
  <2>2. CASE n + 1 \notin S
    <3>1. \A a \in S : a <= n
      BY <2>2
    <3> QED
      BY <1>2, <3>1
  <2> QED
    BY <2>1, <2>2
<1>3. HasMax(b)
  <2> HIDE DEF T
  <2>1. b \in T
    BY <1>1, <1>2, Induction
  <2> QED
    BY <2>1 DEF T
<1>4. \E m \in S : \A a \in S : a <= m
  BY <1>3
<1> QED
  BY <1>4 DEF Max

DumpStart == [base |-> 0, out |-> <<>>]

LEMMA DumpedIs ==
    ASSUME NEW memory, NEW n \in Nat, Max(DOMAIN memory) + 1 = n
    PROVE  \E below : /\ Dumped(memory) = below[n].out
                      /\ below = [a \in 0..n |-> IF a = 0 THEN DumpStart
                                                 ELSE Put(below[a - 1], memory, a - 1)]
<1> DEFINE Filled(at, m) == [a \in 0..m |-> IF a = 0 THEN DumpStart
                                          ELSE Put(at[a - 1], memory, a - 1)]
           Reached == {m \in Nat : \E at : at = Filled(at, m)}
<1>1. 0 \in Reached
  <2> DEFINE at == [a \in 0..0 |-> DumpStart]
  <2>1. at = Filled(at, 0)
    OBVIOUS
  <2> QED
    BY <2>1
<1>2. ASSUME NEW m \in Nat, m \in Reached
      PROVE  m + 1 \in Reached
  <2>1. PICK at : at = Filled(at, m)
    BY <1>2
  <2> DEFINE next == [a \in 0..(m + 1) |-> IF a <= m THEN at[a] ELSE Put(at[m], memory, m)]
  <2>2. next = Filled(next, m + 1)
    BY <2>1
  <2> HIDE DEF next, Step
  <2> QED
    BY <2>2
<1>3. \E at : at = Filled(at, n)
  <2> HIDE DEF Step
  <2> QED
    BY <1>1, <1>2, Induction
<1> DEFINE all == CHOOSE at : at = Filled(at, n)
<1>4. all = Filled(all, n)
  <2> HIDE DEF Step
  <2> QED
    BY <1>3
<1>5. Dumped(memory) = all[n].out
  BY DEF Dumped, DumpStart
<1> QED
  BY <1>4, <1>5

(* The records of all addresses below one.                                 *)
Below(memory, a) == [x \in {y \in DOMAIN memory : y < a} |-> memory[x]]

PutUpTo(at, memory, a, Byte) ==
    /\ at.base \in Nat /\ at.base <= a
    /\ at.out \in Seq(HexRecords(Byte))
    /\ ReadAll(at.out).upper = at.base
    /\ Hold(ReadAll(at.out).records, Below(memory, a), Byte)

LEMMA PutFirst ==
    ASSUME NEW Byte, NEW memory, DOMAIN memory \subseteq Nat
    PROVE  PutUpTo(DumpStart, memory, 0, Byte)
<1>1. Below(memory, 0) = EmptyMemory
  BY DEF Below, EmptyMemory
<1>2. <<>> \in Seq(HexRecords(Byte))
  OBVIOUS
<1>3. ReadAll(<<>>).upper = 0 /\ ReadAll(<<>>).records = <<>>
  BY ReadEmpty
<1>4. Hold(ReadAll(<<>>).records, Below(memory, 0), Byte)
  BY <1>1, <1>3, HoldNone
<1>5. DumpStart.base = 0 /\ DumpStart.out = <<>>
  BY DEF DumpStart
<1> QED
  BY <1>2, <1>3, <1>4, <1>5 DEF PutUpTo

(* The addresses that put the base of the offsets where it should be.      *)
Move(upper, near) ==
    IF near THEN <<ExtendedSegmentAddress(upper * (SEGMENT \div PARAGRAPH))>>
    ELSE <<ExtendedSegmentAddress(0), ExtendedLinearAddress(upper)>>

LEMMA MoveIs ==
    ASSUME NEW Byte, NEW out \in Seq(HexRecords(Byte)), NEW upper \in Nat, NEW near \in BOOLEAN
    PROVE  /\ out \o Move(upper, near) \in Seq(HexRecords(Byte))
           /\ ReadAll(out \o Move(upper, near)).upper = upper * SEGMENT
           /\ ReadAll(out \o Move(upper, near)).records = ReadAll(out).records
<1>1. /\ SEGMENT \in Nat \ {0} /\ PARAGRAPH \in Nat \ {0} /\ SEGMENT % PARAGRAPH = 0
  BY HexAssumption
<1> DEFINE unit == SEGMENT \div PARAGRAPH
<1>2. unit \in Nat /\ unit * PARAGRAPH = SEGMENT
  BY <1>1, DivMod
<1> HIDE DEF unit
<1>3. upper * unit \in Nat /\ (upper * unit) * PARAGRAPH = upper * SEGMENT
  BY <1>1, <1>2
<1>4. CASE near
  <2> DEFINE r == ExtendedSegmentAddress(upper * unit)
  <2>1. r \in HexRecords(Byte) /\ r.type = "ExtendedSegmentAddress" /\ r.addr = upper * unit
    BY <1>3 DEF HexRecords, ExtendedSegmentAddress
  <2> HIDE DEF r
  <2>2. out \o Move(upper, near) = Append(out, r)
    BY <1>4, <2>1, AppendIsConcat DEF Move, r, unit
  <2>3. Append(out, r) \in Seq(HexRecords(Byte))
    BY <2>1, AppendProperties
  <2>4. ReadAll(Append(out, r)) = Read(ReadAll(out), r)
    BY <2>1, ReadAppend
  <2>5. /\ Read(ReadAll(out), r).upper = upper * SEGMENT
        /\ Read(ReadAll(out), r).records = ReadAll(out).records
    BY <1>3, <2>1, ReadIs, ZenonT(60)
  <2> QED
    BY <2>2, <2>3, <2>4, <2>5
<1>5. CASE ~near
  <2> DEFINE q == ExtendedSegmentAddress(0)
             r == ExtendedLinearAddress(upper)
             more == Append(out, q)
  <2>1. /\ q \in HexRecords(Byte) /\ q.type = "ExtendedSegmentAddress"
        /\ r \in HexRecords(Byte) /\ r.type = "ExtendedLinearAddress" /\ r.addr = upper
    BY DEF HexRecords, ExtendedSegmentAddress, ExtendedLinearAddress
  <2> HIDE DEF q, r
  <2>2. out \o Move(upper, near) = Append(more, r)
    <3>1. Move(upper, near) = <<q>> \o <<r>>
      BY <1>5 DEF Move, q, r
    <3>2. <<q>> \in Seq(HexRecords(Byte)) /\ <<r>> \in Seq(HexRecords(Byte))
      BY <2>1
    <3>3. out \o (<<q>> \o <<r>>) = (out \o <<q>>) \o <<r>>
      BY <3>2, ConcatAssociative
    <3>4. more = out \o <<q>> /\ more \in Seq(HexRecords(Byte))
      BY <2>1, AppendIsConcat, AppendProperties
    <3>5. Append(more, r) = more \o <<r>>
      BY <2>1, <3>4, AppendIsConcat
    <3> QED
      BY <3>1, <3>3, <3>4, <3>5
  <2>3. more \in Seq(HexRecords(Byte)) /\ ReadAll(more) = Read(ReadAll(out), q)
    BY <2>1, AppendProperties, ReadAppend
  <2>4. Read(ReadAll(out), q).records = ReadAll(out).records
    BY <2>1, ReadIs
  <2> HIDE DEF more
  <2>5. /\ Append(more, r) \in Seq(HexRecords(Byte))
        /\ ReadAll(Append(more, r)) = Read(ReadAll(more), r)
    BY <2>1, <2>3, AppendProperties, ReadAppend
  <2>6. /\ Read(ReadAll(more), r).upper = upper * SEGMENT
        /\ Read(ReadAll(more), r).records = ReadAll(more).records
    BY <2>1, ReadIs
  <2> QED
    BY <2>2, <2>3, <2>4, <2>5, <2>6
<1> QED
  BY <1>4, <1>5

LEMMA PutNext ==
    ASSUME NEW Byte, NEW memory, DOMAIN memory \subseteq Nat,
           \A x \in DOMAIN memory : memory[x] \in Byte,
           NEW a \in Nat, NEW at, PutUpTo(at, memory, a, Byte)
    PROVE  PutUpTo(Put(at, memory, a), memory, a + 1, Byte)
<1>1. /\ at.base \in Nat /\ at.base <= a
      /\ at.out \in Seq(HexRecords(Byte))
      /\ ReadAll(at.out).upper = at.base
      /\ Hold(ReadAll(at.out).records, Below(memory, a), Byte)
  BY DEF PutUpTo
<1>2. CASE a \notin DOMAIN memory
  <2>1. Put(at, memory, a) = at
    BY <1>2 DEF Put
  <2>2. Below(memory, a + 1) = Below(memory, a)
    <3>1. {y \in DOMAIN memory : y < a + 1} = {y \in DOMAIN memory : y < a}
      BY <1>2
    <3> QED
      BY <3>1 DEF Below
  <2>3. at.base <= a + 1
    BY <1>1
  <2> QED
    BY <1>1, <2>1, <2>2, <2>3 DEF PutUpTo
<1>3. CASE a \in DOMAIN memory
  <2> DEFINE upper == a \div SEGMENT
             far == a >= at.base + SEGMENT
             near == ~(a >= SEGMENT * PARAGRAPH)
             base == IF far THEN upper * SEGMENT ELSE at.base
             moved == at.out \o (IF far THEN Move(upper, near) ELSE <<>>)
             byte == memory[a]
             d == Data(a - base, <<byte>>)
             new == [addr |-> a, value |-> <<byte>>]
  <2>1. Put(at, memory, a) = [base |-> base, out |-> moved \o <<d>>]
    BY <1>3 DEF Put, Move
  <2>2. /\ SEGMENT \in Nat \ {0} /\ upper \in Nat /\ upper * SEGMENT \in Nat
        /\ upper * SEGMENT <= a
    <3>1. SEGMENT \in Nat \ {0}
      BY HexAssumption
    <3>2. /\ upper \in Nat /\ a % SEGMENT \in 0..(SEGMENT - 1)
          /\ a = upper * SEGMENT + (a % SEGMENT)
      BY <3>1, DivMod
    <3> DEFINE low == upper * SEGMENT
               m == a % SEGMENT
    <3>3. low \in Nat /\ m \in Nat /\ a = low + m
      BY <3>1, <3>2
    <3> HIDE DEF low, m
    <3>4. low <= a
      BY <3>3
    <3> QED
      BY <3>1, <3>2, <3>3, <3>4 DEF low
  <2>3. base \in Nat /\ base <= a
    <3> HIDE DEF upper
    <3> QED
      BY <1>1, <2>2
  <2>4. /\ moved \in Seq(HexRecords(Byte))
        /\ ReadAll(moved).upper = base
        /\ ReadAll(moved).records = ReadAll(at.out).records
    <3>1. CASE far
      <4>1. moved = at.out \o Move(upper, near) /\ base = upper * SEGMENT /\ near \in BOOLEAN
        BY <3>1
      <4> HIDE DEF moved, upper, near, base
      <4> QED
        BY <1>1, <2>2, <4>1, MoveIs
    <3>2. CASE ~far
      <4>1. moved = at.out /\ base = at.base
        BY <1>1, <3>2, ConcatEmptySeq
      <4> HIDE DEF moved, base
      <4> QED
        BY <1>1, <4>1
    <3> HIDE DEF far
    <3> QED
      BY <3>1, <3>2
  <2> HIDE DEF moved, base
  <2>5. byte \in Byte /\ <<byte>> \in Seq(Byte) /\ <<byte>> # <<>> /\ Len(<<byte>>) = 1
        /\ <<byte>>[1] = byte
    BY <1>3
  <2>6. /\ d \in HexRecords(Byte) /\ d.type = "Data"
        /\ d.offset = a - base /\ d.value = <<byte>>
    BY <2>3, <2>5 DEF HexRecords, Data
  <2>7. new \in AddrRecords(Byte) /\ new.addr = a /\ new.value = <<byte>>
    BY <2>5 DEF AddrRecords
  <2> HIDE DEF d, byte
  <2>8. /\ moved \o <<d>> \in Seq(HexRecords(Byte))
        /\ ReadAll(moved \o <<d>>) = Read(ReadAll(moved), d)
    <3> HIDE DEF new
    <3>1. moved \o <<d>> = Append(moved, d)
      BY <2>4, <2>6, AppendIsConcat
    <3>2. Append(moved, d) \in Seq(HexRecords(Byte))
      BY <2>4, <2>6, AppendProperties
    <3>3. ReadAll(Append(moved, d)) = Read(ReadAll(moved), d)
      BY <2>4, <2>6, ReadAppend
    <3> QED
      BY <3>1, <3>2, <3>3
  <2>9. base + (a - base) = a
    BY <2>3
  <2>10. /\ Read(ReadAll(moved), d).upper = base
         /\ Read(ReadAll(moved), d).records = Append(ReadAll(moved).records, new)
    <3>1. Read(ReadAll(moved), d).upper = ReadAll(moved).upper
      BY <2>6, ReadIs
    <3>2. Read(ReadAll(moved), d).records = Append(ReadAll(moved).records,
                [addr |-> ReadAll(moved).upper + d.offset, value |-> d.value])
      BY <2>6, ReadIs
    <3> QED
      BY <2>4, <2>6, <2>9, <3>1, <3>2
  <2> HIDE DEF new
  <2>11. \A x : Covers(new, x) <=> x = a
    <3>1. \A x : Covers(new, x) <=> x \in Int /\ a <= x /\ x < a + 1
      BY <2>5, <2>7, CoversIs
    <3> QED
      BY <3>1
  <2>12. \A x \in DOMAIN Below(memory, a) : ~Covers(new, x)
    BY <2>11 DEF Below
  <2>13. Over(Placed(new.addr, new.value), Below(memory, a)) = Below(memory, a + 1)
    <3>1. Placed(new.addr, new.value) = [x \in {a} |-> memory[x]]
      <4>1. Placed(a, <<byte>>) = [x \in a..(a + 1 - 1) |-> <<byte>>[x - a + 1]]
        BY <2>5 DEF Placed
      <4>2. a..(a + 1 - 1) = {a} /\ a - a + 1 = 1
        OBVIOUS
      <4> QED
        BY <2>5, <2>7, <4>1, <4>2 DEF byte
    <3>2. {y \in DOMAIN memory : y < a + 1} = {a} \cup {y \in DOMAIN memory : y < a}
      BY <1>3
    <3> QED
      BY <3>1, <3>2 DEF Over, Below
  <2>14. Hold(Append(ReadAll(moved).records, new), Below(memory, a + 1), Byte)
    BY <1>1, <2>4, <2>7, <2>12, <2>13, HoldMore
  <2> DEFINE next == [base |-> base, out |-> moved \o <<d>>]
  <2>15. /\ next.base = base /\ next.out = moved \o <<d>>
    OBVIOUS
  <2> HIDE DEF next
  <2>16. PutUpTo(next, memory, a + 1, Byte)
    <3> HIDE DEF upper, far, near
    <3>1. next.base \in Nat /\ next.base <= a + 1
      BY <2>3, <2>15
    <3>2. next.out \in Seq(HexRecords(Byte)) /\ ReadAll(next.out).upper = next.base
      <4>1. next.out \in Seq(HexRecords(Byte))
        BY <2>8, <2>15
      <4>2. ReadAll(next.out) = Read(ReadAll(moved), d)
        BY <2>8, <2>15
      <4> QED
        BY <2>10, <2>15, <4>1, <4>2
    <3>3. Hold(ReadAll(next.out).records, Below(memory, a + 1), Byte)
      <4>1. ReadAll(next.out).records = Append(ReadAll(moved).records, new)
        BY <2>8, <2>10, <2>15
      <4> QED
        BY <2>14, <4>1
    <3> QED
      BY <3>1, <3>2, <3>3 DEF PutUpTo
  <2> QED
    BY <2>1, <2>16 DEF next
<1> QED
  BY <1>2, <1>3

(* objcopy: the records of the file hold the memory.                       *)
LEMMA DumpHolds ==
    ASSUME NEW Byte, NEW memory, memory = [a \in DOMAIN memory |-> memory[a]],
           DOMAIN memory \subseteq Nat, NEW some \in DOMAIN memory,
           NEW bound \in Nat, \A a \in DOMAIN memory : a <= bound,
           \A a \in DOMAIN memory : memory[a] \in Byte, NEW entry \in Nat
    PROVE  Hold(ReadIHex(ObjcopyHex(memory, entry)), memory, Byte)
<1> DEFINE last == Max(DOMAIN memory)
           n == last + 1
<1>1. n \in Nat /\ \A a \in DOMAIN memory : a < n
  <2>1. last \in DOMAIN memory /\ \A a \in DOMAIN memory : a <= last
    BY MaxIs
  <2> HIDE DEF last
  <2> QED
    BY <2>1
<1>2. PICK below : /\ Dumped(memory) = below[n].out
                   /\ below = [a \in 0..n |-> IF a = 0 THEN DumpStart
                                              ELSE Put(below[a - 1], memory, a - 1)]
  <2>1. Max(DOMAIN memory) + 1 = n
    OBVIOUS
  <2> HIDE DEF n
  <2> QED
    BY <1>1, <2>1, DumpedIs
<1> HIDE DEF n, last
<1> DEFINE S == {a \in Nat : a <= n => PutUpTo(below[a], memory, a, Byte)}
<1>3. 0 \in S
  <2>1. below[0] = DumpStart
    BY <1>1, <1>2
  <2> QED
    BY <2>1, PutFirst
<1>4. ASSUME NEW a \in Nat, a \in S
      PROVE  a + 1 \in S
  <2> SUFFICES ASSUME a + 1 <= n
               PROVE  PutUpTo(below[a + 1], memory, a + 1, Byte)
    OBVIOUS
  <2>1. below[a + 1] = Put(below[a], memory, a) /\ PutUpTo(below[a], memory, a, Byte)
    BY <1>1, <1>2, <1>4
  <2> QED
    BY <2>1, PutNext
<1>5. PutUpTo(below[n], memory, n, Byte)
  <2> HIDE DEF S
  <2>1. n \in S
    BY <1>1, <1>3, <1>4, Induction
  <2> QED
    BY <1>1, <2>1 DEF S
<1> DEFINE out == Dumped(memory)
<1>6. out \in Seq(HexRecords(Byte)) /\ Hold(ReadAll(out).records, Below(memory, n), Byte)
  BY <1>2, <1>5 DEF PutUpTo
<1>7. Below(memory, n) = memory
  <2>1. {y \in DOMAIN memory : y < n} = DOMAIN memory
    BY <1>1
  <2> QED
    BY <2>1 DEF Below
<1> DEFINE cs == (entry \div SEGMENT) * (SEGMENT \div PARAGRAPH)
           q == StartSegmentAddress(cs, entry % SEGMENT)
           more == Append(out, q)
<1>8. /\ q \in HexRecords(Byte) /\ q.type = "StartSegmentAddress"
      /\ EndOfFile \in HexRecords(Byte) /\ EndOfFile.type = "EndOfFile"
  <2>1. /\ SEGMENT \in Nat \ {0} /\ PARAGRAPH \in Nat \ {0}
        /\ entry \div SEGMENT \in Nat /\ SEGMENT \div PARAGRAPH \in Nat
        /\ entry % SEGMENT \in 0..(SEGMENT - 1)
    BY HexAssumption, DivMod
  <2>2. cs \in Nat /\ entry % SEGMENT \in Nat
    BY <2>1
  <2> HIDE DEF cs
  <2> QED
    BY <2>2 DEF HexRecords, StartSegmentAddress, EndOfFile
<1> HIDE DEF out
<1>9. ObjcopyHex(memory, entry) = Append(more, EndOfFile)
  <2> HIDE DEF q
  <2>1. ObjcopyHex(memory, entry) = out \o <<q, EndOfFile>>
    BY DEF ObjcopyHex, out, q
  <2>2. <<q, EndOfFile>> = <<q>> \o <<EndOfFile>>
    OBVIOUS
  <2>3. <<q>> \in Seq(HexRecords(Byte)) /\ <<EndOfFile>> \in Seq(HexRecords(Byte))
    BY <1>8
  <2>4. out \o (<<q>> \o <<EndOfFile>>) = (out \o <<q>>) \o <<EndOfFile>>
    BY <1>6, <2>3, ConcatAssociative
  <2>5. more = out \o <<q>> /\ more \in Seq(HexRecords(Byte))
    BY <1>6, <1>8, AppendIsConcat, AppendProperties
  <2>6. Append(more, EndOfFile) = more \o <<EndOfFile>>
    BY <1>8, <2>5, AppendIsConcat
  <2> QED
    BY <2>1, <2>2, <2>4, <2>5, <2>6
<1> HIDE DEF q
<1>10. ReadAll(more).records = ReadAll(out).records /\ more \in Seq(HexRecords(Byte))
  <2>1. ReadAll(more) = Read(ReadAll(out), q) /\ more \in Seq(HexRecords(Byte))
    BY <1>6, <1>8, ReadAppend, AppendProperties
  <2>2. Read(ReadAll(out), q).records = ReadAll(out).records
    BY <1>8, ReadIs
  <2> HIDE DEF more
  <2> QED
    BY <2>1, <2>2
<1> HIDE DEF more
<1>11. ReadAll(Append(more, EndOfFile)).records = ReadAll(more).records
  <2>1. ReadAll(Append(more, EndOfFile)) = Read(ReadAll(more), EndOfFile)
    BY <1>8, <1>10, ReadAppend
  <2>2. Read(ReadAll(more), EndOfFile).records = ReadAll(more).records
    BY <1>8, ReadIs
  <2> QED
    BY <2>1, <2>2
<1>12. ReadIHex(ObjcopyHex(memory, entry)) = ReadAll(out).records
  BY <1>9, <1>10, <1>11 DEF ReadIHex
<1> QED
  BY <1>6, <1>7, <1>12

-----------------------------------------------------------------------------
(* merge_files of what the tool gives it.                                  *)

LEMMA HoldOfMore ==
    ASSUME NEW Byte, NEW More, Byte \subseteq More, NEW records, NEW memory,
           Hold(records, memory, Byte)
    PROVE  Hold(records, memory, More)
<1>1. /\ records \in Seq(AddrRecords(Byte))
      /\ Apart(records) /\ MadeOf(memory, ToSet(records))
  BY DEF Hold
<1>2. AddrRecords(Byte) \subseteq AddrRecords(More)
  <2> SUFFICES ASSUME NEW r \in AddrRecords(Byte)
               PROVE  r \in AddrRecords(More)
    OBVIOUS
  <2>1. /\ r.addr \in Nat /\ r.value \in Seq(Byte) /\ r.value # <<>>
        /\ r = [addr |-> r.addr, value |-> r.value]
    BY DEF AddrRecords
  <2>2. r.value \in Seq(More)
    BY <2>1
  <2> QED
    BY <2>1, <2>2 DEF AddrRecords
<1>3. records \in Seq(AddrRecords(More))
  BY <1>1, <1>2
<1> QED
  BY <1>1, <1>3 DEF Hold

LEMMA SeqOfMore ==
    ASSUME NEW S, NEW T, S \subseteq T, NEW s \in Seq(S)
    PROVE  s \in Seq(T)
OBVIOUS

LEMMA SetOfBoth ==
    ASSUME NEW S, NEW p \in Seq(S), NEW q \in Seq(S)
    PROVE  ToSet(p \o q) = ToSet(p) \cup ToSet(q)
<1>1. /\ Len(p) \in Nat /\ Len(q) \in Nat /\ Len(p \o q) = Len(p) + Len(q)
      /\ DOMAIN p = 1..Len(p) /\ DOMAIN q = 1..Len(q)
      /\ DOMAIN (p \o q) = 1..(Len(p) + Len(q))
      /\ \A i \in 1..Len(p) : (p \o q)[i] = p[i]
      /\ \A i \in 1..Len(q) : (p \o q)[Len(p) + i] = q[i]
  BY ConcatProperties, LenProperties
<1> DEFINE both == p \o q
           k == Len(p)
           l == Len(q)
<1> HIDE DEF both, k, l
<1>2. \A e \in ToSet(both) : e \in ToSet(p) \cup ToSet(q)
  <2> SUFFICES ASSUME NEW i \in 1..(k + l)
               PROVE  both[i] \in ToSet(p) \cup ToSet(q)
    BY <1>1 DEF ToSet, both, k, l
  <2>1. CASE i <= k
    BY <1>1, <2>1 DEF ToSet, both, k
  <2>2. CASE i > k
    <3>1. i - k \in 1..l /\ k + (i - k) = i
      BY <1>1, <2>2 DEF k, l
    <3> QED
      BY <1>1, <3>1 DEF ToSet, both, k, l
  <2> QED
    BY <1>1, <2>1, <2>2 DEF k
<1>3. \A e \in ToSet(p) : e \in ToSet(both)
  <2> SUFFICES ASSUME NEW i \in 1..k
               PROVE  p[i] \in ToSet(both)
    BY <1>1 DEF ToSet, k
  <2>1. i \in 1..(k + l)
    BY <1>1 DEF k, l
  <2> QED
    BY <1>1, <2>1 DEF ToSet, both, k, l
<1>4. \A e \in ToSet(q) : e \in ToSet(both)
  <2> SUFFICES ASSUME NEW i \in 1..l
               PROVE  q[i] \in ToSet(both)
    BY <1>1 DEF ToSet, l
  <2>1. k + i \in 1..(k + l)
    BY <1>1 DEF k, l
  <2> QED
    BY <1>1, <2>1 DEF ToSet, both, k, l
<1> QED
  BY <1>2, <1>3, <1>4 DEF both

(* A memory beside one that has all of the patches.                        *)
LEMMA PatchedBeside ==
    ASSUME NEW m, NEW n, NEW patches,
           \A p \in ToSet(patches) : p.addr \in DOMAIN m
    PROVE  Patched(Over(m, n), patches) = Over(Patched(m, patches), n)
<1> DEFINE left == Patched(Over(m, n), patches)
           right == Over(Patched(m, patches), n)
<1>1. /\ DOMAIN left = DOMAIN m \cup DOMAIN n
      /\ DOMAIN right = DOMAIN m \cup DOMAIN n
      /\ left = [a \in DOMAIN left |-> left[a]]
      /\ right = [a \in DOMAIN right |-> right[a]]
  BY DEF Patched, Over
<1>2. ASSUME NEW a \in DOMAIN m \cup DOMAIN n
      PROVE  left[a] = right[a]
  <2>1. CASE a \in DOMAIN m
    BY <2>1 DEF Patched, Over
  <2>2. CASE a \notin DOMAIN m
    <3>1. left[a] = Over(m, n)[a]
      BY <2>2 DEF Patched, Over
    <3>2. right[a] = n[a] /\ Over(m, n)[a] = n[a]
      BY <2>2 DEF Patched, Over
    <3> QED
      BY <3>1, <3>2
  <2> QED
    BY <2>1, <2>2
<1> HIDE DEF left, right
<1>3. left = right
  BY <1>1, <1>2
<1> QED
  BY <1>3 DEF left, right

(* The SoftDevice and what is above it: its patches, and no more.          *)
LEMMA WithSoftDevice ==
    ASSUME NEW Byte, NEW records, NEW memory, Hold(records, memory, Byte),
           \A a \in DOMAIN memory : a \in Nat /\ a >= BASE_APP_ADDR
    PROVE  Exact(Merge(ReadIHex(SoftDevice) \o records, patches_7_3_0),
                 Over(PatchedSoftDevice, memory))
<1> DEFINE sd == ReadIHex(SoftDevice)
           m == Contents(SoftDevice)
           All == VendorByte \cup Byte
           patches == patches_7_3_0
<1>1. /\ SoftDevice \in Seq(PlainRecords(VendorByte)) /\ Apart(sd)
      /\ \E r \in ToSet(sd) : r.addr < SEGMENT
      /\ patches \in Seq([addr : Nat, value : VendorByte])
      /\ PatchesFit(patches, sd)
      /\ \A a \in DOMAIN Patched(m, patches) : a \in 0 .. (BASE_APP_ADDR - 1)
  BY SoftDeviceAssumption DEF SoftDeviceAssumption, PatchedSoftDevice
<1>2. Hold(sd, m, VendorByte)
  BY <1>1, ReadPlain
<1> HIDE DEF sd, m, patches
<1>3. Hold(sd, m, All) /\ Hold(records, memory, All)
  BY <1>2, HoldOfMore
<1>4. \A a \in DOMAIN m : a \in 0 .. (BASE_APP_ADDR - 1)
  BY <1>1 DEF Patched
<1>5. DOMAIN m \cap DOMAIN memory = {}
  <2>1. BASE_APP_ADDR \in Nat
    BY LayoutAssumption
  <2> QED
    BY <1>4, <2>1
<1> HIDE DEF All
<1>6. Hold(sd \o records, Over(m, memory), All)
  BY <1>3, <1>5, HoldBoth
<1>7. ToSet(sd \o records) = ToSet(sd) \cup ToSet(records)
  BY <1>3, SetOfBoth DEF Hold
<1>8. /\ MadeOf(m, ToSet(sd)) /\ MadeOf(memory, ToSet(records))
  BY <1>3 DEF Hold
<1>9. \A i \in DOMAIN patches : patches[i].addr \in DOMAIN m
  BY <1>1, <1>8 DEF PatchesFit, MadeOf
<1>10. \A i \in DOMAIN patches : \A r \in ToSet(records) : ~Covers(r, patches[i].addr)
  BY <1>5, <1>8, <1>9 DEF MadeOf
<1>11. PatchesFit(patches, sd \o records)
  <2>1. /\ \A i, j \in DOMAIN patches : i < j => patches[i].addr > patches[j].addr
        /\ \A i \in DOMAIN patches : \E r \in ToSet(sd) : Covers(r, patches[i].addr)
        /\ \A r \in ToSet(sd), i, j \in DOMAIN patches :
            Covers(r, patches[i].addr) /\ Covers(r, patches[j].addr) => i = j
    BY <1>1 DEF PatchesFit
  <2>2. \A i \in DOMAIN patches : \E r \in ToSet(sd \o records) : Covers(r, patches[i].addr)
    BY <1>7, <2>1
  <2>3. \A r \in ToSet(sd \o records), i, j \in DOMAIN patches :
            Covers(r, patches[i].addr) /\ Covers(r, patches[j].addr) => i = j
    BY <1>7, <1>10, <2>1
  <2> QED
    BY <2>1, <2>2, <2>3 DEF PatchesFit
<1>12. \E r \in ToSet(sd \o records) : r.addr < SEGMENT
  BY <1>1, <1>7
<1>13. patches \in Seq(Patches(All))
  <2>1. [addr : Nat, value : VendorByte] \subseteq Patches(All)
    BY DEF All, Patches
  <2>2. patches \in Seq(Patches(VendorByte)) /\ Patches(VendorByte) \subseteq Patches(All)
    BY <1>1, <2>1 DEF Patches
  <2> QED
    BY <2>2, SeqOfMore
<1>14. /\ Contents(Merge(sd \o records, patches)) = Patched(Over(m, memory), patches)
       /\ IsWhole(Merge(sd \o records, patches))
       /\ ~IsWhole(<<Head(Merge(sd \o records, patches))>>)
  BY <1>6, <1>11, <1>12, <1>13, MergeCorrect
<1>15. Patched(Over(m, memory), patches) = Over(Patched(m, patches), memory)
  <2>1. \A p \in ToSet(patches) : p.addr \in DOMAIN m
    BY <1>9 DEF ToSet
  <2> QED
    BY <2>1, PatchedBeside
<1> QED
  BY <1>14, <1>15 DEF Exact, PatchedSoftDevice, sd, m, patches

LEMMA Layout ==
    /\ SEGMENT \in Nat /\ PARAGRAPH \in Nat
    /\ BASE_APP_ADDR \in Nat /\ BASE_BOOTLOADER_ADDR \in Nat
    /\ BASE_APP_ADDR < BASE_BOOTLOADER_ADDR
    /\ UICR_BOOTLOADER_ADDR \in Nat /\ UICR_APPROTECT \in Nat
<1>1. /\ SEGMENT \in Nat /\ PARAGRAPH \in Nat
  BY HexAssumption
<1>2. /\ BASE_APP_ADDR \in Nat /\ BASE_BOOTLOADER_ADDR \in Nat
      /\ SIGNATURE_HEADER_SIZE \in Nat
      /\ BASE_APP_ADDR + SIGNATURE_HEADER_SIZE < BASE_BOOTLOADER_ADDR
      /\ UICR_BOOTLOADER_ADDR \in Nat /\ UICR_APPROTECT \in Nat
  BY LayoutAssumption
<1> QED
  BY <1>1, <1>2

Values(memory) == {memory[a] : a \in DOMAIN memory}

LEMMA BootloaderHolds ==
    ASSUME NEW boot \in Builds
    PROVE  /\ Hold(ReadIHex(BootloaderHex(boot)), BootloaderMemory(boot),
                   Values(BootloaderMemory(boot)))
           /\ \A a \in DOMAIN BootloaderMemory(boot) : a \in Nat /\ a >= BASE_BOOTLOADER_ADDR
<1> DEFINE memory == BootloaderMemory(boot)
           size == CodeSize("bootloader", boot.source)
           code == BASE_BOOTLOADER_ADDR .. (BASE_BOOTLOADER_ADDR + size - 1)
           top == SEGMENT * PARAGRAPH
           bound == top + UICR_BOOTLOADER_ADDR + UICR_APPROTECT
<1>1. boot.source \in 1..MaxVersion /\ boot.features = {}
  BY DEF Builds
<1>2. /\ DOMAIN memory = code \cup {UICR_BOOTLOADER_ADDR, UICR_APPROTECT}
      /\ memory = [a \in DOMAIN memory |-> memory[a]]
  BY <1>1 DEF BootloaderMemory, Over, Code, UicrWords
<1> HIDE DEF memory
<1>3. top \in Nat
  BY Layout
<1>4. /\ size \in 1 .. (top - BASE_BOOTLOADER_ADDR)
      /\ UICR_BOOTLOADER_ADDR \in Nat \ 0..(top - 1) /\ UICR_APPROTECT \in Nat \ 0..(top - 1)
  BY <1>1, LayoutAssumption
<1> HIDE DEF top, size
<1>5. /\ bound \in Nat
      /\ \A a \in DOMAIN memory : a \in Nat /\ a >= BASE_BOOTLOADER_ADDR /\ a <= bound
  BY <1>2, <1>3, <1>4, Layout
<1>6. BASE_BOOTLOADER_ADDR \in DOMAIN memory
  BY <1>2, <1>3, <1>4, Layout
<1>7. \A a \in DOMAIN memory : memory[a] \in Values(memory)
  BY DEF Values
<1> HIDE DEF bound
<1>8. Hold(ReadIHex(ObjcopyHex(memory, BASE_BOOTLOADER_ADDR)), memory, Values(memory))
  <2>1. BASE_BOOTLOADER_ADDR \in Nat /\ DOMAIN memory \subseteq Nat
    BY <1>5, Layout
  <2> QED
    BY <1>2, <1>5, <1>6, <1>7, <2>1, DumpHolds
<1> QED
  BY <1>5, <1>8 DEF memory, BootloaderHex

LEMMA AppHolds ==
    ASSUME NEW build \in Builds
    PROVE  Hold(ReadIHex(AppHex(build)), AppMemory(build), Values(AppMemory(build)))
<1> DEFINE memory == AppMemory(build)
           origin == AppOrigin(build)
<1>1. /\ origin \in DOMAIN memory
      /\ origin = BASE_APP_ADDR + SIGNATURE_HEADER_SIZE
      /\ \A a \in DOMAIN memory : a \in origin .. (BASE_BOOTLOADER_ADDR - 1)
  BY AppBytes
<1>2. memory = [a \in DOMAIN memory |-> memory[a]]
  BY DEF AppMemory, Code
<1>3. \A a \in DOMAIN memory : memory[a] \in Values(memory)
  BY DEF Values
<1> HIDE DEF memory, origin
<1>4. origin \in Nat
  BY <1>1, LayoutAssumption
<1>5. /\ DOMAIN memory \subseteq Nat
      /\ \A a \in DOMAIN memory : a <= BASE_BOOTLOADER_ADDR
  BY <1>1, <1>4, Layout
<1>6. BASE_BOOTLOADER_ADDR \in Nat
  BY Layout
<1>7. Hold(ReadIHex(ObjcopyHex(memory, origin)), memory, Values(memory))
  BY <1>1, <1>2, <1>3, <1>4, <1>5, <1>6, DumpHolds
<1> QED
  BY <1>7 DEF memory, origin, AppHex

LEMMA SignedHolds ==
    ASSUME NEW app \in SignedApps
    PROVE  /\ Hold(ReadBinary(SignedBinary(app), BASE_APP_ADDR), SignedMemory(app),
                   Values(SignedMemory(app)))
           /\ \A a \in DOMAIN SignedMemory(app) : a \in BASE_APP_ADDR .. (BASE_BOOTLOADER_ADDR - 1)
<1> DEFINE memory == SignedMemory(app)
           data == SignedBinary(app)
           n == BASE_BOOTLOADER_ADDR - BASE_APP_ADDR
           first == BASE_APP_ADDR
<1>1. n \in Nat /\ first \in Nat
  BY Layout
<1>2. /\ \A a \in DOMAIN memory : a \in first .. (BASE_BOOTLOADER_ADDR - 1)
      /\ first .. (BASE_BOOTLOADER_ADDR - 1) \subseteq DOMAIN memory
      /\ memory = [a \in DOMAIN memory |-> memory[a]]
  <2>1. \A a \in DOMAIN memory : a \in first .. (BASE_BOOTLOADER_ADDR - 1)
    BY SignedBytes
  <2>2. first .. (BASE_BOOTLOADER_ADDR - 1) \subseteq DOMAIN memory
    BY DEF SignedMemory, Over
  <2>3. memory = [a \in DOMAIN memory |-> memory[a]]
    BY DEF SignedMemory, Over
  <2> QED
    BY <2>1, <2>2, <2>3
<1>3. DOMAIN memory = first .. (first + n - 1)
  <2>1. first + n - 1 = BASE_BOOTLOADER_ADDR - 1
    BY Layout
  <2> HIDE DEF memory, first, n
  <2> QED
    BY <1>2, <2>1
<1>4. data = [i \in 1..n |-> memory[first + i - 1]]
  BY DEF SignedBinary
<1> HIDE DEF memory, data, n, first
<1>5. /\ data \in Seq(Values(memory)) /\ Len(data) = n
      /\ \A i \in 1..n : data[i] = memory[first + i - 1]
  <2>1. \A i \in 1..n : memory[first + i - 1] \in Values(memory)
    <3> SUFFICES ASSUME NEW i \in 1..n
                 PROVE  first + i - 1 \in DOMAIN memory
      BY DEF Values
    <3> QED
      BY <1>1, <1>3
  <2>2. \A i \in 1..n : data[i] = memory[first + i - 1]
    BY <1>4
  <2>3. data \in [1..n -> Values(memory)]
    BY <1>4, <2>1
  <2>4. data \in Seq(Values(memory)) /\ Len(data) = n
    BY <1>1, <2>3
  <2> QED
    BY <2>2, <2>4
<1>6. Hold(ReadBinary(data, first),
           [a \in first .. (first + Len(data) - 1) |-> data[a - first + 1]], Values(memory))
  BY <1>1, <1>5, ReadBinaryHolds
<1>7. [a \in first .. (first + Len(data) - 1) |-> data[a - first + 1]] = memory
  <2> DEFINE read == [a \in first .. (first + Len(data) - 1) |-> data[a - first + 1]]
  <2>1. DOMAIN read = DOMAIN memory /\ read = [a \in DOMAIN read |-> read[a]]
    BY <1>3, <1>5
  <2>2. ASSUME NEW a \in DOMAIN memory
        PROVE  read[a] = memory[a]
    <3>1. /\ a - first + 1 \in 1..n /\ first + (a - first + 1) - 1 = a
      BY <1>1, <1>3
    <3>2. read[a] = data[a - first + 1]
      BY <2>1
    <3> QED
      BY <1>5, <3>1, <3>2
  <2> HIDE DEF read
  <2>3. read = memory
    BY <1>2, <2>1, <2>2
  <2> QED
    BY <2>3 DEF read
<1>8. Hold(ReadBinary(data, first), memory, Values(memory))
  BY <1>6, <1>7
<1> QED
  BY <1>2, <1>8 DEF memory, data, first

(* The application and the bootloader above it.                            *)
LEMMA PairHolds ==
    ASSUME NEW records, NEW memory, NEW boot \in Builds, Hold(records, memory, Values(memory)),
           \A a \in DOMAIN memory : a \in BASE_APP_ADDR .. (BASE_BOOTLOADER_ADDR - 1)
    PROVE  Exact(Merge(ReadIHex(SoftDevice) \o records \o ReadIHex(BootloaderHex(boot)),
                       patches_7_3_0),
                 Over(PatchedSoftDevice, Over(memory, BootloaderMemory(boot))))
<1> DEFINE sd == ReadIHex(SoftDevice)
           loader == ReadIHex(BootloaderHex(boot))
           other == BootloaderMemory(boot)
           Byte == Values(memory) \cup Values(other)
<1>1. /\ Hold(loader, other, Values(other))
      /\ \A a \in DOMAIN other : a \in Nat /\ a >= BASE_BOOTLOADER_ADDR
  BY BootloaderHolds
<1>2. Hold(sd, Contents(SoftDevice), VendorByte)
  BY SoftDeviceAssumption, ReadPlain
<1> HIDE DEF sd, loader, other
<1>3. Hold(records, memory, Byte) /\ Hold(loader, other, Byte)
  BY <1>1, HoldOfMore
<1>4. DOMAIN memory \cap DOMAIN other = {}
  BY <1>1, Layout
<1> HIDE DEF Byte
<1>5. Hold(records \o loader, Over(memory, other), Byte)
  BY <1>3, <1>4, HoldBoth
<1>6. \A a \in DOMAIN Over(memory, other) : a \in Nat /\ a >= BASE_APP_ADDR
  <2>1. \A a \in DOMAIN memory : a \in Nat /\ a >= BASE_APP_ADDR
    BY Layout
  <2>2. \A a \in DOMAIN other : a \in Nat /\ a >= BASE_APP_ADDR
    BY <1>1, Layout
  <2> QED
    BY <2>1, <2>2 DEF Over
<1>7. Exact(Merge(sd \o (records \o loader), patches_7_3_0),
            Over(PatchedSoftDevice, Over(memory, other)))
  BY <1>5, <1>6, WithSoftDevice DEF sd
<1>8. sd \o (records \o loader) = sd \o records \o loader
  <2> DEFINE R == AddrRecords(VendorByte) \cup AddrRecords(Byte)
  <2>1. sd \in Seq(AddrRecords(VendorByte)) /\ records \in Seq(AddrRecords(Byte))
        /\ loader \in Seq(AddrRecords(Byte))
    BY <1>2, <1>3 DEF Hold
  <2>2. sd \in Seq(R) /\ records \in Seq(R) /\ loader \in Seq(R)
    BY <2>1
  <2> QED
    BY <2>2, ConcatAssociative
<1> QED
  BY <1>7, <1>8 DEF sd, loader, other

(* merge_files is exact, whatever is built of whatever versions: an image  *)
(* that was written to its end is, to a programmer, the SoftDevice with    *)
(* its patches and the parts above it, each where it belongs.              *)
THEOREM MergesExact == MergesExactlyOf(Builds)
<1>1. Exact(SoftDeviceImage, PatchedSoftDevice)
  <2>1. Hold(<<>>, EmptyMemory, VendorByte)
    BY HoldNone
  <2>2. Exact(Merge(ReadIHex(SoftDevice) \o <<>>, patches_7_3_0),
              Over(PatchedSoftDevice, EmptyMemory))
    BY <2>1, WithSoftDevice DEF EmptyMemory
  <2>3. Over(PatchedSoftDevice, EmptyMemory) = PatchedSoftDevice
    BY DEF Over, EmptyMemory, PatchedSoftDevice, Patched
  <2>4. ReadIHex(SoftDevice) \in Seq(AddrRecords(VendorByte))
    BY SoftDeviceAssumption, ReadPlain DEF Hold
  <2>5. ReadIHex(SoftDevice) \o <<>> = ReadIHex(SoftDevice)
    BY <2>4, ConcatEmptySeq
  <2> QED
    BY <2>2, <2>3, <2>5 DEF SoftDeviceImage
<1>2. ASSUME NEW boot \in Builds
      PROVE  Exact(MinimalImage(boot), MinimalMemory(boot))
  <2>1. /\ Hold(ReadIHex(BootloaderHex(boot)), BootloaderMemory(boot),
                Values(BootloaderMemory(boot)))
        /\ \A a \in DOMAIN BootloaderMemory(boot) : a \in Nat /\ a >= BASE_APP_ADDR
    BY BootloaderHolds, Layout
  <2> QED
    BY <2>1, WithSoftDevice DEF MinimalImage, MinimalMemory
<1>3. ASSUME NEW boot \in Builds, NEW app \in Builds
      PROVE  Exact(DebugImage(app, boot), DebugMemory(app, boot))
  <2>1. \A a \in DOMAIN AppMemory(app) : a \in BASE_APP_ADDR .. (BASE_BOOTLOADER_ADDR - 1)
    BY AppBytes, LayoutAssumption, Layout
  <2>2. Hold(ReadIHex(AppHex(app)), AppMemory(app), Values(AppMemory(app)))
    BY AppHolds
  <2> QED
    BY <2>1, <2>2, PairHolds DEF DebugImage, DebugMemory
<1>4. ASSUME NEW boot \in Builds, NEW app \in SignedApps
      PROVE  Exact(FullImage(app, boot), FullMemory(app, boot))
  BY SignedHolds, PairHolds DEF FullImage, FullMemory
<1> QED
  BY <1>1, <1>2, <1>3, <1>4 DEF MergesExactlyOf, SignedApps

-----------------------------------------------------------------------------
(* The types of the tool and the names of its files.                       *)
THEOREM TypeCorrect == Spec => []TypeOK
<1>1. IInv => TypeOK
  BY DEF IInv
<1> QED
  BY <1>1, Invariance, PTL

(* What a folder holds is of one build, of one state of the sources,       *)
(* whatever commands were run before, failed or were killed.               *)
THEOREM FoldersCorrect == Spec => []OneBuild
<1>1. IInv => OneBuild
  BY DEF IInv
<1> QED
  BY <1>1, Invariance, PTL

(* A whole image is what it was merged to be.                              *)
LEMMA WholeImages ==
    ASSUME OneBuild
    PROVE  /\ Whole(files, "BTApp_Full_Image.hex") =>
                \E boot \in Builds : \E app \in Signed(boot) :
                    Image("BTApp_Full_Image.hex") = FullMemory(app, boot)
           /\ Whole(files, "BT_Minimal_Image.hex") =>
                \E boot \in Builds : Image("BT_Minimal_Image.hex") = MinimalMemory(boot)
           /\ Whole(files, "BTApp_Full_Image_debug.hex") =>
                \E boot \in Builds :
                    Image("BTApp_Full_Image_debug.hex") = DebugMemory(boot, boot)
           /\ Whole(files, "softdevice_patched.hex") =>
                Image("softdevice_patched.hex") = PatchedSoftDevice
<1>1. \A boot \in Builds : Signed(boot) \subseteq SignedApps
  BY DEF Signed, SignedApps
<1>2. ASSUME Whole(files, "BTApp_Full_Image.hex")
      PROVE  \E boot \in Builds : \E app \in Signed(boot) :
                Image("BTApp_Full_Image.hex") = FullMemory(app, boot)
  <2>1. PICK boot \in Builds : OfBuild(PackageFiles, boot)
    BY DEF OneBuild
  <2>2. PICK app \in Signed(boot) :
            files["BTApp_Full_Image.hex"] \in Written(FullImage(app, boot))
    BY <1>2, <2>1 DEF Whole, OfBuild, Fits, PackageFiles
  <2>3. Exact(FullImage(app, boot), FullMemory(app, boot))
    BY <1>1, MergesExact DEF MergesExactlyOf, SignedApps
  <2> QED
    BY <1>2, <2>2, <2>3 DEF Exact, Written, Whole, Image
<1>3. ASSUME Whole(files, "BT_Minimal_Image.hex")
      PROVE  \E boot \in Builds : Image("BT_Minimal_Image.hex") = MinimalMemory(boot)
  <2>1. PICK boot \in Builds : OfBuild(PackageFiles, boot)
    BY DEF OneBuild
  <2>2. files["BT_Minimal_Image.hex"] \in Written(MinimalImage(boot))
    BY <1>3, <2>1 DEF Whole, OfBuild, Fits, PackageFiles
  <2>3. Exact(MinimalImage(boot), MinimalMemory(boot))
    BY MergesExact DEF MergesExactlyOf, SignedApps
  <2> QED
    BY <1>3, <2>2, <2>3 DEF Exact, Written, Whole, Image
<1>4. ASSUME Whole(files, "BTApp_Full_Image_debug.hex")
      PROVE  \E boot \in Builds :
                Image("BTApp_Full_Image_debug.hex") = DebugMemory(boot, boot)
  <2>1. PICK boot \in Builds : OfBuild(DebugFiles, boot)
    BY DEF OneBuild
  <2>2. files["BTApp_Full_Image_debug.hex"] \in Written(DebugImage(boot, boot))
    BY <1>4, <2>1 DEF Whole, OfBuild, Fits, DebugFiles
  <2>3. Exact(DebugImage(boot, boot), DebugMemory(boot, boot))
    BY MergesExact DEF MergesExactlyOf, SignedApps
  <2> QED
    BY <1>4, <2>2, <2>3 DEF Exact, Written, Whole, Image
<1>5. ASSUME Whole(files, "softdevice_patched.hex")
      PROVE  Image("softdevice_patched.hex") = PatchedSoftDevice
  <2>1. files["softdevice_patched.hex"] \in Written(SoftDeviceImage)
    BY <1>5 DEF Whole, OneBuild
  <2>2. Exact(SoftDeviceImage, PatchedSoftDevice)
    BY MergesExact DEF MergesExactlyOf, SignedApps
  <2> QED
    BY <1>5, <2>1, <2>2 DEF Exact, Written, Whole, Image
<1> QED
  BY <1>2, <1>3, <1>4, <1>5

(* Whatever any two versions of the sources have given, merge_files makes  *)
(* of it these parts where they belong.                                    *)
THEOREM MergesCorrect == Spec => []MergesAreExact
<1>1. MergesAreExact
  <2> DEFINE some == {build \in Builds : build.source <= version}
  <2>1. some \subseteq Builds
    OBVIOUS
  <2>2. [build : some, signers : Signatures] \subseteq [build : Builds, signers : Signatures]
    OBVIOUS
  <2> HIDE DEF some
  <2>3. MergesExactlyOf(some)
    BY <2>1, <2>2, MergesExact DEF MergesExactlyOf
  <2> QED
    BY <2>3 DEF MergesAreExact, some
<1> QED
  BY <1>1, PTL

(* A whole image puts every part where the linker scripts and the          *)
(* bootloader expect it, and nothing else, after any commands.             *)
THEOREM ImagesCorrect == Spec => []ImagesAreExact
<1>1. ASSUME OneBuild
      PROVE  ImagesAreExact
  <2>1. ASSUME NEW memory, NEW boot \in Builds, NEW app \in Signed(boot),
               memory = FullMemory(app, boot)
        PROVE  \E b \in BuildsIn(memory, "bootloader"), a \in AppsIn(memory) :
                    memory = FullMemory(a, b)
    <3>1. app \in SignedApps
      BY DEF Signed, SignedApps
    <3> QED
      BY <2>1, <3>1, FullParts
  <2>2. ASSUME NEW memory, NEW boot \in Builds, memory = MinimalMemory(boot)
        PROVE  \E b \in BuildsIn(memory, "bootloader") : memory = MinimalMemory(b)
    BY <2>2, MinimalParts
  <2>3. ASSUME NEW memory, NEW boot \in Builds, memory = DebugMemory(boot, boot)
        PROVE  \E b \in BuildsIn(memory, "bootloader"), a \in BuildsIn(memory, "app") :
                    memory = DebugMemory(a, b)
    BY <2>3, DebugParts
  <2> QED
    BY <1>1, <2>1, <2>2, <2>3, WholeImages DEF ImagesAreExact
<1> QED
  BY <1>1, FoldersCorrect, PTL

(* The bootloader and the application of every whole image come from one   *)
(* state of the sources.                                                   *)
THEOREM OneBuildCorrect == Spec => []ImageIsOneBuild
<1>1. ASSUME OneBuild
      PROVE  ImageIsOneBuild
  <2>1. ASSUME NEW boot \in Builds, NEW app \in Signed(boot)
        PROVE  /\ BuildsIn(FullMemory(app, boot), "bootloader") = {boot}
               /\ BuildsIn(FullMemory(app, boot), "app") \subseteq {boot}
    <3>1. app \in SignedApps /\ app.build = boot
      BY DEF Signed, SignedApps
    <3> QED
      BY <3>1, FullParts
  <2>2. Whole(files, "BTApp_Full_Image.hex") =>
            \E boot \in Builds :
                /\ BuildsIn(Image("BTApp_Full_Image.hex"), "bootloader") = {boot}
                /\ BuildsIn(Image("BTApp_Full_Image.hex"), "app") \subseteq {boot}
    BY <1>1, <2>1, WholeImages
  <2>3. Whole(files, "BTApp_Full_Image_debug.hex") =>
            \E boot \in Builds :
                /\ BuildsIn(Image("BTApp_Full_Image_debug.hex"), "bootloader") = {boot}
                /\ BuildsIn(Image("BTApp_Full_Image_debug.hex"), "app") = {boot}
    BY <1>1, WholeImages, DebugParts
  <2> QED
    BY <2>2, <2>3 DEF ImageIsOneBuild
<1> QED
  BY <1>1, FoldersCorrect, PTL

(* An image that can be packaged has one developer's signature or two of   *)
(* keys, whatever passes of signing went before and from wherever they     *)
(* were started.                                                           *)
THEOREM SignedCorrect == Spec => []PackagedIsSigned
<1>1. ASSUME OneBuild
      PROVE  PackagedIsSigned
  <2> SUFFICES ASSUME Whole(files, "BTApp_Full_Image.hex"),
                      NEW app \in AppsIn(Image("BTApp_Full_Image.hex"))
               PROVE  \/ app.signers = <<"developer">>
                      \/ app.signers \in Seq(Keys) /\ Len(app.signers) = 2
    BY DEF PackagedIsSigned
  <2>0. PICK boot \in Builds : \E packaged \in Signed(boot) :
            Image("BTApp_Full_Image.hex") = FullMemory(packaged, boot)
    BY <1>1, WholeImages
  <2>1. PICK packaged \in Signed(boot) :
            Image("BTApp_Full_Image.hex") = FullMemory(packaged, boot)
    BY <2>0
  <2>2. packaged \in SignedApps
    BY DEF Signed, SignedApps
  <2>3. app = packaged
    BY <2>1, <2>2, FullParts
  <2>4. app.signers \in Signatures
    BY <2>2, <2>3 DEF SignedApps
  <2>5. ASSUME NEW j \in Keys, NEW k \in Keys
        PROVE  <<j, k>> \in Seq(Keys) /\ Len(<<j, k>>) = 2
    OBVIOUS
  <2>6. \/ app.signers = <<"developer">>
        \/ \E j \in Keys, k \in Keys : app.signers = <<j, k>>
    BY <2>4 DEF Signatures
  <2> QED
    BY <2>5, <2>6
<1> QED
  BY <1>1, FoldersCorrect, PTL

(* The step that ends a command with success leaves its image alone.       *)
LEMMA EndsWell ==
    ASSUME TypeOK, TodoIsRest, [Next]_vars, exit = "running", exit' = "ok"
    PROVE  /\ version' = version
           /\ cmd \in {"BuildFwImage", "PackageFirmware", "BuildMinimalImage"} =>
                /\ Step("tidy") /\ Delete({"bootloader.hex"})
                /\ Len(todo) = 1
           /\ cmd = "BuildFwDebugImage" =>
                /\ Step("tidyDebug") /\ Delete({"bootloaderDebug.hex", "BtappDebug.hex"})
                /\ Len(todo) = 1
           /\ cmd = "PatchSd" => Write("softdevice_patched.hex", SoftDeviceImage)
<1>1. CASE Step("toolchain") /\ End("ok")
  BY <1>1, AtStep DEF End
<1>2. ASSUME NEW step, Passed(step), Len(todo) = 1
      PROVE  /\ version' = version
             /\ cmd \in {"BuildFwImage", "PackageFirmware", "BuildMinimalImage"} => step = "tidy"
             /\ cmd = "BuildFwDebugImage" => step = "tidyDebug"
             /\ cmd = "PatchSd" => step = "patchSd"
  BY <1>2, AtStep, AfterStep DEF Passed
<1>3. ASSUME NEW step, Passed(step)
      PROVE  Len(todo) = 1
  BY <1>3 DEF Passed, Proceed
<1>4. \/ Step("toolchain") /\ End("ok")
      \/ \E step : Passed(step)
  BY CommandStep DEF End, Start, vars, TodoIsRest
<1>5. Step("tidy") => Delete({"bootloader.hex"})
  BY DEF Step, Next, vars, Edit, Start, Fail, End, CheckToolchainPath, BuildToolsCheck,
         BuildToolsCheckDebug, RemoveFails, BuildBtBootloader, BuildBtFirmware,
         BuildBtBootloaderDebug, BuildBtDebugFirmware, SignBtFirmware, BuildBtPackage,
         BuildBtMinimalPackage, BuildBtPackageDebug, PatchSd, RemoveTemporaries
<1>6. Step("tidyDebug") => Delete({"bootloaderDebug.hex", "BtappDebug.hex"})
  BY DEF Step, Next, vars, Edit, Start, Fail, End, CheckToolchainPath, BuildToolsCheck,
         BuildToolsCheckDebug, RemoveFails, BuildBtBootloader, BuildBtFirmware,
         BuildBtBootloaderDebug, BuildBtDebugFirmware, SignBtFirmware, BuildBtPackage,
         BuildBtMinimalPackage, BuildBtPackageDebug, PatchSd, RemoveTemporaries
<1>7. Step("patchSd") => Write("softdevice_patched.hex", SoftDeviceImage)
  BY DEF Step, Next, vars, Edit, Start, Fail, End, CheckToolchainPath, BuildToolsCheck,
         BuildToolsCheckDebug, RemoveFails, BuildBtBootloader, BuildBtFirmware,
         BuildBtBootloaderDebug, BuildBtDebugFirmware, SignBtFirmware, BuildBtPackage,
         BuildBtMinimalPackage, BuildBtPackageDebug, PatchSd, RemoveTemporaries, WriteImage
<1> QED
  BY <1>1, <1>2, <1>3, <1>4, <1>5, <1>6, <1>7, AtStep DEF Passed

LEMMA ImagesOfSuccess ==
    ASSUME IInv, [Next]_vars, exit = "running", exit' = "ok"
    PROVE  /\ cmd \in {"BuildFwImage", "PackageFirmware"} => Whole(files', "BTApp_Full_Image.hex")
           /\ cmd = "BuildMinimalImage" => Whole(files', "BT_Minimal_Image.hex")
           /\ cmd = "BuildFwDebugImage" => Whole(files', "BTApp_Full_Image_debug.hex")
           /\ cmd = "PatchSd" => Whole(files', "softdevice_patched.hex")
           /\ cmd = "BuildFwImage" =>
                BuildsIn(Contents(files'["BTApp_Full_Image.hex"]), "bootloader") = {Build({})}
           /\ cmd = "BuildMinimalImage" =>
                BuildsIn(Contents(files'["BT_Minimal_Image.hex"]), "bootloader") = {Build({})}
           /\ cmd = "BuildFwDebugImage" =>
                BuildsIn(Contents(files'["BTApp_Full_Image_debug.hex"]), "bootloader")
                    = {Build({})}
<1> DEFINE full    == "BTApp_Full_Image.hex"
           minimal == "BT_Minimal_Image.hex"
           debug   == "BTApp_Full_Image_debug.hex"
<1>1. TypeOK /\ TodoIsRest /\ OneBuild /\ Cleaned /\ Packaged
  BY DEF IInv
<1>2. PICK build \in Builds : build = Build({})
  BY <1>1, CurrentBuild
<1>3. \A b \in Builds : \A app \in SignedApps : Exact(FullImage(app, b), FullMemory(app, b))
  BY MergesExact DEF MergesExactlyOf, SignedApps
<1>4. \A b \in Builds : Exact(MinimalImage(b), MinimalMemory(b))
  BY MergesExact DEF MergesExactlyOf, SignedApps
<1>5. \A b \in Builds, a \in Builds : Exact(DebugImage(a, b), DebugMemory(a, b))
  BY MergesExact DEF MergesExactlyOf, SignedApps
<1>6. Exact(SoftDeviceImage, PatchedSoftDevice)
  BY MergesExact DEF MergesExactlyOf, SignedApps
<1>7. ASSUME NEW step, Step(step), Len(todo) = 1
      PROVE  \A name : IsLeft(name) <=> name = step
  BY <1>1, <1>7 DEF Step, IsLeft
<1>8. ASSUME cmd \in {"BuildFwImage", "PackageFirmware"}
      PROVE  /\ Whole(files', full)
             /\ cmd = "BuildFwImage" =>
                    BuildsIn(Contents(files'[full]), "bootloader") = {build}
  <2>1. Step("tidy") /\ Delete({"bootloader.hex"}) /\ Len(todo) = 1
    BY <1>1, <1>8, EndsWell
  <2>2. ~IsLeft("package") /\ ~IsLeft("clean")
    BY <1>7, <2>1
  <2>3. full \in DOMAIN files
        /\ \E b \in Builds, app \in SignedApps : files[full] = FullImage(app, b)
    BY <1>1, <1>8, <2>2 DEF Packaged
  <2>4. full \in DOMAIN files' /\ files'[full] = files[full]
    BY <2>1, <2>3 DEF Delete, Restrict
  <2>5. IsWhole(files[full])
    BY <1>3, <2>3 DEF Exact
  <2>6. ASSUME cmd = "BuildFwImage"
        PROVE  BuildsIn(Contents(files[full]), "bootloader") = {build}
    <3>1. OfBuild(PackageFiles, build)
      BY <1>1, <1>2, <2>2, <2>6 DEF Cleaned, Cleans
    <3>2. PICK app \in Signed(build) : files[full] \in Written(FullImage(app, build))
      BY <2>3, <3>1 DEF OfBuild, Fits, PackageFiles
    <3>3. app \in SignedApps
      BY DEF Signed, SignedApps
    <3>4. Exact(FullImage(app, build), FullMemory(app, build))
      BY <1>3, <3>3
    <3>5. Contents(files[full]) = FullMemory(app, build)
      BY <2>5, <3>2, <3>4 DEF Exact, Written
    <3> QED
      BY <3>3, <3>5, FullParts
  <2> QED
    BY <2>4, <2>5, <2>6 DEF Whole
<1>9. ASSUME cmd = "BuildMinimalImage"
      PROVE  /\ Whole(files', minimal)
             /\ BuildsIn(Contents(files'[minimal]), "bootloader") = {build}
  <2>1. Step("tidy") /\ Delete({"bootloader.hex"}) /\ Len(todo) = 1
    BY <1>1, <1>9, EndsWell
  <2>2. ~IsLeft("minimal") /\ ~IsLeft("clean")
    BY <1>7, <2>1
  <2>3. minimal \in DOMAIN files /\ \E b \in Builds : files[minimal] = MinimalImage(b)
    BY <1>1, <1>9, <2>2 DEF Packaged
  <2>4. minimal \in DOMAIN files' /\ files'[minimal] = files[minimal]
    BY <2>1, <2>3 DEF Delete, Restrict
  <2>5. IsWhole(files[minimal])
    BY <1>4, <2>3 DEF Exact
  <2>6. OfBuild(PackageFiles, build)
    BY <1>1, <1>2, <1>9, <2>2 DEF Cleaned, Cleans
  <2>7. files[minimal] \in Written(MinimalImage(build))
    BY <2>3, <2>6 DEF OfBuild, Fits, PackageFiles
  <2>8. Contents(files[minimal]) = MinimalMemory(build)
    BY <1>4, <2>5, <2>7 DEF Exact, Written
  <2> QED
    BY <2>4, <2>5, <2>8, MinimalParts DEF Whole
<1>10. ASSUME cmd = "BuildFwDebugImage"
       PROVE  /\ Whole(files', debug)
              /\ BuildsIn(Contents(files'[debug]), "bootloader") = {build}
  <2>1. Step("tidyDebug") /\ Delete({"bootloaderDebug.hex", "BtappDebug.hex"}) /\ Len(todo) = 1
    BY <1>1, <1>10, EndsWell
  <2>2. ~IsLeft("packageDebug") /\ ~IsLeft("cleanDebug")
    BY <1>7, <2>1
  <2>3. debug \in DOMAIN files
        /\ \E b \in Builds, a \in Builds : files[debug] = DebugImage(a, b)
    BY <1>1, <1>10, <2>2 DEF Packaged
  <2>4. debug \in DOMAIN files' /\ files'[debug] = files[debug]
    BY <2>1, <2>3 DEF Delete, Restrict
  <2>5. IsWhole(files[debug])
    BY <1>5, <2>3 DEF Exact
  <2>6. OfBuild(DebugFiles, build)
    BY <1>1, <1>2, <1>10, <2>2 DEF Cleaned
  <2>7. files[debug] \in Written(DebugImage(build, build))
    BY <2>3, <2>6 DEF OfBuild, Fits, DebugFiles
  <2>8. Contents(files[debug]) = DebugMemory(build, build)
    BY <1>5, <2>5, <2>7 DEF Exact, Written
  <2> QED
    BY <2>4, <2>5, <2>8, DebugParts DEF Whole
<1>11. ASSUME cmd = "PatchSd"
       PROVE  Whole(files', "softdevice_patched.hex")
  <2>1. Write("softdevice_patched.hex", SoftDeviceImage)
    BY <1>1, <1>11, EndsWell
  <2> QED
    BY <1>6, <2>1 DEF Write, Whole, Exact
<1> QED
  BY <1>2, <1>8, <1>9, <1>10, <1>11

(* Success means that the image is there: a command that exits with it     *)
(* leaves its image whole, and one that builds leaves it made of the       *)
(* sources it found.                                                       *)
THEOREM SuccessCorrect == Spec => SuccessLeavesImage
<1>1. ASSUME IInv, [Next]_vars, exit = "running" /\ exit' = "ok"
      PROVE  /\ cmd \in {"BuildFwImage", "PackageFirmware"} => Whole(files', "BTApp_Full_Image.hex")
             /\ cmd = "BuildMinimalImage" => Whole(files', "BT_Minimal_Image.hex")
             /\ cmd = "BuildFwDebugImage" => Whole(files', "BTApp_Full_Image_debug.hex")
             /\ cmd = "PatchSd" => Whole(files', "softdevice_patched.hex")
             /\ \A name \in Images \cap DOMAIN files' :
                    (\/ cmd = "BuildFwImage" /\ name = "BTApp_Full_Image.hex"
                     \/ cmd = "BuildMinimalImage" /\ name = "BT_Minimal_Image.hex"
                     \/ cmd = "BuildFwDebugImage" /\ name = "BTApp_Full_Image_debug.hex")
                    => BuildsIn(Contents(files'[name]), "bootloader") = {Build({})}
  BY <1>1, ImagesOfSuccess
<1> QED
  BY <1>1, Invariance, PTL DEF Spec, SuccessLeavesImage

=============================================================================
