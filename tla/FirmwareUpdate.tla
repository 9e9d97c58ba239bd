---------------------------- MODULE FirmwareUpdate ----------------------------
(***************************************************************************)
(* The update of the application as a host drives it                       *)
(* (host-protocol/examples/host_control.rs, the commands EraseApp and      *)
(* UpdateApp) over the bootloader of FirmwareFlash.  The tool sends one    *)
(* request, waits for its answer no longer than a timeout, and goes on,    *)
(* or ends.  Requests and answers get lost: the bootloader skips a         *)
(* transfer that fails, and does not look whether its own answer was read. *)
(* Nothing on the line checks a request either, so that a garbled one may  *)
(* decode, as a block with other data or as another request.               *)
(*                                                                         *)
(* The tool writes COBS packets to a serial port, the bootloader reads     *)
(* them bare from SPI and puts a length before its answers; what bridges   *)
(* the two is not in the repository, and the line stands for it.           *)
(*                                                                         *)
(* While the tool does not run, the bootloader has the requests of         *)
(* FirmwareFlash from elsewhere, so that an update finds the area in any   *)
(* state those can leave.  A person starts the tool again only after the   *)
(* line has gone quiet, and opening the port discards what is in it.       *)
(***************************************************************************)
EXTENDS FirmwareFlash

CONSTANTS
    CHUNK_SIZE      \* words of a block

ASSUME ChunkAssumption == CHUNK_SIZE \in Nat \ {0}

VARIABLES
    tool,        \* what the tool waits for
    cmd,         \* the command it was started with
    file,        \* the words of BT_application_signed.bin
    chunkIdx,    \* app_chunk.0, the block that is to be answered
    toDevice,    \* requests on the line
    serving,     \* the request the bootloader is at
    toHost,      \* answers on the line
    confirmed    \* history: every block so far had its matching answer

hostVars == <<tool, cmd, file, chunkIdx, confirmed>>
lineVars == <<toDevice, serving, toHost>>
updateVars == <<vars, hostVars, lineVars>>

Files == {image.words : image \in Images}

(* update_file.chunks(CHUNK_SIZE); the first n of them are Sent words.     *)
NumChunks(words) == (Len(words) + CHUNK_SIZE - 1) \div CHUNK_SIZE

Sent(words, n) ==
    IF n * CHUNK_SIZE < Len(words) THEN n * CHUNK_SIZE ELSE Len(words)

Chunk(words, i) == SubSeq(words, Sent(words, i) + 1, Sent(words, i + 1))

(* The tool's blocks are among those a host may send.                      *)
ASSUME BlocksAssumption ==
    \A words \in Files : \A i \in 0..(NumChunks(words) - 1) :
        Chunk(words, i) \in Blocks

EraseRequest == [op |-> "EraseFirmware"]
BlockRequest(i) == [op    |-> "WriteFirmwareBlock",
                    idx   |-> i,
                    data  |-> Chunk(file, i),
                    whole |-> TRUE]
Garbled == [op |-> "garbled"]
Nothing == [op |-> "nothing"]

(* What a garbled request may decode as: any block, any other request.     *)
(* (The tool compares indices for equality only.  Garbled stands for what  *)
(* does not decode or changes nothing; a Reset is LoseRequest and Reset.)  *)
Forgeries ==
    {EraseRequest, Garbled}
        \cup [op : {"WriteFirmwareBlock"}, idx : {chunkIdx, chunkIdx + 1},
              data : Blocks, whole : BOOLEAN]
        \cup [op : {"BootFirmware"}, trust : {"Full", "Developer"}]

(* The answer to a request: index and checksum are those of the request.   *)
Answer(type, request) ==
    IF type = "AckWithIdxCrc"
    THEN [type |-> type, idx |-> request.idx, crc |-> request.data]
    ELSE [type |-> type]

-----------------------------------------------------------------------------
UpdateInit ==
    /\ Init
    /\ tool = "away"
    /\ cmd = "none"
    /\ file = <<>>
    /\ chunkIdx = 0
    /\ confirmed = FALSE
    /\ toDevice = <<>>
    /\ serving = Nothing
    /\ toHost = <<>>

Quiet == toDevice = <<>> /\ serving = Nothing

-----------------------------------------------------------------------------
(* The tool.  Its variables end with it, and the port is closed.           *)

ToolEnds ==
    /\ tool' = "away"
    /\ cmd' = "none"
    /\ file' = <<>>
    /\ chunkIdx' = 0
    /\ confirmed' = FALSE
    /\ toHost' = <<>>

Start(command, words) ==
    /\ tool = "away" /\ Quiet /\ pc \in {"idle", "app"}
    /\ tool' = "erasing"
    /\ cmd' = command
    /\ file' = words
    /\ chunkIdx' = 0
    /\ confirmed' = TRUE
    /\ toDevice' = <<EraseRequest>>
    /\ toHost' = <<>>
    /\ UNCHANGED <<vars, serving>>

SendBlock(i) ==
    /\ tool' = "writing"
    /\ chunkIdx' = i
    /\ toDevice' = Append(toDevice, BlockRequest(i))

(* Mutant: one block too many.                                             *)
NextBlockBeyond ==
    \/ /\ chunkIdx < NumChunks(file)
       /\ SendBlock(chunkIdx + 1)
    \/ /\ chunkIdx >= NumChunks(file)
       /\ tool' = "complete"
       /\ UNCHANGED <<chunkIdx, toDevice>>

NextBlock ==
    \/ /\ chunkIdx + 1 < NumChunks(file)
       /\ SendBlock(chunkIdx + 1)
    \/ /\ chunkIdx + 1 >= NumChunks(file)
       /\ tool' = "complete"
       /\ UNCHANGED <<chunkIdx, toDevice>>

(* The answer to EraseFirmware; any other than AckEraseFirmware is printed *)
(* and the tool ends.                                                      *)
EraseAnswered ==
    /\ tool = "erasing" /\ toHost # <<>>
    /\ \/ /\ Head(toHost).type = "AckEraseFirmware" /\ cmd = "UpdateApp"
          /\ SendBlock(0)
          /\ toHost' = Tail(toHost)
          /\ UNCHANGED <<cmd, file, confirmed>>
       \/ /\ Head(toHost).type # "AckEraseFirmware" \/ cmd = "EraseApp"
          /\ ToolEnds
          /\ UNCHANGED toDevice
    /\ UNCHANGED <<vars, serving>>

(* Mutant: the checksum of the answer is not compared.                     *)
MatchesIndex(answer) == answer.idx = chunkIdx

Matches(answer) ==
    answer.idx = chunkIdx /\ answer.crc = Chunk(file, chunkIdx)

(* The answer to a block: only one that is negative, or does not match,    *)
(* stops the tool; FirmwareOutOfBounds, PostcardError and the rest do not. *)
BlockAnswered ==
    /\ tool = "writing" /\ toHost # <<>>
    /\ LET answer == Head(toHost)
           acknowledged == answer.type = "AckWithIdxCrc" /\ Matches(answer)
           refused == \/ answer.type = "AckWithIdxCrc" /\ ~Matches(answer)
                      \/ answer.type = "NackWithIdx"
       IN  \/ /\ refused
              /\ ToolEnds
              /\ UNCHANGED toDevice
           \/ /\ ~refused
              /\ NextBlock
              /\ toHost' = Tail(toHost)
              /\ confirmed' = (confirmed /\ acknowledged)
              /\ UNCHANGED <<cmd, file>>
    /\ UNCHANGED <<vars, serving>>

(* An error of the port in the middle of the blocks is passed over.        *)
ReadError ==
    /\ tool = "writing"
    /\ NextBlock
    /\ confirmed' = FALSE
    /\ UNCHANGED <<vars, cmd, file, serving, toHost>>

(* Mutants: a block that is not answered in time is sent again; the answer *)
(* to a block is awaited without a timeout.                                *)
TimeoutResends ==
    /\ \/ /\ tool = "erasing"
          /\ ToolEnds
          /\ UNCHANGED toDevice
       \/ /\ tool = "writing" /\ Quiet /\ toHost = <<>>
          /\ SendBlock(chunkIdx)
          /\ UNCHANGED <<cmd, file, confirmed, toHost>>
    /\ UNCHANGED <<vars, serving>>

TimeoutOfErase ==
    /\ tool = "erasing"
    /\ ToolEnds
    /\ UNCHANGED <<vars, toDevice, serving>>

(* 5 seconds for the first answer and 100 ms for every other have passed,  *)
(* whether it is still on its way or lost; or the answer does not decode,  *)
(* which the tool unwraps.                                                 *)
Timeout ==
    /\ tool \in {"erasing", "writing"}
    /\ ToolEnds
    /\ UNCHANGED <<vars, toDevice, serving>>

(* The loop has run through all blocks, and the tool exits.                *)
Exit ==
    /\ tool = "complete"
    /\ ToolEnds
    /\ UNCHANGED <<vars, toDevice, serving>>

Tool ==
    \/ \E command \in {"EraseApp", "UpdateApp"}, words \in Files :
            Start(command, words)
    \/ EraseAnswered \/ BlockAnswered \/ ReadError \/ Timeout \/ Exit

-----------------------------------------------------------------------------
(* The bootloader at the requests of the tool.                             *)

(* A port that nobody has open keeps nothing.                              *)
Reply(answer) ==
    toHost' = IF tool = "away" THEN <<>> ELSE Append(toHost, answer)

(* A request is answered once the loop is back at its read, BootFirmware   *)
(* before it jumps.                                                        *)
AnswerWhenDone(request) ==
    IF pc' \in {"idle", "app"}
    THEN /\ serving' = Nothing
         /\ Reply(Answer(resp', request))
    ELSE /\ serving' = request
         /\ UNCHANGED toHost

(* What arrives is what was sent, or what the line has made of it.         *)
Receive ==
    /\ serving = Nothing /\ toDevice # <<>>
    /\ \E request \in {Head(toDevice)} \cup Forgeries :
        /\ \/ request.op = "EraseFirmware" /\ EraseFirmware
           \/ /\ request.op = "WriteFirmwareBlock"
              /\ WriteFirmwareBlock(request.data, request.whole)
           \/ request.op = "BootFirmware" /\ BootFirmware(request.trust)
           \/ request.op = "garbled" /\ Other
        /\ AnswerWhenDone(request)
    /\ toDevice' = Tail(toDevice)
    /\ UNCHANGED hostVars

Serve ==
    /\ serving # Nothing
    /\ \/ ErasePage \/ EraseDone \/ RestoreWord \/ RestoreDone
       \/ ProgramWord \/ ProgramFault \/ ProgramDone
    /\ AnswerWhenDone(serving)
    /\ UNCHANGED <<hostVars, toDevice>>

(* Requests from elsewhere.                                                *)
Elsewhere ==
    /\ tool = "away" /\ Quiet
    /\ \/ Erase
       \/ Write
       \/ \E trust \in {"Full", "Developer"} : BootFirmware(trust)
       \/ Other
    /\ UNCHANGED <<hostVars, lineVars>>

-----------------------------------------------------------------------------
(* The application, once it runs: it finds the requests of the tool        *)
(* inappropriate, or undecodable.                                          *)
ApplicationAnswers ==
    /\ pc = "app" /\ toDevice # <<>>
    /\ toDevice' = Tail(toDevice)
    /\ Reply(Answer("Answer", Head(toDevice)))
    /\ UNCHANGED <<vars, hostVars, serving>>

Application ==
    \/ ApplicationAnswers
    \/ /\ \E addr \in Addresses, word \in SUBSET CellBits :
                ApplicationWrites(addr, word)
       /\ UNCHANGED <<hostVars, lineVars>>

-----------------------------------------------------------------------------
(* The line, and the power.                                                *)

LoseRequest ==
    /\ toDevice # <<>>
    /\ toDevice' = Tail(toDevice)
    /\ UNCHANGED <<vars, hostVars, serving, toHost>>

LoseAnswer ==
    /\ toHost # <<>>
    /\ toHost' = Tail(toHost)
    /\ UNCHANGED <<vars, hostVars, toDevice, serving>>

Fail ==
    /\ Reset \/ PowerFailure
    /\ serving' = Nothing
    /\ UNCHANGED <<hostVars, toDevice, toHost>>

UpdateNext ==
    \/ Tool
    \/ Receive \/ Serve \/ Elsewhere \/ Application
    \/ LoseRequest \/ LoseAnswer
    \/ Fail

(* Timers expire.                                                          *)
UpdateSpec ==
    /\ UpdateInit
    /\ [][UpdateNext]_updateVars
    /\ WF_updateVars(EraseAnswered \/ BlockAnswered \/ Timeout)

-----------------------------------------------------------------------------
(* Every variable of the tool and the line has its type.                   *)
UpdateTypeOK ==
    /\ tool \in {"away", "erasing", "writing", "complete"}
    /\ cmd \in {"none", "EraseApp", "UpdateApp"}
    /\ file \in Files \cup {<<>>}
    /\ chunkIdx \in Nat /\ (tool = "writing" => chunkIdx < NumChunks(file))
    /\ confirmed \in BOOLEAN
    /\ \A i \in 1..Len(toDevice) :
            toDevice[i].op \in {"EraseFirmware", "WriteFirmwareBlock"}
    /\ serving.op \in {"EraseFirmware", "WriteFirmwareBlock", "nothing"}
    /\ \A i \in 1..Len(toHost) :
            toHost[i].type \in {"AckEraseFirmware", "FirmwareOutOfBounds",
                               "NackWithIdx", "AckWithIdxCrc",
                               "NoCosignHeader", "AckVerifyFirmware false",
                               "AckVerifyFirmware true", "Answer"}

(* A matching answer means what the tool takes it for.  Blocks carry an    *)
(* index that the bootloader does not use and no checksum of their own, so *)
(* that one that was garbled is programmed like any other; and still, when *)
(* the answer the tool is about to read has the index and the checksum of  *)
(* its block, the area holds the file up to this block and nothing else,   *)
(* unless the bootloader was started anew in between.                      *)
AreaFollowsTool ==
    tool = "writing" /\ confirmed /\ clean /\ toHost # <<>>
    /\ Head(toHost).type = "AckWithIdxCrc" /\ Matches(Head(toHost))
        => acked = SubSeq(file, 1, Sent(file, chunkIdx + 1))

(* An update of which every block was answered as it should is in the area *)
(* whole, and boots, whatever earlier updates left there and whatever was  *)
(* lost or garbled on the way.  (A debug build acknowledges an image that  *)
(* is longer than the area too; with the protection on, it never           *)
(* completes.)                                                             *)
CompleteUpdateIsStored ==
    tool = "complete" /\ confirmed /\ clean
    /\ (Debug => Len(file) <= BASE_BOOTLOADER_ADDR - BASE_APP_ADDR)
        => IsStored(file)

(* No request or answer that is lost or garbled leaves the tool waiting.   *)
UpdateEnds == (tool \in {"erasing", "writing"}) ~> (tool \in {"away", "complete"})
===============================================================================
