------------------------- MODULE FirmwareUpdateProofs -------------------------
(***************************************************************************)
(* The update as the tool drives it, for every geometry, every set of      *)
(* images and every size of the blocks.  What is proved of the bootloader  *)
(* alone (FirmwareFlashProofs) holds here because every step of the update *)
(* is one of the bootloader's or leaves it alone.  That the area follows   *)
(* the tool needs more: while every answer was the right one, at most one  *)
(* message is under way, and a block that is served or acknowledged, be it *)
(* the tool's or what the line made of it, comes right behind what was     *)
(* acknowledged before.                                                    *)
(***************************************************************************)
EXTENDS FirmwareUpdate, FirmwareFlashProofs

(* What the tool sends, and what may arrive instead.                       *)
ToolRequests ==
    {EraseRequest}
        \cup [op : {"WriteFirmwareBlock"}, idx : Nat, data : Blocks, whole : BOOLEAN]

Requests ==
    ToolRequests \cup {Garbled}
        \cup [op : {"BootFirmware"}, trust : {"Full", "Developer"}]

(* The answers that carry nothing, and the acknowledgement of a block.     *)
Plain == {"FirmwareOutOfBounds", "NackWithIdx", "NoCosignHeader",
          "AckVerifyFirmware false", "AckVerifyFirmware true", "Answer"}

Acknowledgement(request) ==
    [type |-> "AckWithIdxCrc", idx |-> request.idx, crc |-> request.data]

Answers ==
    [type : Plain \cup {"AckEraseFirmware"}]
        \cup [type : {"AckWithIdxCrc"}, idx : Nat, crc : Blocks]

(* Requests carry blocks that a host may send.                             *)
HostTypes ==
    /\ tool \in {"away", "erasing", "writing", "complete"}
    /\ cmd \in {"none", "EraseApp", "UpdateApp"}
    /\ file \in Files \cup {<<>>}
    /\ tool # "away" => file \in Files
    /\ chunkIdx \in Nat
    /\ tool = "writing" => chunkIdx < NumChunks(file)
    /\ confirmed \in BOOLEAN

LineTypes ==
    /\ toDevice \in Seq(ToolRequests)
    /\ serving \in ToolRequests \cup {Nothing}
    /\ toHost \in Seq(Answers)

(* What the bootloader is at is what it was asked for.                     *)
ServesOne ==
    /\ serving.op = "EraseFirmware" => pc \in {"erase", "restore"}
    /\ serving.op = "WriteFirmwareBlock" => pc \in {"program", "fault"}

(* The words acknowledged since the erase end where the bootloader begins. *)
AckedFits == ~Debug /\ clean => Len(acked) <= BASE_BOOTLOADER_ADDR - BASE_APP_ADDR

Prefix(n) == SubSeq(file, 1, Sent(file, n))

Has(words) == clean => acked = words

(* At most one message is under way: a request on the line, one that is    *)
(* served, or an answer.                                                   *)
Alone ==
    \/ /\ \E request \in ToolRequests : toDevice = <<request>>
       /\ serving = Nothing /\ toHost = <<>>
    \/ toDevice = <<>> /\ toHost = <<>>
    \/ /\ toDevice = <<>> /\ serving = Nothing
       /\ \E answer \in Answers : toHost = <<answer>>

HeadIs(type) == toHost # <<>> /\ Head(toHost).type = type

(* Where an update is, while every answer was the right one.               *)
Erasing ==
    tool = "erasing" =>
        /\ Alone
        /\ HeadIs("AckEraseFirmware") => pc = "idle" /\ Has(<<>>)

Block == BlockRequest(chunkIdx)
Before == Prefix(chunkIdx)
After == Prefix(chunkIdx + 1)

Writing ==
    tool = "writing" /\ confirmed =>
        /\ Alone
        /\ toDevice # <<>> => Has(Before)
        /\ serving.op = "WriteFirmwareBlock" /\ pc = "program" /\ clean
              => acked \o todo = Before \o serving.data
        /\ HeadIs("AckWithIdxCrc") => pc = "idle" /\ Has(Before \o Head(toHost).crc)

Complete ==
    tool = "complete" /\ confirmed =>
        /\ toDevice = <<>> /\ serving = Nothing /\ toHost = <<>>
        /\ pc = "idle" /\ Has(file)

UpdateInv ==
    /\ IInv
    /\ HostTypes
    /\ LineTypes
    /\ ServesOne
    /\ AckedFits
    /\ Erasing
    /\ Writing
    /\ Complete

-----------------------------------------------------------------------------
(* The file and its chunks.                                                *)

LEMMA FileFacts ==
    ASSUME NEW words \in Files
    PROVE  words \in Seq(SUBSET CellBits) /\ Len(words) \in Nat \ {0}
<1>1. words \in Seq(SUBSET CellBits) \ {<<>>}
  BY ContentsAssumption DEF Files, ContentsAssumption
<1> QED
  BY <1>1, LenProperties, EmptySeq

(* The chunks follow each other, and with the last of them all is sent.    *)
LEMMA Chunks ==
    ASSUME NEW words, Len(words) \in Nat \ {0}, NEW i \in Nat
    PROVE  /\ NumChunks(words) \in Nat /\ 0 < NumChunks(words)
           /\ Sent(words, 0) = 0
           /\ Sent(words, i) \in 0..Len(words)
           /\ Sent(words, i + 1) \in Sent(words, i)..Len(words)
           /\ i >= NumChunks(words) => Sent(words, i) = Len(words)
<1> DEFINE c == CHUNK_SIZE
           n == Len(words)
           q == (n + c - 1) \div c
<1>1. c \in Nat \ {0} /\ n \in Nat \ {0}
  BY ChunkAssumption DEF ChunkAssumption
<1>2. q \in Nat /\ q * c <= n + c - 1 /\ n + c - 1 < q * c + c
  BY <1>1, PageArithmetic
<1>3. NumChunks(words) = q
  BY DEF NumChunks
<1> HIDE DEF c, n, q
<1>4. q # 0
  BY <1>1, <1>2
<1>5. i * c \in Nat /\ (i + 1) * c = i * c + c
  BY <1>1
<1>6. i >= q => i * c >= n
  <2> SUFFICES ASSUME i >= q
               PROVE  i * c >= n
    OBVIOUS
  <2>1. PICK d \in Nat : i = q + d
    <3>1. i - q \in Nat
      BY <1>2
    <3> QED
      BY <1>2, <3>1
  <2>2. i * c = q * c + d * c /\ d * c >= 0
    BY <1>1, <1>2, <2>1
  <2> QED
    BY <1>1, <1>2, <2>2
<1>7. /\ Sent(words, 0) = 0
      /\ Sent(words, i) = IF i * c < n THEN i * c ELSE n
      /\ Sent(words, i + 1) = IF (i + 1) * c < n THEN (i + 1) * c ELSE n
  BY <1>1 DEF Sent, c, n
<1>8. Sent(words, i) \in 0..n /\ Sent(words, i + 1) \in Sent(words, i)..n
  BY <1>1, <1>5, <1>7
<1> QED
  BY <1>1, <1>2, <1>3, <1>4, <1>6, <1>7, <1>8 DEF n

(* What is sent with the next chunk is what was sent, and the chunk.       *)
LEMMA PrefixGrows ==
    ASSUME NEW words \in Files, NEW i \in Nat
    PROVE  /\ SubSeq(words, 1, Sent(words, 0)) = <<>>
           /\ SubSeq(words, 1, Sent(words, i)) \o Chunk(words, i)
                = SubSeq(words, 1, Sent(words, i + 1))
           /\ i >= NumChunks(words) => SubSeq(words, 1, Sent(words, i)) = words
           /\ SubSeq(words, 1, Sent(words, i)) \in Seq(SUBSET CellBits)
<1>1. words \in Seq(SUBSET CellBits) /\ Len(words) \in Nat \ {0}
  BY FileFacts
<1>2. /\ Sent(words, 0) = 0
      /\ Sent(words, i) \in 0..Len(words)
      /\ Sent(words, i + 1) \in Sent(words, i)..Len(words)
      /\ i >= NumChunks(words) => Sent(words, i) = Len(words)
  BY <1>1, Chunks
<1>3. SubSeq(words, 1, Sent(words, 0)) = <<>>
  BY <1>2, SubSeqEmpty
<1>4. SubSeq(words, 1, Sent(words, i)) \o Chunk(words, i)
        = SubSeq(words, 1, Sent(words, i + 1))
  <2>1. 1 \in 1..(Len(words) + 1) /\ Sent(words, i) \in (1 - 1)..Len(words)
    BY <1>1, <1>2
  <2> QED
    BY <1>1, <1>2, <2>1, ConcatAdjacentSubSeq DEF Chunk
<1>5. i >= NumChunks(words) => SubSeq(words, 1, Sent(words, i)) = words
  BY <1>1, <1>2, SubSeqFull
<1>6. SubSeq(words, 1, Sent(words, i)) \in Seq(SUBSET CellBits)
  <2>1. \A k \in 1..Sent(words, i) : words[k] \in SUBSET CellBits
    BY <1>1, <1>2, ElementOfSeq
  <2> QED
    BY <1>2, <2>1, SubSeqProperties
<1> QED
  BY <1>3, <1>4, <1>5, <1>6

(* A chunk of the file is a block a host may send.                         *)
LEMMA BlockRequestTyped ==
    ASSUME NEW i \in Nat, file \in Files, i < NumChunks(file)
    PROVE  BlockRequest(i) \in ToolRequests
<1>1. NumChunks(file) \in Nat
  BY FileFacts, Chunks
<1>2. i \in 0..(NumChunks(file) - 1)
  BY <1>1
<1>3. Chunk(file, i) \in Blocks
  BY <1>2, BlocksAssumption DEF BlocksAssumption
<1> QED
  BY <1>3 DEF BlockRequest, ToolRequests

(* A line with one message.                                                *)
LEMMA Singles ==
    ASSUME NEW x
    PROVE  /\ <<x>> # <<>> /\ Head(<<x>>) = x /\ Tail(<<x>>) = <<>>
           /\ Append(<<>>, x) = <<x>> /\ <<x>> \o <<>> = <<x>>
OBVIOUS

LEMMA RequestKinds ==
    ASSUME NEW r \in Requests
    PROVE  /\ r.op \in {"EraseFirmware", "WriteFirmwareBlock", "BootFirmware", "garbled"}
           /\ r.op = "EraseFirmware" => r = EraseRequest
           /\ r.op = "WriteFirmwareBlock" =>
                r \in ToolRequests /\ r.data \in Blocks /\ r.whole \in BOOLEAN
           /\ r.op = "BootFirmware" => r.trust \in {"Full", "Developer"}
           /\ r # Nothing
BY DEF Requests, ToolRequests, EraseRequest, Garbled, Nothing

LEMMA ToolRequestKinds ==
    ASSUME NEW r \in ToolRequests
    PROVE  /\ r \in Requests /\ r # Nothing
           /\ r.op \in {"EraseFirmware", "WriteFirmwareBlock"}
           /\ r.op = "EraseFirmware" => r = EraseRequest
           /\ r.op = "WriteFirmwareBlock" => r.idx \in Nat /\ r.data \in Blocks
BY DEF Requests, ToolRequests, EraseRequest, Nothing

(* What may arrive.                                                        *)
LEMMA Arrivals ==
    ASSUME HostTypes, LineTypes, toDevice # <<>>
    PROVE  {Head(toDevice)} \cup Forgeries \subseteq Requests
<1>1. Head(toDevice) \in Requests
  <2>1. Head(toDevice) \in ToolRequests
    BY HeadTailProperties DEF LineTypes
  <2> QED
    BY <2>1, ToolRequestKinds
<1>2. chunkIdx \in Nat /\ chunkIdx + 1 \in Nat
  BY DEF HostTypes
<1>3. Forgeries \subseteq Requests
  BY <1>2 DEF Forgeries, Requests, ToolRequests
<1> QED
  BY <1>1, <1>3

-----------------------------------------------------------------------------
(* Every step of the update is one of the bootloader's, or leaves it as it *)
(* is.                                                                     *)

LEMMA FlashStep ==
    ASSUME HostTypes, LineTypes, [UpdateNext]_updateVars
    PROVE  [Next]_vars
<1>1. CASE Tool
  BY <1>1 DEF Tool, Start, EraseAnswered, BlockAnswered, ReadError, Timeout, Exit
<1>2. CASE Receive
  <2>1. toDevice # <<>>
    BY <1>2 DEF Receive
  <2>2. PICK request \in Requests :
            \/ EraseFirmware \/ Other
            \/ /\ request.op = "WriteFirmwareBlock"
               /\ WriteFirmwareBlock(request.data, request.whole)
            \/ request.op = "BootFirmware" /\ BootFirmware(request.trust)
    BY <1>2, <2>1, Arrivals DEF Receive
  <2>3. /\ request.op = "WriteFirmwareBlock" =>
                request.data \in Blocks /\ request.whole \in BOOLEAN
        /\ request.op = "BootFirmware" => request.trust \in {"Full", "Developer"}
    BY RequestKinds
  <2> QED
    BY <2>2, <2>3 DEF Next, Erase, Write
<1>3. CASE Serve
  BY <1>3 DEF Serve, Next, Erase, Write
<1>4. CASE Elsewhere
  BY <1>4 DEF Elsewhere, Next
<1>5. CASE Application
  BY <1>5 DEF Application, ApplicationAnswers, Next
<1>6. CASE LoseRequest \/ LoseAnswer
  BY <1>6 DEF LoseRequest, LoseAnswer
<1>7. CASE Fail
  BY <1>7 DEF Fail, Next
<1>8. CASE UNCHANGED updateVars
  BY <1>8 DEF updateVars
<1> QED
  BY <1>1, <1>2, <1>3, <1>4, <1>5, <1>6, <1>7, <1>8 DEF UpdateNext

(* The bootloader at a request, and how it is answered.                    *)
LEMMA ReceiveDoes ==
    ASSUME HostTypes, LineTypes, Receive
    PROVE  /\ serving = Nothing /\ toDevice # <<>> /\ toDevice' = Tail(toDevice)
           /\ UNCHANGED <<hostVars, history>>
           /\ \/ serving' = EraseRequest /\ pc' = "erase" /\ toHost' = toHost
              \/ /\ serving' \in ToolRequests /\ serving'.op = "WriteFirmwareBlock"
                 /\ pc' = "program" /\ todo' = serving'.data /\ toHost' = toHost
              \/ /\ serving' = Nothing
                 /\ \E type \in Plain : Reply([type |-> type])
<1>1. /\ serving = Nothing /\ toDevice # <<>> /\ toDevice' = Tail(toDevice)
      /\ UNCHANGED hostVars
  BY DEF Receive
<1>2. PICK request \in Requests :
        /\ \/ request.op = "EraseFirmware" /\ EraseFirmware
           \/ /\ request.op = "WriteFirmwareBlock"
              /\ WriteFirmwareBlock(request.data, request.whole)
           \/ request.op = "BootFirmware" /\ BootFirmware(request.trust)
           \/ request.op = "garbled" /\ Other
        /\ AnswerWhenDone(request)
  BY <1>1, Arrivals DEF Receive
<1>3. ASSUME pc' \in {"idle", "app"}, resp' \in Plain
      PROVE  serving' = Nothing /\ \E type \in Plain : Reply([type |-> type])
  <2>1. resp' # "AckWithIdxCrc"
    BY <1>3 DEF Plain
  <2>2. Answer(resp', request) = [type |-> resp']
    BY <2>1 DEF Answer
  <2> QED
    BY <1>2, <1>3, <2>2 DEF AnswerWhenDone
<1>4. CASE request.op = "EraseFirmware" /\ EraseFirmware
  <2>1. pc' = "erase" /\ UNCHANGED history
    BY <1>4 DEF EraseFirmware
  <2>2. request = EraseRequest
    BY <1>4, RequestKinds
  <2> QED
    BY <1>1, <1>2, <2>1, <2>2 DEF AnswerWhenDone
<1>5. CASE /\ request.op = "WriteFirmwareBlock"
           /\ WriteFirmwareBlock(request.data, request.whole)
  <2>1. /\ UNCHANGED history
        /\ \/ pc' = "program" /\ todo' = request.data
           \/ pc' = "idle" /\ resp' \in Plain
    BY <1>5 DEF WriteFirmwareBlock, Plain
  <2>2. request \in ToolRequests
    BY <1>5, RequestKinds
  <2>3. CASE pc' = "program" /\ todo' = request.data
    BY <1>1, <1>2, <1>5, <2>1, <2>2, <2>3 DEF AnswerWhenDone
  <2> QED
    BY <1>1, <1>3, <2>1, <2>3
<1>6. CASE request.op = "BootFirmware" /\ BootFirmware(request.trust)
  <2>1. UNCHANGED history /\ pc' \in {"idle", "app"} /\ resp' \in Plain
    BY <1>6 DEF BootFirmware, JumpToApp, Plain
  <2> QED
    BY <1>1, <1>3, <2>1
<1>7. CASE Other
  <2>1. UNCHANGED history /\ pc' = "idle" /\ resp' \in Plain
    BY <1>7 DEF Other, Plain
  <2> QED
    BY <1>1, <1>3, <2>1
<1> QED
  BY <1>2, <1>4, <1>5, <1>6, <1>7

LEMMA ServeDoes ==
    ASSUME IInv, LineTypes, ServesOne, Serve
    PROVE  /\ serving \in ToolRequests /\ UNCHANGED <<hostVars, toDevice>>
           /\ \/ /\ serving = EraseRequest /\ pc' \in {"erase", "restore"}
                 /\ serving' = serving /\ toHost' = toHost
              \/ /\ serving = EraseRequest /\ pc' = "idle" /\ acked' = <<>>
                 /\ serving' = Nothing /\ Reply([type |-> "AckEraseFirmware"])
              \/ /\ serving.op = "WriteFirmwareBlock" /\ pc' = "fault"
                 /\ serving' = serving /\ toHost' = toHost
              \/ /\ serving.op = "WriteFirmwareBlock"
                 /\ pc = "program" /\ pc' = "program" /\ clean' = clean
                 /\ serving' = serving /\ toHost' = toHost
                 /\ todo # <<>> /\ todo' = Tail(todo)
                 /\ acked' = Append(acked, Head(todo))
              \/ /\ serving.op = "WriteFirmwareBlock"
                 /\ pc = "program" /\ pc' = "idle" /\ todo = <<>>
                 /\ UNCHANGED history
                 /\ serving' = Nothing /\ Reply(Acknowledgement(serving))
<1>1. /\ serving # Nothing /\ UNCHANGED <<hostVars, toDevice>>
      /\ AnswerWhenDone(serving)
  BY DEF Serve
<1>2. serving \in ToolRequests /\ serving.op \in {"EraseFirmware", "WriteFirmwareBlock"}
  BY <1>1, ToolRequestKinds DEF LineTypes
<1>3. /\ pc \in {"erase", "restore"} => serving = EraseRequest
      /\ pc = "program" => serving.op = "WriteFirmwareBlock"
  BY <1>2, ToolRequestKinds DEF ServesOne
<1>4. CASE ErasePage \/ EraseDone \/ RestoreWord
  <2>1. pc \in {"erase", "restore"} /\ pc' \in {"erase", "restore"}
    BY <1>4 DEF ErasePage, EraseDone, RestoreWord
  <2> QED
    BY <1>1, <1>2, <1>3, <2>1 DEF AnswerWhenDone
<1>5. CASE RestoreDone
  <2>1. /\ pc = "restore" /\ pc' = "idle" /\ resp' = "AckEraseFirmware"
        /\ acked' = acked
    BY <1>5 DEF RestoreDone, history
  <2>2. acked = <<>>
    BY <2>1 DEF IInv, AreaHolds
  <2> QED
    BY <1>1, <1>2, <1>3, <2>1, <2>2 DEF AnswerWhenDone, Answer
<1>6. CASE ProgramWord
  <2>1. /\ pc = "program" /\ pc' = "program" /\ clean' = clean
        /\ todo # <<>> /\ todo' = Tail(todo) /\ acked' = Append(acked, Head(todo))
    BY <1>6 DEF ProgramWord
  <2> QED
    BY <1>1, <1>2, <1>3, <2>1 DEF AnswerWhenDone
<1>7. CASE ProgramFault
  <2>1. pc = "program" /\ pc' = "fault"
    BY <1>7 DEF ProgramFault
  <2> QED
    BY <1>1, <1>2, <1>3, <2>1 DEF AnswerWhenDone
<1>8. CASE ProgramDone
  <2>1. /\ pc = "program" /\ pc' = "idle" /\ todo = <<>> /\ resp' = "AckWithIdxCrc"
        /\ UNCHANGED history
    BY <1>8 DEF ProgramDone
  <2> QED
    BY <1>1, <1>2, <1>3, <2>1 DEF AnswerWhenDone, Answer, Acknowledgement
<1> QED
  BY <1>4, <1>5, <1>6, <1>7, <1>8 DEF Serve

-----------------------------------------------------------------------------
(* Types.                                                                  *)

LEMMA HostTyped ==
    ASSUME HostTypes, [UpdateNext]_updateVars
    PROVE  HostTypes'
<1>1. CASE UNCHANGED hostVars
  BY <1>1 DEF HostTypes, hostVars
<1>2. CASE ToolEnds
  BY <1>2 DEF HostTypes, ToolEnds
<1>3. CASE tool \in {"writing", "erasing"} /\ (ReadError \/ EraseAnswered \/ BlockAnswered)
  <2>1. file \in Files /\ chunkIdx \in Nat
    BY <1>3 DEF HostTypes
  <2>2. NumChunks(file) \in Nat /\ 0 < NumChunks(file)
    BY <2>1, FileFacts, Chunks
  <2>3. ASSUME NextBlock
        PROVE  /\ tool' \in {"writing", "complete"} /\ chunkIdx' \in Nat
               /\ tool' = "writing" => chunkIdx' < NumChunks(file)
    BY <2>1, <2>2, <2>3 DEF NextBlock, SendBlock
  <2>4. CASE ReadError
    BY <2>1, <2>3, <2>4 DEF ReadError, HostTypes
  <2>5. CASE BlockAnswered
    <3>1. \/ ToolEnds
          \/ NextBlock /\ UNCHANGED <<cmd, file>> /\ confirmed' \in BOOLEAN
      BY <2>5 DEF BlockAnswered, HostTypes
    <3> QED
      BY <1>2, <2>1, <2>3, <3>1 DEF HostTypes
  <2>6. CASE EraseAnswered
    <3>1. \/ ToolEnds
          \/ /\ tool' = "writing" /\ chunkIdx' = 0
             /\ UNCHANGED <<cmd, file, confirmed>>
      BY <2>6 DEF EraseAnswered, SendBlock
    <3> QED
      BY <1>2, <2>1, <2>2, <3>1 DEF HostTypes
  <2> QED
    BY <1>3, <2>4, <2>5, <2>6
<1>4. CASE Tool
  <2>1. CASE Timeout \/ Exit
    BY <1>2, <2>1 DEF Timeout, Exit
  <2>2. CASE ReadError \/ EraseAnswered \/ BlockAnswered
    BY <1>3, <2>2 DEF ReadError, EraseAnswered, BlockAnswered
  <2>3. ASSUME NEW command \in {"EraseApp", "UpdateApp"}, NEW words \in Files,
               Start(command, words)
        PROVE  HostTypes'
    BY <2>3 DEF Start, HostTypes
  <2> QED
    BY <1>4, <2>1, <2>2, <2>3 DEF Tool
<1>5. CASE Receive \/ Serve \/ Elsewhere \/ Application \/ LoseRequest \/ LoseAnswer \/ Fail
  <2>1. UNCHANGED hostVars
    BY <1>5 DEF Receive, Serve, Elsewhere, Application, ApplicationAnswers, LoseRequest,
       LoseAnswer, Fail
  <2> QED
    BY <1>1, <2>1
<1>6. CASE UNCHANGED updateVars
  BY <1>1, <1>6 DEF updateVars
<1> QED
  BY <1>4, <1>5, <1>6 DEF UpdateNext

LEMMA LineTyped ==
    ASSUME IInv, HostTypes, LineTypes, ServesOne, [UpdateNext]_updateVars
    PROVE  LineTypes'
<1>1. /\ toDevice \in Seq(ToolRequests) /\ serving \in ToolRequests \cup {Nothing}
      /\ toHost \in Seq(Answers)
  BY DEF LineTypes
<1>2. toDevice # <<>> => Tail(toDevice) \in Seq(ToolRequests)
  BY <1>1, HeadTailProperties
<1>3. /\ toHost # <<>> => Tail(toHost) \in Seq(Answers)
      /\ <<>> \in Seq(Answers)
  BY <1>1, HeadTailProperties, EmptySeq
<1>4. EraseRequest \in ToolRequests
  BY DEF ToolRequests
<1>5. ASSUME NEW i \in Nat, tool # "away", i < NumChunks(file), SendBlock(i)
      PROVE  toDevice' \in Seq(ToolRequests)
  <2>1. BlockRequest(i) \in ToolRequests
    BY <1>5, BlockRequestTyped DEF HostTypes
  <2> QED
    BY <1>1, <1>5, <2>1, AppendProperties DEF SendBlock
<1>6. ASSUME NextBlock, tool = "writing"
      PROVE  toDevice' \in Seq(ToolRequests)
  <2>1. chunkIdx + 1 \in Nat
    BY DEF HostTypes
  <2> QED
    BY <1>1, <1>5, <1>6, <2>1 DEF NextBlock
<1>7. ASSUME NEW answer \in Answers, Reply(answer)
      PROVE  toHost' \in Seq(Answers)
  BY <1>1, <1>3, <1>7, AppendProperties DEF Reply
<1>8. CASE ReadError
  <2>1. NextBlock /\ tool = "writing" /\ UNCHANGED <<serving, toHost>>
    BY <1>8 DEF ReadError
  <2> QED
    BY <1>1, <1>6, <2>1 DEF LineTypes
<1>9. CASE EraseAnswered
  <2>1. /\ tool = "erasing" /\ toHost # <<>> /\ serving' = serving
        /\ toDevice' = toDevice \/ SendBlock(0)
        /\ toHost' = Tail(toHost) \/ toHost' = <<>>
    BY <1>9 DEF EraseAnswered, ToolEnds
  <2>2. 0 < NumChunks(file)
    BY <2>1, FileFacts, Chunks DEF HostTypes
  <2> QED
    BY <1>1, <1>3, <1>5, <2>1, <2>2 DEF LineTypes
<1>10. CASE BlockAnswered
  <2>1. /\ tool = "writing" /\ toHost # <<>> /\ serving' = serving
        /\ toDevice' = toDevice \/ NextBlock
        /\ toHost' = Tail(toHost) \/ toHost' = <<>>
    BY <1>10 DEF BlockAnswered, ToolEnds
  <2> QED
    BY <1>1, <1>3, <1>6, <2>1 DEF LineTypes
<1>11. ASSUME NEW command, NEW words, Start(command, words)
       PROVE  LineTypes'
  BY <1>1, <1>3, <1>4, <1>11 DEF Start, LineTypes
<1>12. CASE Timeout \/ Exit
  BY <1>1, <1>3, <1>12 DEF Timeout, Exit, ToolEnds, LineTypes
<1>13. CASE Elsewhere \/ UNCHANGED updateVars
  BY <1>1, <1>13 DEF Elsewhere, updateVars, lineVars, LineTypes
<1>14. CASE LoseRequest \/ LoseAnswer
  BY <1>1, <1>2, <1>3, <1>14 DEF LoseRequest, LoseAnswer, LineTypes
<1>15. CASE Fail
  BY <1>1, <1>15 DEF Fail, LineTypes
<1>16. CASE Application
  <2>1. CASE ApplicationAnswers
    <3>1. Answer("Answer", Head(toDevice)) \in Answers
      BY DEF Answer, Answers, Plain
    <3> QED
      BY <1>1, <1>2, <1>7, <2>1, <3>1 DEF ApplicationAnswers, LineTypes
  <2> QED
    BY <1>1, <1>16, <2>1 DEF Application, lineVars, LineTypes
<1>17. CASE Receive
  <2>1. toDevice' \in Seq(ToolRequests) /\ serving' \in ToolRequests \cup {Nothing}
    BY <1>2, <1>4, <1>17, ReceiveDoes
  <2>2. toHost' \in Seq(Answers)
    <3>1. \A type \in Plain : [type |-> type] \in Answers
      BY DEF Answers
    <3> QED
      BY <1>1, <1>7, <1>17, <3>1, ReceiveDoes
  <2> QED
    BY <2>1, <2>2 DEF LineTypes
<1>18. CASE Serve
  <2>1. /\ serving \in ToolRequests /\ toDevice' = toDevice
        /\ serving' \in ToolRequests \cup {Nothing}
    BY <1>18, ServeDoes
  <2>2. /\ [type |-> "AckEraseFirmware"] \in Answers
        /\ serving.op = "WriteFirmwareBlock" => Acknowledgement(serving) \in Answers
    BY <2>1, ToolRequestKinds DEF Answers, Acknowledgement
  <2>3. toHost' \in Seq(Answers)
    BY <1>1, <1>7, <1>18, <2>2, ServeDoes
  <2> QED
    BY <1>1, <2>1, <2>3 DEF LineTypes
<1> QED
  BY <1>8, <1>9, <1>10, <1>11, <1>12, <1>13, <1>14, <1>15, <1>16, <1>17, <1>18
     DEF UpdateNext, Tool

-----------------------------------------------------------------------------
(* The bootloader serves one request at a time.                            *)

(* The tool's steps leave the bootloader alone.                            *)
LEMMA ToolDoes ==
    ASSUME Tool
    PROVE  UNCHANGED <<vars, serving>>
BY DEF Tool, Start, EraseAnswered, BlockAnswered, ReadError, Timeout, Exit

(* While the application runs, no request is at the bootloader.            *)
LEMMA RunningDoes ==
    ASSUME LineTypes, ServesOne, Application
    PROVE  /\ pc = "app" /\ serving = Nothing
           /\ UNCHANGED <<hostVars, serving, history>>
<1>1. pc = "app" /\ UNCHANGED <<hostVars, serving, history>>
  BY DEF Application, ApplicationAnswers, ApplicationWrites, lineVars, vars, history
<1>2. serving = Nothing
  BY <1>1, ToolRequestKinds DEF LineTypes, ServesOne
<1> QED
  BY <1>1, <1>2

LEMMA ServesOneStep ==
    ASSUME IInv, HostTypes, LineTypes, ServesOne, [UpdateNext]_updateVars
    PROVE  ServesOne'
<1>1. CASE serving' = serving /\ pc' = pc
  BY <1>1 DEF ServesOne
<1>2. CASE serving' = Nothing
  BY <1>2 DEF ServesOne, Nothing
<1>3. CASE Tool \/ LoseRequest \/ LoseAnswer \/ UNCHANGED updateVars
  BY <1>1, <1>3, ToolDoes DEF LoseRequest, LoseAnswer, updateVars, lineVars, vars
<1>4. CASE Receive
  <2>1. \/ serving' = EraseRequest /\ pc' = "erase"
        \/ serving'.op = "WriteFirmwareBlock" /\ pc' = "program"
        \/ serving' = Nothing
    BY <1>4, ReceiveDoes
  <2> QED
    BY <1>2, <2>1 DEF ServesOne, EraseRequest
<1>5. CASE Serve
  <2>1. \/ serving' = EraseRequest /\ pc' \in {"erase", "restore"}
        \/ serving'.op = "WriteFirmwareBlock" /\ pc' \in {"program", "fault"}
        \/ serving' = Nothing
    BY <1>5, ServeDoes
  <2> QED
    BY <1>2, <2>1 DEF ServesOne, EraseRequest
<1>6. CASE Elsewhere
  BY <1>2, <1>6 DEF Elsewhere, Quiet, lineVars
<1>7. CASE Application
  BY <1>2, <1>7, RunningDoes
<1>8. CASE Fail
  BY <1>2, <1>8 DEF Fail
<1> QED
  BY <1>3, <1>4, <1>5, <1>6, <1>7, <1>8 DEF UpdateNext

(* With the protection on, a word that is acknowledged lies in the area.   *)
LEMMA AckedFitsStep ==
    ASSUME IInv, AckedFits, [Next]_vars
    PROVE  AckedFits'
<1> SUFFICES ASSUME ~Debug, clean'
             PROVE  Len(acked') <= BASE_BOOTLOADER_ADDR - BASE_APP_ADDR
  BY DEF AckedFits
<1>1. TypeOK /\ Places /\ Protected /\ AreaHolds
  BY DEF IInv
<1>2. CASE ProgramWord
  <2>1. /\ clean /\ cursor = BASE_APP_ADDR + Len(acked) /\ Holds(acked)
    BY <1>1, <1>2 DEF ProgramWord, AreaHolds
  <2>2. cursor' = BASE_APP_ADDR + Len(acked') /\ cursor' = cursor + 1
    BY <1>1, <1>2, <2>1, AreaGrows, ProgramWordDoes
  <2>3. cursor \in Addresses /\ cursor \notin BootloaderArea
    BY <1>1, <1>2, ProgramWordDoes DEF Protected
  <2>4. cursor < BASE_BOOTLOADER_ADDR
    BY <2>3, Geometry DEF Addresses, BootloaderArea
  <2>5. acked' \in Seq(SUBSET CellBits)
    <3>1. acked \in Seq(SUBSET CellBits)
      BY <1>1 DEF TypeOK
    <3> QED
      BY <1>1, <1>2, <3>1, ProgramWordDoes, AppendProperties
  <2> QED
    BY <1>1, <2>2, <2>4, <2>5, Numbers, Geometry, LenProperties
<1>3. CASE acked' = <<>>
  BY <1>3, Geometry, EmptySeq
<1>4. CASE acked' = acked /\ clean' = clean
  BY <1>4 DEF AckedFits
<1>5. CASE Reset \/ PowerFailure \/ EraseDone
  BY <1>3, <1>5 DEF Reset, PowerFailure, StartUp, EraseDone
<1>6. ASSUME NEW data \in Blocks, NEW wholeWords \in BOOLEAN,
             WriteFirmwareBlock(data, wholeWords)
      PROVE  acked' = acked /\ clean' = clean
  BY <1>6 DEF WriteFirmwareBlock, history
<1>7. ASSUME NEW trust \in {"Full", "Developer"}, BootFirmware(trust)
      PROVE  acked' = acked /\ clean' = clean
  BY <1>7 DEF BootFirmware, history
<1>8. ASSUME NEW addr \in Addresses, NEW word \in SUBSET CellBits,
             ApplicationWrites(addr, word)
      PROVE  acked' = acked /\ clean' = clean
  BY <1>8 DEF ApplicationWrites, history
<1>9. CASE EraseFirmware \/ ErasePage \/ RestoreWord \/ RestoreDone
  BY <1>4, <1>9 DEF EraseFirmware, ErasePage, RestoreWord, RestoreDone, history
<1>10. CASE ProgramFault \/ ProgramDone \/ Other \/ UNCHANGED vars
  BY <1>4, <1>10 DEF ProgramFault, ProgramDone, Other, vars, history
<1> QED
  BY <1>2, <1>4, <1>5, <1>6, <1>7, <1>8, <1>9, <1>10 DEF Next, Erase, Write

-----------------------------------------------------------------------------
(* The conversation of the tool and the bootloader.                        *)

(* The start and the end of the flash write of a block.                    *)
LEMMA BlockGrows ==
    ASSUME TypeOK, todo # <<>>
    PROVE  Append(acked, Head(todo)) \o Tail(todo) = acked \o todo
<1> DEFINE words == SUBSET CellBits
           left == Append(acked, Head(todo))
<1>1. acked \in Seq(words) /\ todo \in Seq(words) /\ Len(acked) \in Nat
  BY LenProperties DEF TypeOK
<1>2. /\ Head(todo) \in words /\ Tail(todo) \in Seq(words)
      /\ Len(Tail(todo)) = Len(todo) - 1
      /\ \A i \in 1..Len(Tail(todo)) : Tail(todo)[i] = todo[i + 1]
      /\ Head(todo) = todo[1] /\ Len(todo) \in Nat \ {0}
  BY <1>1, HeadTailProperties, EmptySeq, LenProperties
<1>3. /\ left \in Seq(words) /\ Len(left) = Len(acked) + 1
      /\ \A i \in 1..Len(acked) : left[i] = acked[i]
      /\ left[Len(acked) + 1] = Head(todo)
  BY <1>1, <1>2, AppendProperties
<1> HIDE DEF left
<1>4. /\ left \o Tail(todo) \in Seq(words)
      /\ Len(left \o Tail(todo)) = Len(left) + Len(Tail(todo))
      /\ \A i \in 1..(Len(left) + Len(Tail(todo))) : (left \o Tail(todo))[i] =
            IF i <= Len(left) THEN left[i] ELSE Tail(todo)[i - Len(left)]
  BY <1>2, <1>3, ConcatProperties
<1>5. /\ acked \o todo \in Seq(words)
      /\ Len(acked \o todo) = Len(acked) + Len(todo)
      /\ \A i \in 1..(Len(acked) + Len(todo)) : (acked \o todo)[i] =
            IF i <= Len(acked) THEN acked[i] ELSE todo[i - Len(acked)]
  BY <1>1, ConcatProperties
<1>6. ASSUME NEW i \in 1..(Len(acked) + Len(todo))
      PROVE  (left \o Tail(todo))[i] = (acked \o todo)[i]
  <2>1. CASE i <= Len(acked)
    BY <1>1, <1>2, <1>3, <1>4, <1>5, <2>1
  <2>2. CASE i = Len(acked) + 1
    BY <1>1, <1>2, <1>3, <1>4, <1>5, <2>2
  <2>3. CASE i > Len(acked) + 1
    <3>1. /\ i - Len(left) \in 1..Len(Tail(todo)) /\ ~(i <= Len(left))
          /\ (i - Len(left)) + 1 = i - Len(acked) /\ ~(i <= Len(acked))
      BY <1>1, <1>2, <1>3, <2>3
    <3> QED
      BY <1>1, <1>2, <1>3, <1>4, <1>5, <3>1
  <2>4. i <= Len(acked) \/ i = Len(acked) + 1 \/ i > Len(acked) + 1
    BY <1>1, <1>2
  <2> QED
    BY <2>1, <2>2, <2>3, <2>4
<1>7. Len(left \o Tail(todo)) = Len(acked \o todo)
  BY <1>1, <1>2, <1>3, <1>4, <1>5
<1> QED
  BY <1>4, <1>5, <1>6, <1>7, SeqEqual DEF left

(* Nobody but the tool changes its variables.                              *)
LEMMA HostMoves ==
    ASSUME [UpdateNext]_updateVars
    PROVE  UNCHANGED hostVars \/ Tool
BY DEF UpdateNext, Receive, Serve, Elsewhere, Application, ApplicationAnswers,
   LoseRequest, LoseAnswer, Fail, updateVars

(* What becomes of the message that is under way while the tool waits.     *)
LEMMA Conversation ==
    ASSUME IInv, HostTypes, LineTypes, ServesOne, Alone,
           tool \in {"erasing", "writing"}, ~Tool, [UpdateNext]_updateVars
    PROVE  \/ /\ UNCHANGED <<toDevice, serving, toHost, acked, clean>>
              /\ \/ UNCHANGED <<pc, todo>>
                 \/ pc = "app" /\ serving = Nothing
           \/ /\ clean' = FALSE /\ pc' = "idle" /\ serving' = Nothing
              /\ UNCHANGED <<toDevice, toHost>>
           \/ /\ toDevice' = <<>> /\ serving' = Nothing
              /\ \/ toHost' = <<>>
                 \/ \E type \in Plain : toHost' = <<[type |-> type]>>
           \/ /\ toDevice' = <<>> /\ toHost' = <<>>
              /\ \/ serving' = EraseRequest
                 \/ serving' = serving /\ pc' = "fault"
                 \/ /\ serving' \in ToolRequests /\ serving'.op = "WriteFirmwareBlock"
                    /\ toDevice # <<>> /\ todo' = serving'.data
                    /\ UNCHANGED <<acked, clean>>
                 \/ /\ serving' = serving /\ serving.op = "WriteFirmwareBlock"
                    /\ pc = "program" /\ clean' = clean
                    /\ acked' \o todo' = acked \o todo
           \/ /\ toDevice' = <<>> /\ serving' = Nothing /\ pc' = "idle"
              /\ \/ acked' = <<>> /\ toHost' = <<[type |-> "AckEraseFirmware"]>>
                 \/ /\ serving \in ToolRequests /\ serving.op = "WriteFirmwareBlock"
                    /\ pc = "program" /\ todo = <<>> /\ UNCHANGED <<acked, clean>>
                    /\ toHost' = <<Acknowledgement(serving)>>
<1>1. ASSUME NEW answer, Reply(answer), toHost = <<>>
      PROVE  toHost' = <<answer>>
  BY <1>1, Singles DEF Reply
<1>2. CASE Receive
  <2>1. /\ serving = Nothing /\ toDevice # <<>> /\ toDevice' = Tail(toDevice)
        /\ UNCHANGED <<acked, clean>>
    BY <1>2, ReceiveDoes DEF history
  <2>2. toHost = <<>> /\ toDevice' = <<>>
    BY <2>1, Singles DEF Alone
  <2>3. CASE serving' = EraseRequest /\ toHost' = toHost
    BY <2>2, <2>3
  <2>4. CASE /\ serving' \in ToolRequests /\ serving'.op = "WriteFirmwareBlock"
             /\ todo' = serving'.data /\ toHost' = toHost
    BY <2>1, <2>2, <2>4
  <2>5. CASE serving' = Nothing /\ \E type \in Plain : Reply([type |-> type])
    <3>1. PICK type \in Plain : Reply([type |-> type])
      BY <2>5
    <3>2. toHost' = <<[type |-> type]>>
      BY <1>1, <2>2, <3>1
    <3> QED
      BY <2>2, <2>5, <3>2
  <2> QED
    BY <1>2, <2>3, <2>4, <2>5, ReceiveDoes
<1>3. CASE Serve
  <2>1. serving \in ToolRequests /\ toDevice' = toDevice
    BY <1>3, ServeDoes
  <2>2. serving # Nothing
    BY <2>1, ToolRequestKinds
  <2>3. toHost = <<>> /\ toDevice' = <<>>
    BY <2>1, <2>2 DEF Alone
  <2>4. CASE serving = EraseRequest /\ serving' = serving /\ toHost' = toHost
    BY <2>3, <2>4
  <2>5. CASE /\ serving' = Nothing /\ pc' = "idle" /\ acked' = <<>>
             /\ Reply([type |-> "AckEraseFirmware"])
    BY <1>1, <2>3, <2>5
  <2>6. CASE pc' = "fault" /\ serving' = serving /\ toHost' = toHost
    BY <2>3, <2>6
  <2>7. CASE /\ serving.op = "WriteFirmwareBlock" /\ pc = "program" /\ clean' = clean
             /\ serving' = serving /\ toHost' = toHost
             /\ todo # <<>> /\ todo' = Tail(todo) /\ acked' = Append(acked, Head(todo))
    <3>1. acked' \o todo' = acked \o todo
      BY <2>7, BlockGrows DEF IInv
    <3> QED
      BY <2>3, <2>7, <3>1
  <2>8. CASE /\ serving.op = "WriteFirmwareBlock" /\ pc = "program" /\ pc' = "idle"
             /\ todo = <<>> /\ UNCHANGED history
             /\ serving' = Nothing /\ Reply(Acknowledgement(serving))
    <3>1. UNCHANGED <<acked, clean>>
      BY <2>8 DEF history
    <3> QED
      BY <1>1, <2>1, <2>3, <2>8, <3>1
  <2> QED
    BY <1>3, <2>4, <2>5, <2>6, <2>7, <2>8, ServeDoes
<1>4. CASE Application
  <2>1. pc = "app" /\ serving = Nothing /\ serving' = serving /\ UNCHANGED <<acked, clean>>
    BY <1>4, RunningDoes DEF history
  <2>2. CASE ApplicationAnswers
    <3>1. /\ toDevice # <<>> /\ toDevice' = Tail(toDevice)
          /\ Reply([type |-> "Answer"])
      BY <2>2 DEF ApplicationAnswers, Answer
    <3>2. toHost = <<>> /\ toDevice' = <<>>
      BY <3>1, Singles DEF Alone
    <3>3. toHost' = <<[type |-> "Answer"]>> /\ "Answer" \in Plain
      BY <1>1, <3>1, <3>2 DEF Plain
    <3> QED
      BY <2>1, <3>2, <3>3
  <2>3. CASE UNCHANGED lineVars
    BY <2>1, <2>3 DEF lineVars
  <2> QED
    BY <1>4, <2>2, <2>3 DEF Application
<1>5. CASE LoseRequest
  <2>1. toDevice # <<>> /\ toDevice' = Tail(toDevice) /\ UNCHANGED <<serving, toHost>>
    BY <1>5 DEF LoseRequest
  <2> QED
    BY <2>1, Singles DEF Alone
<1>6. CASE LoseAnswer
  <2>1. toHost # <<>> /\ toHost' = Tail(toHost) /\ UNCHANGED <<serving, toDevice>>
    BY <1>6 DEF LoseAnswer
  <2> QED
    BY <2>1, Singles DEF Alone
<1>7. CASE Fail
  BY <1>7 DEF Fail, Reset, PowerFailure, StartUp
<1>8. CASE UNCHANGED updateVars
  BY <1>8 DEF updateVars, lineVars, vars, ramVars, history
<1>9. ~Elsewhere
  BY DEF Elsewhere
<1> QED
  BY <1>2, <1>3, <1>4, <1>5, <1>6, <1>7, <1>8, <1>9 DEF UpdateNext

(* What is under way stays alone.                                          *)
LEMMA AloneStep ==
    ASSUME IInv, HostTypes, LineTypes, ServesOne, Alone,
           tool \in {"erasing", "writing"}, ~Tool, [UpdateNext]_updateVars
    PROVE  Alone'
<1>1. CASE toDevice' = <<>> /\ toHost' = <<>>
  BY <1>1 DEF Alone
<1>2. CASE UNCHANGED <<toDevice, toHost>> /\ serving' \in {serving, Nothing}
  BY <1>2 DEF Alone
<1>3. CASE /\ toDevice' = <<>> /\ serving' = Nothing
           /\ \E answer : toHost' = <<answer>>
  <2>1. PICK answer : toHost' = <<answer>>
    BY <1>3
  <2>2. toHost' \in Seq(Answers)
    BY LineTyped DEF LineTypes
  <2>3. answer \in Answers
    <3>1. Len(toHost') = 1 /\ toHost'[1] = answer
      BY <2>1
    <3> QED
      BY <2>2, <3>1, ElementOfSeq
  <2> QED
    BY <1>3, <2>1, <2>3 DEF Alone
<1> QED
  BY <1>1, <1>2, <1>3, Conversation

(* The types the answers have.                                             *)
LEMMA AnswerTypes ==
    /\ \A type \in Plain : type \notin {"AckEraseFirmware", "AckWithIdxCrc"}
    /\ \A request : /\ Acknowledgement(request).type = "AckWithIdxCrc"
                    /\ Acknowledgement(request).crc = request.data
BY DEF Plain, Acknowledgement

LEMMA ErasingStep ==
    ASSUME IInv, HostTypes, LineTypes, ServesOne, Erasing, [UpdateNext]_updateVars
    PROVE  Erasing'
<1> SUFFICES ASSUME tool' = "erasing"
             PROVE  Alone' /\ (HeadIs("AckEraseFirmware")' => pc' = "idle" /\ Has(<<>>)')
  BY DEF Erasing
<1>1. CASE Tool
  <2>1. \E command, words : Start(command, words)
    BY <1>1 DEF Tool, EraseAnswered, BlockAnswered, ReadError, Timeout, Exit, ToolEnds,
       NextBlock, SendBlock
  <2>2. toDevice' = <<EraseRequest>> /\ serving' = Nothing /\ toHost' = <<>>
    BY <2>1 DEF Start, Quiet
  <2> QED
    BY <2>2 DEF Alone, HeadIs, ToolRequests
<1>2. CASE ~Tool
  <2>1. tool = "erasing"
    BY <1>2, HostMoves DEF hostVars
  <2>2. Alone /\ (HeadIs("AckEraseFirmware") => pc = "idle" /\ Has(<<>>))
    BY <2>1 DEF Erasing
  <2>3. Alone'
    BY <1>2, <2>1, <2>2, AloneStep
  <2>4. CASE toHost' = <<>>
    BY <2>3, <2>4 DEF HeadIs
  <2>5. CASE UNCHANGED <<toHost, acked, clean>> /\ (pc' = pc \/ pc = "app")
    BY <2>2, <2>3, <2>5 DEF HeadIs, Has
  <2>6. CASE clean' = FALSE /\ pc' = "idle"
    BY <2>3, <2>6 DEF Has
  <2>7. CASE pc' = "idle" /\ acked' = <<>>
    BY <2>3, <2>7 DEF Has
  <2>8. CASE \E type \in Plain : toHost' = <<[type |-> type]>>
    BY <2>3, <2>8, AnswerTypes, Singles DEF HeadIs
  <2>9. CASE toHost' = <<Acknowledgement(serving)>>
    BY <2>3, <2>9, AnswerTypes, Singles DEF HeadIs
  <2> QED
    BY <1>2, <2>1, <2>2, <2>4, <2>5, <2>6, <2>7, <2>8, <2>9, Conversation
<1> QED
  BY <1>1, <1>2

(* What the tool sees of an answer that has the index and the checksum of  *)
(* its block: nothing else is under way, and the block is in the area.     *)
LEMMA Acknowledged ==
    ASSUME HostTypes, Writing, tool = "writing", confirmed,
           HeadIs("AckWithIdxCrc"), Matches(Head(toHost))
    PROVE  /\ toDevice = <<>> /\ serving = Nothing /\ Tail(toHost) = <<>>
           /\ pc = "idle" /\ Has(After)
<1>1. /\ Alone /\ pc = "idle" /\ Has(Before \o Head(toHost).crc)
      /\ toHost # <<>>
  BY DEF Writing, HeadIs
<1>2. toDevice = <<>> /\ serving = Nothing /\ Tail(toHost) = <<>>
  BY <1>1, Singles DEF Alone
<1>3. Before \o Head(toHost).crc = After
  <2>1. file \in Files /\ chunkIdx \in Nat
    BY DEF HostTypes
  <2> QED
    BY <2>1, PrefixGrows DEF Matches, Before, After, Prefix
<1> QED
  BY <1>1, <1>2, <1>3

(* The tool goes on with confirmed set after such an answer only.          *)
LEMMA AcknowledgedOnly ==
    ASSUME HostTypes, Writing, BlockAnswered, confirmed'
    PROVE  /\ toDevice = <<>> /\ serving' = Nothing /\ toHost' = <<>>
           /\ UNCHANGED <<file, pc, acked, clean>> /\ pc = "idle"
           /\ NextBlock /\ Has(After)
<1>1. /\ tool = "writing" /\ toHost # <<>> /\ UNCHANGED <<vars, serving>>
      /\ ~ToolEnds
  BY DEF BlockAnswered, ToolEnds
<1>2. /\ NextBlock /\ confirmed /\ file' = file /\ toHost' = Tail(toHost)
      /\ HeadIs("AckWithIdxCrc") /\ Matches(Head(toHost))
  BY <1>1 DEF BlockAnswered, HeadIs
<1> QED
  BY <1>1, <1>2, Acknowledged DEF vars, history

LEMMA WritingStep ==
    ASSUME IInv, HostTypes, LineTypes, ServesOne, Erasing, Writing, [UpdateNext]_updateVars
    PROVE  Writing'
<1> DEFINE behind == serving.op = "WriteFirmwareBlock" /\ pc = "program" /\ clean
                        => acked \o todo = Before \o serving.data
           answered == HeadIs("AckWithIdxCrc") =>
                        pc = "idle" /\ Has(Before \o Head(toHost).crc)
<1> SUFFICES ASSUME tool' = "writing", confirmed'
             PROVE  /\ Alone' /\ (toDevice' # <<>> => Has(Before)')
                    /\ behind' /\ answered'
  BY DEF Writing
<1>1. ASSUME NEW i \in Nat, BlockRequest(i) \in ToolRequests,
             toDevice = <<>>, serving' = Nothing, toHost' = <<>>, SendBlock(i),
             Has(Before)'
      PROVE  Alone' /\ behind' /\ answered'
  <2>1. toDevice' = <<BlockRequest(i)>>
    BY <1>1, Singles DEF SendBlock
  <2>2. Alone'
    BY <1>1, <2>1 DEF Alone
  <2> QED
    BY <1>1, <2>2 DEF Nothing, HeadIs
<1>2. CASE EraseAnswered
  <2>1. /\ tool = "erasing" /\ HeadIs("AckEraseFirmware") /\ toHost' = Tail(toHost)
        /\ UNCHANGED <<vars, serving, file>> /\ SendBlock(0)
    BY <1>2 DEF EraseAnswered, ToolEnds, HeadIs
  <2>2. Alone /\ Has(<<>>) /\ toHost # <<>>
    BY <2>1 DEF Erasing, HeadIs
  <2>3. toDevice = <<>> /\ serving' = Nothing /\ toHost' = <<>>
    BY <2>1, <2>2, Singles DEF Alone
  <2>4. file \in Files /\ BlockRequest(0) \in ToolRequests
    <3>1. file \in Files
      BY <2>1 DEF HostTypes
    <3>2. 0 \in Nat /\ 0 < NumChunks(file)
      BY <3>1, FileFacts, Chunks
    <3> QED
      BY <3>1, <3>2, BlockRequestTyped
  <2>5. Before' = <<>>
    BY <2>1, <2>4, PrefixGrows DEF SendBlock, Before, Prefix
  <2>6. Has(Before)'
    BY <2>1, <2>2, <2>5 DEF Has, vars, history
  <2> QED
    BY <1>1, <2>1, <2>3, <2>4, <2>6
<1>3. CASE BlockAnswered
  <2>1. /\ toDevice = <<>> /\ serving' = Nothing /\ toHost' = <<>>
        /\ UNCHANGED <<file, acked, clean>>
        /\ NextBlock /\ Has(After)
    BY <1>3, AcknowledgedOnly
  <2>2. chunkIdx + 1 < NumChunks(file) /\ SendBlock(chunkIdx + 1)
    BY <2>1 DEF NextBlock
  <2>3. chunkIdx + 1 \in Nat /\ file \in Files
    BY <1>3 DEF BlockAnswered, HostTypes
  <2>4. BlockRequest(chunkIdx + 1) \in ToolRequests
    BY <2>2, <2>3, BlockRequestTyped
  <2>5. Before' = After
    BY <2>1, <2>2 DEF SendBlock, Before, After, Prefix
  <2>6. Has(Before)'
    BY <2>1, <2>5 DEF Has
  <2> QED
    BY <1>1, <2>1, <2>2, <2>3, <2>4, <2>6
<1>4. CASE ~Tool
  <2>1. tool = "writing" /\ confirmed /\ Before' = Before
    BY <1>4, HostMoves DEF hostVars, Before, Prefix
  <2>2. Alone /\ (toDevice # <<>> => Has(Before)) /\ behind /\ answered
    BY <2>1 DEF Writing
  <2>3. Alone'
    BY <1>4, <2>1, <2>2, AloneStep
  <2>4. Nothing.op # "WriteFirmwareBlock" /\ EraseRequest.op # "WriteFirmwareBlock"
    BY DEF Nothing, EraseRequest
  <2>5. CASE /\ UNCHANGED <<toDevice, serving, toHost, acked, clean>>
             /\ UNCHANGED <<pc, todo>> \/ (pc = "app" /\ serving = Nothing)
    <3>1. behind'
      BY <2>1, <2>2, <2>4, <2>5
    <3>2. answered'
      BY <2>1, <2>2, <2>5 DEF HeadIs, Has
    <3> QED
      BY <2>1, <2>2, <2>3, <2>5, <3>1, <3>2 DEF Has
  <2>6. CASE /\ clean' = FALSE /\ pc' = "idle" /\ serving' = Nothing
             /\ UNCHANGED <<toDevice, toHost>>
    BY <2>3, <2>6 DEF Has
  <2>7. CASE /\ toDevice' = <<>> /\ serving' = Nothing
             /\ \/ toHost' = <<>>
                \/ \E type \in Plain : toHost' = <<[type |-> type]>>
    <3>1. ~HeadIs("AckWithIdxCrc")'
      BY <2>7, AnswerTypes, Singles DEF HeadIs
    <3> QED
      BY <2>3, <2>4, <2>7, <3>1
  <2>8. CASE toDevice' = <<>> /\ toHost' = <<>> /\ serving' = EraseRequest
    BY <2>3, <2>4, <2>8 DEF HeadIs
  <2>9. CASE toDevice' = <<>> /\ toHost' = <<>> /\ pc' = "fault"
    BY <2>3, <2>9 DEF HeadIs
  <2>10. CASE /\ toDevice' = <<>> /\ toHost' = <<>>
              /\ toDevice # <<>> /\ todo' = serving'.data /\ UNCHANGED <<acked, clean>>
    <3>1. clean' => acked' = Before'
      BY <2>1, <2>2, <2>10 DEF Has
    <3> QED
      BY <2>3, <2>10, <3>1 DEF HeadIs
  <2>11. CASE /\ toDevice' = <<>> /\ toHost' = <<>> /\ serving' = serving
              /\ serving.op = "WriteFirmwareBlock" /\ pc = "program" /\ clean' = clean
              /\ acked' \o todo' = acked \o todo
    BY <2>1, <2>2, <2>3, <2>11 DEF HeadIs
  <2>12. CASE /\ toDevice' = <<>> /\ serving' = Nothing
              /\ toHost' = <<[type |-> "AckEraseFirmware"]>>
    <3>1. ~HeadIs("AckWithIdxCrc")'
      BY <2>12, Singles DEF HeadIs
    <3> QED
      BY <2>3, <2>4, <2>12, <3>1
  <2>13. CASE /\ toDevice' = <<>> /\ serving' = Nothing /\ pc' = "idle"
              /\ serving.op = "WriteFirmwareBlock"
              /\ pc = "program" /\ todo = <<>> /\ UNCHANGED <<acked, clean>>
              /\ toHost' = <<Acknowledgement(serving)>>
    <3>1. acked \o todo = acked
      BY <2>13, ConcatEmptySeq DEF IInv, TypeOK
    <3>2. Head(toHost').crc = serving.data
      BY <2>13, AnswerTypes, Singles
    <3>3. Has(Before \o Head(toHost).crc)'
      BY <2>1, <2>2, <2>13, <3>1, <3>2 DEF Has
    <3> QED
      BY <2>3, <2>4, <2>13, <3>3
  <2> QED
    BY <1>4, <2>1, <2>2, <2>5, <2>6, <2>7, <2>8, <2>9, <2>10, <2>11, <2>12, <2>13,
       Conversation
<1>5. Tool => EraseAnswered \/ BlockAnswered
  BY DEF Tool, Start, ReadError, Timeout, Exit, ToolEnds
<1> QED
  BY <1>2, <1>3, <1>4, <1>5

LEMMA CompleteStep ==
    ASSUME IInv, HostTypes, LineTypes, ServesOne, Writing, Complete,
           [UpdateNext]_updateVars
    PROVE  Complete'
<1> SUFFICES ASSUME tool' = "complete", confirmed'
             PROVE  /\ toDevice' = <<>> /\ serving' = Nothing /\ toHost' = <<>>
                    /\ pc' = "idle" /\ Has(file)'
  BY DEF Complete
<1>1. CASE BlockAnswered
  <2>1. /\ toDevice = <<>> /\ serving' = Nothing /\ toHost' = <<>>
        /\ UNCHANGED <<file, pc, acked, clean>> /\ pc = "idle"
        /\ NextBlock /\ Has(After)
    BY <1>1, AcknowledgedOnly
  <2>2. chunkIdx + 1 >= NumChunks(file) /\ toDevice' = toDevice
    BY <2>1 DEF NextBlock, SendBlock
  <2>3. file \in Files /\ chunkIdx + 1 \in Nat
    BY <1>1 DEF BlockAnswered, HostTypes
  <2>4. After = file
    BY <2>2, <2>3, PrefixGrows DEF After, Prefix
  <2> QED
    BY <2>1, <2>2, <2>4 DEF Has
<1>2. CASE ~Tool
  <2>1. UNCHANGED hostVars
    BY <1>2, HostMoves
  <2>2. /\ tool = "complete" /\ file' = file
        /\ toDevice = <<>> /\ serving = Nothing /\ toHost = <<>>
        /\ pc = "idle" /\ Has(file)
    BY <2>1 DEF Complete, hostVars
  <2>3. CASE Fail
    <3>1. /\ clean' = FALSE /\ pc' = "idle" /\ serving' = Nothing
          /\ UNCHANGED <<toDevice, toHost>>
      BY <2>3 DEF Fail, Reset, PowerFailure, StartUp
    <3> QED
      BY <2>2, <3>1 DEF Has
  <2>4. CASE UNCHANGED updateVars
    <3>1. UNCHANGED <<toDevice, serving, toHost, pc, clean, acked>>
      BY <2>4 DEF updateVars, lineVars, vars, history
    <3> QED
      BY <2>2, <3>1 DEF Has
  <2>5. ~Receive /\ ~Serve /\ ~Elsewhere
    BY <2>2 DEF Receive, Serve, Elsewhere
  <2>6. ~Application
    BY <2>2, RunningDoes
  <2>7. ~LoseRequest /\ ~LoseAnswer
    BY <2>2 DEF LoseRequest, LoseAnswer
  <2> QED
    BY <1>2, <2>3, <2>4, <2>5, <2>6, <2>7 DEF UpdateNext
<1>3. Tool => BlockAnswered
  BY DEF Tool, Start, EraseAnswered, SendBlock, ReadError, Timeout, Exit, ToolEnds
<1> QED
  BY <1>1, <1>2, <1>3

-----------------------------------------------------------------------------
(* The invariant.                                                          *)

LEMMA UpdateInitial == UpdateInit => UpdateInv
<1> SUFFICES ASSUME UpdateInit
             PROVE  UpdateInv
  OBVIOUS
<1>1. IInv
  BY InitialInvariant DEF UpdateInit
<1>2. HostTypes
  BY DEF UpdateInit, HostTypes
<1>3. LineTypes
  BY EmptySeq DEF UpdateInit, LineTypes
<1>4. ServesOne
  BY DEF UpdateInit, Init, ServesOne, Nothing
<1>5. AckedFits
  BY DEF UpdateInit, Init, AckedFits
<1>6. Erasing /\ Writing /\ Complete
  BY DEF UpdateInit, Erasing, Writing, Complete
<1> QED
  BY <1>1, <1>2, <1>3, <1>4, <1>5, <1>6 DEF UpdateInv

LEMMA UpdateStep == UpdateInv /\ [UpdateNext]_updateVars => UpdateInv'
<1> SUFFICES ASSUME UpdateInv, [UpdateNext]_updateVars
             PROVE  UpdateInv'
  OBVIOUS
<1> USE DEF UpdateInv
<1>1. [Next]_vars
  BY FlashStep
<1>2. IInv' /\ AckedFits'
  BY <1>1, InvariantStep, AckedFitsStep
<1>3. HostTypes' /\ LineTypes' /\ ServesOne'
  BY HostTyped, LineTyped, ServesOneStep
<1>4. Erasing' /\ Writing' /\ Complete'
  BY ErasingStep, WritingStep, CompleteStep
<1> QED
  BY <1>2, <1>3, <1>4

LEMMA UpdateInvariance == UpdateSpec => []UpdateInv
BY UpdateInitial, UpdateStep, PTL DEF UpdateSpec

-----------------------------------------------------------------------------
(* An update is a behaviour of the bootloader: whatever the tool sends,    *)
(* and whatever of it is lost or garbled, the bootloader takes the steps   *)
(* it takes at the requests of any host, or none.                          *)
THEOREM UpdateRefinesFlash == UpdateSpec => Spec
<1>1. UpdateInit => Init
  BY DEF UpdateInit
<1>2. UpdateInv /\ [UpdateNext]_updateVars => [Next]_vars
  BY FlashStep DEF UpdateInv
<1> QED
  BY <1>1, <1>2, UpdateInvariance, PTL DEF UpdateSpec, Spec

(* The tool's variables and the messages on the line have their types, and *)
(* the tool never sends a block that the file does not have.               *)
THEOREM UpdateTypeCorrect == UpdateSpec => []UpdateTypeOK
<1>1. UpdateInv => UpdateTypeOK
  <2> SUFFICES ASSUME HostTypes, LineTypes
               PROVE  UpdateTypeOK
    BY DEF UpdateInv
  <2>1. /\ tool \in {"away", "erasing", "writing", "complete"}
        /\ cmd \in {"none", "EraseApp", "UpdateApp"}
        /\ file \in Files \cup {<<>>}
        /\ chunkIdx \in Nat /\ (tool = "writing" => chunkIdx < NumChunks(file))
        /\ confirmed \in BOOLEAN
    BY DEF HostTypes
  <2>2. \A i \in 1..Len(toDevice) :
            toDevice[i].op \in {"EraseFirmware", "WriteFirmwareBlock"}
    BY ElementOfSeq, ToolRequestKinds DEF LineTypes
  <2>3. serving.op \in {"EraseFirmware", "WriteFirmwareBlock", "nothing"}
    BY ToolRequestKinds DEF LineTypes, Nothing
  <2> DEFINE types == {"AckEraseFirmware", "FirmwareOutOfBounds",
                       "NackWithIdx", "AckWithIdxCrc",
                       "NoCosignHeader", "AckVerifyFirmware false",
                       "AckVerifyFirmware true", "Answer"}
  <2>4. \A i \in 1..Len(toHost) : toHost[i].type \in types
    <3>1. \A answer \in Answers : answer.type \in types
      BY DEF Answers, Plain
    <3> QED
      BY <3>1, ElementOfSeq DEF LineTypes
  <2> QED
    BY <2>1, <2>2, <2>3, <2>4 DEF UpdateTypeOK
<1> QED
  BY <1>1, UpdateInvariance, PTL

(* An answer with the index and the checksum of the tool's block, all      *)
(* earlier ones having had theirs, means that the area holds the file up   *)
(* to this block and nothing else: a block that was garbled on the line,   *)
(* which the bootloader programs and acknowledges like any other, never    *)
(* passes for the one that was sent.                                       *)
THEOREM AreaFollows == UpdateSpec => []AreaFollowsTool
<1>1. UpdateInv => AreaFollowsTool
  <2> SUFFICES ASSUME UpdateInv, tool = "writing", confirmed, clean,
                      HeadIs("AckWithIdxCrc"), Matches(Head(toHost))
               PROVE  acked = After
    BY DEF AreaFollowsTool, HeadIs, After, Prefix
  <2> QED
    BY Acknowledged DEF UpdateInv, Has
<1> QED
  BY <1>1, UpdateInvariance, PTL

(* A complete update, every block of it answered as it should be, is in    *)
(* the area word for word.                                                 *)
THEOREM UpdateStores == UpdateSpec => []CompleteUpdateIsStored
<1>1. UpdateInv => CompleteUpdateIsStored
  <2> SUFFICES ASSUME UpdateInv, tool = "complete", confirmed, clean,
                      Debug => Len(file) <= BASE_BOOTLOADER_ADDR - BASE_APP_ADDR
               PROVE  IsStored(file)
    BY DEF CompleteUpdateIsStored
  <2>1. acked = file /\ pc = "idle"
    BY DEF UpdateInv, Complete, Has
  <2>2. Holds(file)
    BY <2>1 DEF UpdateInv, IInv, AreaHolds
  <2>3. Len(file) \in Nat
    <3>1. file \in Files
      BY DEF UpdateInv, HostTypes
    <3> QED
      BY <3>1, FileFacts
  <2>4. Len(file) <= BASE_BOOTLOADER_ADDR - BASE_APP_ADDR
    BY <2>1 DEF UpdateInv, AckedFits
  <2>5. ASSUME NEW i \in 1..Len(file)
        PROVE  flash[BASE_APP_ADDR + i - 1] = file[i]
    <3> DEFINE a == BASE_APP_ADDR + i - 1
    <3>1. /\ a \in AppArea /\ a - BASE_APP_ADDR < Len(file)
          /\ a - BASE_APP_ADDR + 1 = i
      BY <2>3, <2>4, Geometry DEF AppArea
    <3> HIDE DEF a
    <3>2. flash[a] = file[i]
      BY <2>2, <3>1 DEF Holds
    <3> QED
      BY <3>2 DEF a
  <2> QED
    BY <2>4, <2>5 DEF IsStored
<1> QED
  BY <1>1, UpdateInvariance, PTL

(* Whatever the tool, its timeouts and the line do, the update keeps all   *)
(* that is proved of the flash: no late or repeated answer of the          *)
(* bootloader, and no block sent twice, costs the SoftDevice or the        *)
(* bootloader, and what boots is what was acknowledged.                    *)
THEOREM UpdateKeepsFlash ==
    UpdateSpec => [](/\ SoftdeviceIsIntact
                     /\ BootloaderIsIntact
                     /\ AreaHoldsAcknowledged
                     /\ BootsWhatWasSent
                     /\ RunsWhatWasVerified)
  BY UpdateRefinesFlash, SoftdeviceCorrect, BootloaderCorrect, AreaCorrect,
     BootCorrect, RunCorrect, PTL

=============================================================================
