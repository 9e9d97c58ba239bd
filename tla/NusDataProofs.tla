---------------------------- MODULE NusDataProofs -----------------------------
(***************************************************************************)
(* The data path, for every capacity of the channel and of the SoftDevice  *)
(* and every number of packets.  The argument follows one sequence, the    *)
(* packets the host has, is reading and will read: a write appends to it,  *)
(* a fetch and a read leave it alone, and only a response that is given up *)
(* takes a packet out of it.                                               *)
(***************************************************************************)
EXTENDS NusData, SequenceTheorems, TLAPS

(* No packet is on its way that was not written.                           *)
StreamIsWritten == \A i \in 1..Len(Stream) : Stream[i] <= written

IInv ==
    /\ TypeOK
    /\ IrqWhileData
    /\ DeliveredInOrder
    /\ StreamIsWritten
    /\ EveryPacketAccounted

-----------------------------------------------------------------------------
(* Sequences of packets.                                                   *)

LEMMA PacketsAreInts == Packets \subseteq Int
BY PacketsAssumption DEF PacketsAssumption, Packets

LEMMA IncreasingAppend ==
    ASSUME NEW s \in Seq(Packets), NEW p \in Packets,
           Increasing(s), \A i \in 1..Len(s) : s[i] < p
    PROVE  Increasing(Append(s, p))
<1>1. /\ Append(s, p) \in Seq(Packets)
      /\ Len(Append(s, p)) = Len(s) + 1
      /\ \A i \in 1..Len(s) : Append(s, p)[i] = s[i]
      /\ Append(s, p)[Len(s) + 1] = p
  BY AppendProperties
<1>2. DOMAIN s = 1..Len(s) /\ DOMAIN Append(s, p) = 1..(Len(s) + 1)
  BY <1>1, LenProperties
<1> SUFFICES ASSUME NEW i \in 1..(Len(s) + 1), NEW j \in 1..(Len(s) + 1), i < j
             PROVE  Append(s, p)[i] < Append(s, p)[j]
  BY <1>2 DEF Increasing
<1>3. Len(s) \in Nat
  BY LenProperties
<1>4. CASE j = Len(s) + 1
  BY <1>1, <1>3, <1>4
<1>5. CASE j <= Len(s)
  BY <1>1, <1>2, <1>3, <1>5 DEF Increasing
<1> QED
  BY <1>3, <1>4, <1>5

(* Order survives the loss of the middle.                                  *)
LEMMA IncreasingWithout ==
    ASSUME NEW s \in Seq(Packets), NEW m \in Seq(Packets), NEW t \in Seq(Packets),
           Increasing((s \o m) \o t)
    PROVE  Increasing(s \o t)
<1> DEFINE whole == (s \o m) \o t
           rest  == s \o t
           at(i) == IF i <= Len(s) THEN i ELSE i + Len(m)
<1>1. /\ Len(s) \in Nat /\ Len(m) \in Nat /\ Len(t) \in Nat
      /\ s \o m \in Seq(Packets) /\ Len(s \o m) = Len(s) + Len(m)
      /\ whole \in Seq(Packets) /\ Len(whole) = Len(s) + Len(m) + Len(t)
      /\ rest \in Seq(Packets) /\ Len(rest) = Len(s) + Len(t)
  BY ConcatProperties, LenProperties
<1>2. DOMAIN whole = 1..Len(whole) /\ DOMAIN rest = 1..Len(rest)
  BY <1>1, LenProperties
<1>3. ASSUME NEW i \in 1..Len(rest)
      PROVE  at(i) \in 1..Len(whole) /\ rest[i] = whole[at(i)]
  <2>1. rest[i] = IF i <= Len(s) THEN s[i] ELSE t[i - Len(s)]
    BY <1>1, ConcatProperties
  <2>2. at(i) \in 1..(Len(s \o m) + Len(t))
    BY <1>1
  <2>3. whole[at(i)] = IF at(i) <= Len(s \o m)
                       THEN (s \o m)[at(i)] ELSE t[at(i) - Len(s \o m)]
    BY <1>1, <2>2, ConcatProperties
  <2>4. i <= Len(s) => (s \o m)[i] = s[i]
    BY <1>1, ConcatProperties
  <2> QED
    BY <1>1, <2>1, <2>2, <2>3, <2>4
<1> SUFFICES ASSUME NEW i \in 1..Len(rest), NEW j \in 1..Len(rest), i < j
             PROVE  rest[i] < rest[j]
  BY <1>2 DEF Increasing
<1>4. at(i) < at(j)
  BY <1>1
<1> QED
  BY <1>2, <1>3, <1>4 DEF Increasing

LEMMA RangeAppend ==
    ASSUME NEW s \in Seq(Packets), NEW p \in Packets
    PROVE  Range(Append(s, p)) = Range(s) \cup {p}
<1>1. Append(s, p) = s \o <<p>> /\ <<p>> \in Seq(Packets)
  BY AppendIsConcat
<1>2. Range(<<p>>) = {p}
  BY DEF Range
<1>3. Range(s \o <<p>>) = Range(s) \cup Range(<<p>>)
  BY <1>1, RangeConcatenation, ZenonT(60)
<1> QED
  BY <1>1, <1>2, <1>3, Zenon

LEMMA HeadThenTail ==
    ASSUME NEW s \in Seq(Packets), s # <<>>
    PROVE  s = <<Head(s)>> \o Tail(s)
<1>1. /\ Head(s) \in Packets /\ Tail(s) \in Seq(Packets)
      /\ Len(Tail(s)) = Len(s) - 1 /\ Len(s) \in Nat \ {0}
      /\ \A i \in 1..Len(Tail(s)) : Tail(s)[i] = s[i + 1]
  BY HeadTailProperties, EmptySeq
<1>2. <<Head(s)>> \in Seq(Packets) /\ Len(<<Head(s)>>) = 1
  BY <1>1
<1>3. /\ <<Head(s)>> \o Tail(s) \in Seq(Packets)
      /\ Len(<<Head(s)>> \o Tail(s)) = 1 + Len(Tail(s))
      /\ \A i \in 1..(1 + Len(Tail(s))) : (<<Head(s)>> \o Tail(s))[i] =
            IF i <= 1 THEN <<Head(s)>>[i] ELSE Tail(s)[i - 1]
  BY <1>1, <1>2, ConcatProperties
<1>4. ASSUME NEW i \in 1..Len(s)
      PROVE  s[i] = (<<Head(s)>> \o Tail(s))[i]
  <2>1. CASE i = 1
    BY <1>1, <1>3, <2>1
  <2>2. CASE i # 1
    BY <1>1, <1>3, <2>2
  <2> QED
    BY <2>1, <2>2
<1> QED
  BY <1>1, <1>3, <1>4, SeqEqual

-----------------------------------------------------------------------------
(* The kinds of responses.                                                 *)

LEMMA ResponseKinds ==
    ASSUME TypeOK
    PROVE  /\ resp.kind = "ReceivedData" <=> \E p \in Packets : resp = Data(p)
           /\ resp.kind = "ReceivedData" => resp.packet \in Packets
           /\ resp.kind = "Status" => resp.queueOverflow \in BOOLEAN
BY DEF TypeOK, NoResp, Data, Status, Plain

LEMMA StreamTyped ==
    ASSUME TypeOK
    PROVE  /\ InFlight \in Seq(Packets)
           /\ Stream \in Seq(Packets)
           /\ Range(Stream) = Range(delivered) \cup Range(InFlight) \cup Range(queue)
<1>1. delivered \in Seq(Packets) /\ queue \in Seq(Packets)
  BY DEF TypeOK
<1>2. InFlight \in Seq(Packets)
  BY ResponseKinds DEF InFlight
<1>3. delivered \o InFlight \in Seq(Packets)
  BY <1>1, <1>2, ConcatProperties
<1>4. Stream \in Seq(Packets)
  BY <1>1, <1>3, ConcatProperties DEF Stream
<1>5. Range(delivered \o InFlight) = Range(delivered) \cup Range(InFlight)
  BY <1>1, <1>2, RangeConcatenation, ZenonT(60)
<1>6. Range((delivered \o InFlight) \o queue)
        = Range(delivered \o InFlight) \cup Range(queue)
  BY <1>1, <1>3, RangeConcatenation, ZenonT(60)
<1> QED
  BY <1>2, <1>4, <1>5, <1>6 DEF Stream

-----------------------------------------------------------------------------
(* What the steps do to the stream.                                        *)

(* A write puts its packet last, or drops it.                              *)
LEMMA StreamOfWrite ==
    ASSUME TypeOK, RxWrite
    PROVE  /\ written + 1 \in Packets
           /\ \/ Stream' = Append(Stream, written + 1) /\ dropped' = dropped
              \/ Stream' = Stream /\ dropped' = dropped \cup {written + 1} /\ overflow'
<1>1. delivered' = delivered /\ InFlight' = InFlight /\ written + 1 \in Packets
  BY PacketsAssumption DEF RxWrite, InFlight, TypeOK, Packets, PacketsAssumption
<1>2. CASE queue' = queue
  BY <1>1, <1>2 DEF RxWrite, Stream
<1>3. CASE queue' = Append(queue, written + 1) /\ dropped' = dropped
  <2> DEFINE before == delivered \o InFlight
             packet == <<written + 1>>
  <2>1. /\ before \in Seq(Packets) /\ queue \in Seq(Packets)
        /\ packet \in Seq(Packets) /\ Stream \in Seq(Packets)
    BY <1>1, StreamTyped, ConcatProperties DEF TypeOK
  <2>2. queue' = queue \o packet /\ Append(Stream, written + 1) = Stream \o packet
    BY <1>1, <1>3, <2>1, AppendIsConcat
  <2>3. Stream' = before \o (queue \o packet) /\ Stream = before \o queue
    BY <1>1, <2>2 DEF Stream
  <2> HIDE DEF before, packet
  <2>4. (before \o queue) \o packet = before \o (queue \o packet)
    BY <2>1, ConcatAssociative, SMTT(60)
  <2> QED
    BY <1>1, <1>3, <2>2, <2>3, <2>4
<1>4. queue' = queue \/ (queue' = Append(queue, written + 1) /\ dropped' = dropped)
  BY DEF RxWrite
<1>5. queue' = queue => dropped' = dropped \cup {written + 1} /\ overflow'
  <2>1. queue \in Seq(Packets)
    BY DEF TypeOK
  <2>2. queue # Append(queue, written + 1)
    BY <1>1, <2>1, AppendProperties, LenProperties
  <2> QED
    BY <2>2 DEF RxWrite
<1> QED
  BY <1>2, <1>3, <1>4, <1>5, <1>1 DEF RxWrite, Stream

(* A fetch takes the head of the channel into the response.                *)
LEMMA StreamOfFetch ==
    ASSUME TypeOK, GetReceivedData
    PROVE  Stream' = Stream
<1>1. delivered' = delivered /\ InFlight = <<>>
  BY DEF GetReceivedData, InFlight, NoResp, history
<1>2. CASE queue = <<>>
  <2>1. queue' = queue /\ InFlight' = <<>>
    BY <1>2 DEF GetReceivedData, InFlight, Plain
  <2> QED
    BY <1>1, <2>1 DEF Stream
<1>3. CASE queue # <<>>
  <2> DEFINE h == <<Head(queue)>>
             t == Tail(queue)
  <2>1. InFlight' = h /\ queue' = t
    BY <1>3 DEF GetReceivedData, InFlight, Data
  <2>2. /\ queue = h \o t /\ h \in Seq(Packets) /\ t \in Seq(Packets)
        /\ delivered \in Seq(Packets)
    BY <1>3, HeadThenTail, HeadTailProperties DEF TypeOK
  <2> HIDE DEF h, t
  <2>3. (delivered \o h) \o t = delivered \o (h \o t)
    BY <2>2, ConcatAssociative
  <2>4. delivered \o <<>> = delivered
    BY <2>2, ConcatEmptySeq
  <2> QED
    BY <1>1, <2>1, <2>2, <2>3, <2>4 DEF Stream
<1> QED
  BY <1>2, <1>3

(* A packet that is read goes from the response to the host.               *)
LEMMA StreamOfRead ==
    ASSUME TypeOK, HostReads
    PROVE  Stream' = Stream
<1>1. queue' = queue /\ InFlight' = <<>>
  BY DEF HostReads, InFlight, NoResp, rxVars
<1>2. delivered \in Seq(Packets) /\ delivered' = delivered \o InFlight
  <2>1. CASE resp.kind = "ReceivedData"
    <3>1. delivered' = Append(delivered, resp.packet) /\ resp.packet \in Packets
      BY <2>1, ResponseKinds DEF HostReads
    <3> QED
      BY <2>1, <3>1, AppendIsConcat DEF InFlight, TypeOK
  <2>2. CASE resp.kind # "ReceivedData"
    BY <2>2, ConcatEmptySeq DEF HostReads, InFlight, TypeOK
  <2> QED
    BY <2>1, <2>2 DEF TypeOK
<1>3. delivered' \o <<>> = delivered'
  BY <1>2, StreamTyped, ConcatProperties, ConcatEmptySeq
<1> QED
  BY <1>1, <1>2, <1>3 DEF Stream

(* A response that is given up takes its packet with it.                   *)
LEMMA StreamOfAbandon ==
    ASSUME TypeOK, HostAbandons
    PROVE  /\ Stream' = delivered \o queue
           /\ Range(Stream) \subseteq Range(Stream') \cup Range(InFlight)
           /\ Range(InFlight) \subseteq lost'
<1>1. queue' = queue /\ delivered' = delivered /\ InFlight' = <<>>
  BY DEF HostAbandons, InFlight, NoResp, rxVars
<1>2. delivered \in Seq(Packets) /\ queue \in Seq(Packets)
  BY DEF TypeOK
<1>3. Stream' = delivered \o queue
  BY <1>1, <1>2, ConcatEmptySeq DEF Stream
<1>4. Range(delivered \o queue) = Range(delivered) \cup Range(queue)
  BY <1>2, RangeConcatenation, ZenonT(60)
<1>5. Range(InFlight) \subseteq lost'
  <2>1. CASE resp.kind = "ReceivedData"
    <3>1. lost' = lost \cup {resp.packet}
      BY <2>1 DEF HostAbandons
    <3>2. Range(<<resp.packet>>) = {resp.packet}
      BY DEF Range
    <3> QED
      BY <2>1, <3>1, <3>2 DEF InFlight
  <2>2. CASE resp.kind # "ReceivedData"
    BY <2>2 DEF InFlight, Range
  <2> QED
    BY <2>1, <2>2
<1> QED
  BY <1>3, <1>4, <1>5, StreamTyped

-----------------------------------------------------------------------------
(* Types.                                                                  *)

LEMMA TypeInit == Init => TypeOK
<1> SUFFICES ASSUME Init
             PROVE  TypeOK
  OBVIOUS
<1>1. <<>> \in Seq(Packets) /\ Len(<<>>) = 0
  BY EmptySeq
<1>2. /\ Len(queue) <= BT_MAX_NUM_PKT
      /\ written \in 0..MaxPackets /\ hvnQueue \in 0..HvnTxQueueSize
  BY <1>1, PacketsAssumption, HvnAssumption, CapacityAssumption
     DEF Init, PacketsAssumption, HvnAssumption, CapacityAssumption
<1> QED
  BY <1>1, <1>2 DEF Init, TypeOK

LEMMA TypeStep == TypeOK /\ [Next]_vars => TypeOK'
<1> SUFFICES ASSUME TypeOK, [Next]_vars
             PROVE  TypeOK'
  OBVIOUS
<1> USE PacketsAssumption, HvnAssumption, CapacityAssumption
    DEF PacketsAssumption, HvnAssumption, CapacityAssumption
<1>1. CASE RxWrite
  <2>1. written + 1 \in Packets /\ written' = written + 1
    BY <1>1, StreamOfWrite DEF RxWrite
  <2>2. queue' \in Seq(Packets) /\ (Len(queue) <= BT_MAX_NUM_PKT)'
    BY <1>1, <2>1, AppendProperties, LenProperties DEF RxWrite, TypeOK
  <2>3. written' \in 0..MaxPackets
    BY <2>1 DEF Packets
  <2> QED
    BY <1>1, <2>1, <2>2, <2>3 DEF RxWrite, TypeOK, linkVars
<1>2. CASE GetReceivedData
  <2>1. queue' \in Seq(Packets) /\ (Len(queue) <= BT_MAX_NUM_PKT)'
    <3>1. queue \in Seq(Packets) /\ Len(queue) \in Nat /\ Len(queue) <= BT_MAX_NUM_PKT
      BY LenProperties DEF TypeOK
    <3>2. CASE queue = <<>>
      <4>1. queue' = queue
        BY <1>2, <3>2 DEF GetReceivedData
      <4> QED
        BY <3>1, <4>1
    <3>3. CASE queue # <<>>
      <4>1. queue' = Tail(queue)
        BY <1>2, <3>3 DEF GetReceivedData
      <4>2. Tail(queue) \in Seq(Packets) /\ Len(Tail(queue)) = Len(queue) - 1
        BY <3>1, <3>3, HeadTailProperties
      <4> QED
        BY <3>1, <4>1, <4>2
    <3> QED
      BY <3>2, <3>3
  <2>2. irqLow' \in BOOLEAN
    <3>1. irqLow' = irqLow \/ irqLow' = FALSE
      BY <1>2 DEF GetReceivedData
    <3>2. irqLow \in BOOLEAN
      BY DEF TypeOK
    <3> QED
      BY <3>1, <3>2
  <2>3. (resp \in {Data(p) : p \in Packets} \cup {Plain("NoReceivedData")})'
    BY <1>2, HeadTailProperties DEF GetReceivedData, TypeOK
  <2> QED
    BY <1>2, <2>1, <2>2, <2>3 DEF GetReceivedData, TypeOK, linkVars, history
<1>3. CASE GetStatus
  BY <1>3 DEF GetStatus, TypeOK, linkVars, history
<1>4. CASE SendData
  <2>1. hvnQueue' \in 0..HvnTxQueueSize
    BY <1>4 DEF SendData, CanNotify, TypeOK
  <2> QED
    BY <1>4, <2>1 DEF SendData, TypeOK, rxVars, history
<1>5. CASE HostReads
  <2>1. delivered' \in Seq(Packets)
    BY <1>5, ResponseKinds, AppendProperties DEF HostReads, TypeOK
  <2>2. reported' \subseteq dropped
    BY <1>5 DEF HostReads, TypeOK
  <2> QED
    BY <1>5, <2>1, <2>2 DEF HostReads, TypeOK, rxVars, linkVars
<1>6. CASE HostAbandons
  <2>1. lost' \subseteq Packets
    BY <1>6, ResponseKinds DEF HostAbandons, TypeOK
  <2> QED
    BY <1>6, <2>1 DEF HostAbandons, TypeOK, rxVars, linkVars
<1>7. CASE Link
  <2>1. UNCHANGED <<rxVars, resp, history>>
    BY <1>7 DEF Link, ConnectionStored, ConnectionLost, ConnectionCleared,
                Subscribe, NotificationSent, rxVars, history
  <2>2. connection' \in {"none", "live", "dead"} /\ subscribed' \in BOOLEAN
    BY <1>7, Zenon DEF Link, ConnectionStored, ConnectionLost, ConnectionCleared,
                       Subscribe, NotificationSent, TypeOK
  <2>3. hvnQueue' \in 0..HvnTxQueueSize
    BY <1>7 DEF Link, ConnectionStored, ConnectionLost, ConnectionCleared,
                Subscribe, NotificationSent, TypeOK
  <2> QED
    BY <2>1, <2>2, <2>3 DEF TypeOK, rxVars, history
<1>8. CASE Restart
  <2>1. Init'
    BY <1>8 DEF Restart, Init
  <2> QED
    BY <2>1, TypeInit, PTL
<1>9. CASE UNCHANGED vars
  BY <1>9 DEF vars, rxVars, linkVars, history, TypeOK
<1> QED
  BY <1>1, <1>2, <1>3, <1>4, <1>5, <1>6, <1>7, <1>8, <1>9 DEF Next, Request

(* The variables have their types, whatever the capacities.                *)
THEOREM TypeCorrect == Spec => []TypeOK
BY TypeInit, TypeStep, PTL DEF Spec

-----------------------------------------------------------------------------
(* Four steps disturb the stream; the rest leave it, and the history,      *)
(* alone.                                                                  *)
LEMMA StreamOfOthers ==
    ASSUME TypeOK, GetStatus \/ SendData \/ Link \/ UNCHANGED vars
    PROVE  Stream' = Stream /\ UNCHANGED history
<1>1. UNCHANGED history /\ queue' = queue
  BY DEF GetStatus, SendData, Link, ConnectionStored, ConnectionLost,
         ConnectionCleared, Subscribe, NotificationSent, vars, rxVars
<1>2. InFlight' = InFlight
  BY DEF GetStatus, SendData, Link, ConnectionStored, ConnectionLost,
         ConnectionCleared, Subscribe, NotificationSent, vars, InFlight, NoResp, Status, Plain
<1> QED
  BY <1>1, <1>2 DEF Stream, history

LEMMA InitialInvariant == Init => IInv
<1> SUFFICES ASSUME Init
             PROVE  IInv
  OBVIOUS
<1> USE DEF Init
<1>1. InFlight = <<>> /\ <<>> \in Seq(Packets)
  BY EmptySeq DEF InFlight, NoResp
<1>2. Stream = <<>>
  BY <1>1, ConcatEmptySeq DEF Stream
<1> QED
  BY <1>2, EmptySeq, TypeInit
     DEF IInv, IrqWhileData, DeliveredInOrder, Increasing, StreamIsWritten,
         EveryPacketAccounted

LEMMA IrqStep == IInv /\ [Next]_vars => IrqWhileData'
BY DEF IInv, IrqWhileData, Next, Request, RxWrite, GetReceivedData, GetStatus, SendData,
       HostReads, HostAbandons, Link, ConnectionStored, ConnectionLost,
       ConnectionCleared, Subscribe, NotificationSent, Restart, vars, rxVars

LEMMA OrderStep == IInv /\ [Next]_vars => (DeliveredInOrder /\ StreamIsWritten)'
<1> SUFFICES ASSUME IInv, [Next]_vars
             PROVE  (DeliveredInOrder /\ StreamIsWritten)'
  OBVIOUS
<1>1. /\ TypeOK /\ TypeOK' /\ Stream \in Seq(Packets) /\ Len(Stream) \in Nat
      /\ Increasing(Stream) /\ \A i \in 1..Len(Stream) : Stream[i] <= written
      /\ written \in Nat
  BY TypeStep, StreamTyped, LenProperties
     DEF IInv, TypeOK, DeliveredInOrder, StreamIsWritten
<1>2. \A i \in 1..Len(Stream) : Stream[i] \in Packets /\ Stream[i] \in Int
  BY <1>1, LenProperties, PacketsAreInts
<1>3. ASSUME Stream' = Stream, written' \in {written, written + 1}
      PROVE  (DeliveredInOrder /\ StreamIsWritten)'
  BY <1>1, <1>2, <1>3 DEF DeliveredInOrder, StreamIsWritten
<1>4. CASE RxWrite
  <2>1. CASE Stream' = Append(Stream, written + 1)
    <3>1. written + 1 \in Packets /\ written' = written + 1
      BY <1>1, <1>4, StreamOfWrite DEF RxWrite
    <3>3. \A i \in 1..Len(Stream) : Stream[i] < written + 1
      BY <1>1, <1>2
    <3>4. Increasing(Stream')
      BY <1>1, <2>1, <3>1, <3>3, IncreasingAppend
    <3>5. ASSUME NEW i \in 1..Len(Stream')
          PROVE  Stream'[i] <= written'
      BY <1>1, <1>2, <2>1, <3>1, <3>3, <3>5, AppendProperties
    <3> QED
      BY <3>4, <3>5 DEF DeliveredInOrder, StreamIsWritten
  <2>2. CASE Stream' = Stream
    BY <1>3, <1>4, <2>2 DEF RxWrite
  <2> QED
    BY <1>1, <1>4, <2>1, <2>2, StreamOfWrite
<1>5. CASE GetReceivedData \/ HostReads
  <2>1. Stream' = Stream /\ written' = written
    BY <1>1, <1>5, StreamOfFetch, StreamOfRead DEF GetReceivedData, HostReads, history
  <2> QED
    BY <1>3, <2>1
<1>6. CASE GetStatus \/ SendData \/ Link \/ UNCHANGED vars
  <2>1. Stream' = Stream /\ written' = written
    BY <1>1, <1>6, StreamOfOthers DEF history
  <2> QED
    BY <1>3, <2>1
<1>7. CASE HostAbandons
  <2>1. /\ delivered \in Seq(Packets) /\ InFlight \in Seq(Packets)
        /\ queue \in Seq(Packets)
    BY <1>1, StreamTyped DEF TypeOK
  <2>2. Stream' = delivered \o queue /\ written' = written
    BY <1>1, <1>7, StreamOfAbandon DEF HostAbandons
  <2>3. Increasing(Stream')
    BY <1>1, <2>1, <2>2, IncreasingWithout DEF Stream
  <2>4. ASSUME NEW i \in 1..Len(Stream')
        PROVE  Stream'[i] <= written'
    <3>1. Range(delivered \o queue) = Range(delivered) \cup Range(queue)
      BY <2>1, RangeConcatenation, ZenonT(60)
    <3>2. Stream' \in Seq(Packets)
      BY <2>1, <2>2, ConcatProperties
    <3>3. Stream'[i] \in Range(Stream')
      BY <3>2, LenProperties DEF Range
    <3>4. Stream'[i] \in Range(Stream)
      BY <1>1, <2>2, <3>1, <3>3, StreamTyped
    <3>5. PICK j \in 1..Len(Stream) : Stream'[i] = Stream[j]
      BY <1>1, <3>4, LenProperties DEF Range
    <3> QED
      BY <1>1, <2>2, <3>5
  <2> QED
    BY <2>3, <2>4 DEF DeliveredInOrder, StreamIsWritten
<1>8. CASE Restart
  <2>1. Init'
    BY <1>8 DEF Restart, Init
  <2>2. IInv'
    BY <2>1, InitialInvariant, PTL
  <2> QED
    BY <2>2 DEF IInv
<1> QED
  BY <1>4, <1>5, <1>6, <1>7, <1>8 DEF Next, Request

LEMMA AccountStep == IInv /\ [Next]_vars => EveryPacketAccounted'
<1> SUFFICES ASSUME IInv, [Next]_vars
             PROVE  EveryPacketAccounted'
  OBVIOUS
<1>1. TypeOK /\ EveryPacketAccounted /\ Stream \in Seq(Packets) /\ written \in Nat
  BY StreamTyped DEF IInv, TypeOK
<1>2. CASE RxWrite
  <2>1. /\ written' = written + 1 /\ written + 1 \in Packets
        /\ UNCHANGED <<reported, lost, resp>>
    BY <1>1, <1>2, StreamOfWrite DEF RxWrite
  <2>2. OverflowPending => OverflowPending'
    BY <1>2, <2>1 DEF RxWrite, OverflowPending
  <2>3. /\ Range(Stream) \subseteq Range(Stream') /\ dropped \subseteq dropped'
        /\ written + 1 \in Range(Stream') \/ (written + 1 \in dropped' /\ overflow')
    <3>1. CASE Stream' = Append(Stream, written + 1) /\ dropped' = dropped
      BY <1>1, <2>1, <3>1, RangeAppend
    <3>2. CASE Stream' = Stream /\ dropped' = dropped \cup {written + 1} /\ overflow'
      BY <3>2
    <3> QED
      BY <1>1, <1>2, <3>1, <3>2, StreamOfWrite
  <2>4. \A p \in 1..written' : p \in 1..written \/ p = written + 1
    BY <1>1, <2>1
  <2> QED
    BY <1>1, <2>1, <2>2, <2>3, <2>4 DEF EveryPacketAccounted, OverflowPending
<1>3. CASE GetReceivedData
  <2>1. Stream' = Stream /\ UNCHANGED history
    BY <1>1, <1>3, StreamOfFetch DEF GetReceivedData
  <2>2. OverflowPending => OverflowPending'
    BY <1>3 DEF GetReceivedData, OverflowPending, NoResp
  <2> QED
    BY <1>1, <2>1, <2>2 DEF EveryPacketAccounted, history
<1>4. CASE GetStatus
  <2>1. Stream' = Stream /\ UNCHANGED history
    BY <1>1, <1>4, StreamOfOthers
  <2>2. OverflowPending => OverflowPending'
    BY <1>4 DEF GetStatus, OverflowPending, NoResp, Status
  <2> QED
    BY <1>1, <2>1, <2>2 DEF EveryPacketAccounted, history
<1>5. CASE SendData \/ Link \/ UNCHANGED vars
  <2>1. Stream' = Stream /\ UNCHANGED history
    BY <1>1, <1>5, StreamOfOthers
  <2>2. OverflowPending => OverflowPending'
    BY <1>5 DEF SendData, Link, ConnectionStored, ConnectionLost, ConnectionCleared,
                Subscribe, NotificationSent, vars, rxVars, OverflowPending, NoResp
  <2> QED
    BY <1>1, <2>1, <2>2 DEF EveryPacketAccounted, history
<1>6. CASE HostReads
  <2>1. Stream' = Stream /\ UNCHANGED <<written, dropped, lost, overflow>>
    BY <1>1, <1>6, StreamOfRead DEF HostReads, rxVars
  <2>2. CASE resp.kind = "Status" /\ resp.queueOverflow
    <3>1. reported' = dropped /\ reported \subseteq dropped
      BY <1>1, <1>6, <2>2 DEF HostReads, TypeOK
    <3> QED
      BY <1>1, <2>1, <3>1 DEF EveryPacketAccounted
  <2>3. CASE ~(resp.kind = "Status" /\ resp.queueOverflow)
    <3>1. reported' = reported
      BY <1>6, <2>3 DEF HostReads
    <3>2. OverflowPending => overflow'
      BY <2>1, <2>3 DEF OverflowPending
    <3> QED
      BY <1>1, <2>1, <3>1, <3>2 DEF EveryPacketAccounted, OverflowPending
  <2> QED
    BY <2>2, <2>3
<1>7. CASE HostAbandons
  <2>1. /\ UNCHANGED <<written, dropped, reported, overflow>>
        /\ Range(Stream) \subseteq Range(Stream') \cup lost'
    BY <1>1, <1>7, StreamOfAbandon DEF HostAbandons, rxVars
  <2>2. lost \subseteq lost'
    BY <1>7 DEF HostAbandons
  <2>3. OverflowPending => overflow' \/ dropped \subseteq lost'
    BY <1>7, <2>1 DEF OverflowPending, HostAbandons
  <2> QED
    BY <1>1, <2>1, <2>2, <2>3 DEF EveryPacketAccounted, OverflowPending
<1>8. CASE Restart
  <2>1. Init'
    BY <1>8 DEF Restart, Init
  <2>2. IInv'
    BY <2>1, InitialInvariant, PTL
  <2> QED
    BY <2>2 DEF IInv
<1> QED
  BY <1>2, <1>3, <1>4, <1>5, <1>6, <1>7, <1>8 DEF Next, Request

LEMMA Invariance == Spec => []IInv
<1>1. IInv /\ [Next]_vars => IInv'
  BY TypeStep, IrqStep, OrderStep, AccountStep DEF IInv
<1> QED
  BY <1>1, InitialInvariant, PTL DEF Spec

-----------------------------------------------------------------------------
(* A packet never waits in the channel while the pin tells the host that   *)
(* there is nothing to fetch.                                              *)
THEOREM PinCorrect == Spec => []IrqWhileData
BY Invariance, PTL DEF IInv

(* The host receives packets in the order they were written and none of    *)
(* them twice, however many are dropped or given up in between.            *)
THEOREM OrderCorrect == Spec => []DeliveredInOrder
BY Invariance, PTL DEF IInv

(* No packet is lost in silence, except with the very response that        *)
(* carries it or tells of it.                                              *)
THEOREM AccountCorrect == Spec => []EveryPacketAccounted
BY Invariance, PTL DEF IInv

-----------------------------------------------------------------------------
(* NusData and the queue that a host may rely on.                          *)

LEMMA NothingInFlight == TypeOK /\ resp.kind # "ReceivedData" => Transit = queue
<1>1. resp.kind # "ReceivedData" => InFlight = <<>>
  BY DEF InFlight
<1> QED
  BY <1>1, ConcatEmptySeq DEF Transit, TypeOK

LEMMA NothingThen == TypeOK' /\ (resp.kind # "ReceivedData")' => (Transit = queue)'
BY NothingInFlight, PTL

(* The mark for what is missing goes from the flag into the answer.        *)
LEMMA MissingIs ==
    /\ TypeOK => OverflowPending \in BOOLEAN
    /\ TypeOK /\ resp.kind # "Status" => OverflowPending = overflow
<1>1. TypeOK => OverflowPending \in BOOLEAN
  BY DEF OverflowPending
<1>2. TypeOK /\ resp.kind # "Status" => (OverflowPending <=> overflow)
  BY DEF OverflowPending
<1>3. TypeOK => overflow \in BOOLEAN
  BY DEF TypeOK
<1> QED
  BY <1>1, <1>2, <1>3

LEMMA MissingThen ==
    TypeOK' /\ (resp.kind # "Status")' => (OverflowPending = overflow)'
<1>1. TypeOK /\ resp.kind # "Status" => OverflowPending = overflow
  BY MissingIs
<1> QED
  BY <1>1, PTL

LEMMA PacketInFlight ==
    ASSUME TypeOK, resp.kind = "ReceivedData"
    PROVE  /\ Transit # <<>>
           /\ Head(Transit) = resp.packet /\ Tail(Transit) = queue
<1>1. InFlight = <<resp.packet>> /\ resp.packet \in Packets /\ queue \in Seq(Packets)
  BY ResponseKinds DEF InFlight, TypeOK
<1> DEFINE p == resp.packet
           all == <<p>> \o queue
<1> HIDE DEF p
<1>2. /\ all \in Seq(Packets) /\ Len(all) = 1 + Len(queue) /\ Len(queue) \in Nat
      /\ \A i \in 1..Len(all) : all[i] = IF i = 1 THEN p ELSE queue[i - 1]
  <2>1. <<p>> \in Seq(Packets) /\ Len(<<p>>) = 1 /\ <<p>>[1] = p
    BY <1>1 DEF p
  <2>2. /\ all \in Seq(Packets) /\ Len(all) = 1 + Len(queue)
        /\ \A i \in 1..(1 + Len(queue)) :
                all[i] = IF i <= 1 THEN <<p>>[i] ELSE queue[i - 1]
    BY <1>1, <2>1, ConcatProperties
  <2>3. Len(queue) \in Nat
    BY <1>1, LenProperties
  <2> QED
    BY <2>1, <2>2, <2>3
<1> HIDE DEF all
<1>3. all # <<>> /\ Head(all) = p
  BY <1>2
<1>4. Tail(all) = queue
  <2>1. /\ Tail(all) \in Seq(Packets) /\ Len(Tail(all)) = Len(queue)
        /\ \A i \in 1..Len(Tail(all)) : Tail(all)[i] = all[i + 1]
    BY <1>2, <1>3, HeadTailProperties
  <2>2. \A i \in 1..Len(queue) : Tail(all)[i] = queue[i]
    BY <1>2, <2>1
  <2> QED
    BY <1>1, <2>1, <2>2, SeqEqual
<1> QED
  BY <1>1, <1>3, <1>4 DEF Transit, all, p

LEMMA QueueStep == TypeOK /\ [Next]_vars => [Queue!Next]_(Queue!vars)
<1> SUFFICES ASSUME TypeOK, [Next]_vars
             PROVE  Queue!Next \/ UNCHANGED <<written, Transit, delivered, OverflowPending>>
  BY DEF Queue!vars
<1>1. TypeOK'
  BY TypeStep
<1>2. /\ OverflowPending \in BOOLEAN /\ overflow \in BOOLEAN
      /\ queue \in Seq(Packets) /\ Len(queue) <= BT_MAX_NUM_PKT /\ Len(queue) \in Nat
      /\ BT_MAX_NUM_PKT \in Nat
  BY MissingIs, LenProperties, CapacityAssumption DEF TypeOK, CapacityAssumption
<1>3. resp = NoResp => Transit = queue /\ OverflowPending = overflow
  BY NothingInFlight, MissingIs DEF NoResp
<1>4. resp' = NoResp => Transit' = queue' /\ OverflowPending' = overflow'
  BY <1>1, NothingThen, MissingThen DEF NoResp
<1>5. CASE RxWrite
  <2>1. /\ resp = NoResp /\ resp' = NoResp
        /\ written' = written + 1 /\ delivered' = delivered
    BY <1>5 DEF RxWrite
  <2>2. /\ Transit = queue /\ OverflowPending = overflow
        /\ Transit' = queue' /\ OverflowPending' = overflow'
    BY <1>3, <1>4, <2>1
  <2>3. \/ Len(queue) < BT_MAX_NUM_PKT /\ queue' = Append(queue, written + 1)
           /\ overflow' = overflow
        \/ Len(queue) >= BT_MAX_NUM_PKT /\ queue' = queue /\ overflow' = TRUE
    BY <1>5 DEF RxWrite
  <2>4. Queue!Put \/ Queue!Overflow
    BY <1>2, <2>1, <2>2, <2>3 DEF Queue!Put, Queue!Overflow
  <2> QED
    BY <2>4 DEF Queue!Next
<1>6. CASE GetReceivedData
  <2>1. /\ resp = NoResp /\ (resp.kind # "Status")'
        /\ UNCHANGED <<written, delivered, overflow>>
    BY <1>6 DEF GetReceivedData, history, Data, Plain
  <2>2. Transit' = queue
    <3>1. CASE queue # <<>>
      <4>1. InFlight' = <<Head(queue)>> /\ queue' = Tail(queue)
        BY <1>6, <3>1 DEF GetReceivedData, InFlight, Data
      <4>2. queue = <<Head(queue)>> \o Tail(queue)
        BY <1>2, <3>1, HeadThenTail
      <4> QED
        BY <4>1, <4>2 DEF Transit
    <3>2. CASE queue = <<>>
      <4>1. (resp.kind # "ReceivedData")' /\ queue' = queue
        BY <1>6, <3>2 DEF GetReceivedData, Plain
      <4> QED
        BY <1>1, <4>1, NothingThen
    <3> QED
      BY <3>1, <3>2
  <2>3. OverflowPending' = overflow'
    BY <1>1, <2>1, MissingThen
  <2> QED
    BY <1>3, <2>1, <2>2, <2>3
<1>7. CASE GetStatus
  <2>1. /\ resp = NoResp /\ resp' = Status(overflow) /\ ~overflow'
        /\ UNCHANGED <<queue, written, delivered>>
    BY <1>7 DEF GetStatus, history
  <2>2. OverflowPending' = overflow
    <3>1. OverflowPending' <=> overflow
      BY <1>7, <2>1 DEF OverflowPending, Status
    <3> QED
      BY <1>2, <3>1 DEF OverflowPending
  <2>3. (resp.kind # "ReceivedData")'
    BY <2>1 DEF Status
  <2> QED
    BY <1>1, <1>3, <2>1, <2>2, <2>3, NothingThen
<1>8. CASE SendData
  <2>1. /\ resp = NoResp /\ (resp.kind # "ReceivedData")' /\ (resp.kind # "Status")'
        /\ UNCHANGED <<queue, overflow, written, delivered>>
    BY <1>8 DEF SendData, rxVars, history, Plain
  <2> QED
    BY <1>1, <1>3, <2>1, NothingThen, MissingThen
<1>9. ASSUME HostReads \/ HostAbandons, resp.kind # "ReceivedData"
      PROVE  Queue!Answer \/ UNCHANGED <<written, Transit, delivered, OverflowPending>>
  <2>1. /\ resp' = NoResp /\ UNCHANGED <<queue, overflow, written, delivered>>
    BY <1>9 DEF HostReads, HostAbandons, rxVars
  <2>2. Transit' = Transit
    BY <1>4, <1>9, <2>1, NothingInFlight
  <2>3. OverflowPending' = overflow
    BY <1>4, <2>1
  <2>4. overflow => OverflowPending = TRUE
    BY <1>2 DEF OverflowPending
  <2> QED
    BY <1>2, <2>1, <2>2, <2>3, <2>4 DEF Queue!Answer
<1>10. ASSUME HostReads \/ HostAbandons, resp.kind = "ReceivedData"
       PROVE  Queue!Deliver \/ Queue!GiveUp
  <2>1. /\ resp' = NoResp /\ UNCHANGED <<queue, overflow, written>>
        /\ delivered' = delivered \/ delivered' = Append(delivered, resp.packet)
    BY <1>10 DEF HostReads, HostAbandons, rxVars
  <2>2. /\ Transit # <<>> /\ resp.packet = Head(Transit)
        /\ Transit' = Tail(Transit)
    BY <1>4, <1>10, <2>1, PacketInFlight
  <2>3. OverflowPending' = OverflowPending
    BY <1>4, <1>10, <2>1, MissingIs
  <2> QED
    BY <2>1, <2>2, <2>3 DEF Queue!Deliver, Queue!GiveUp
<1>11. CASE Link \/ UNCHANGED vars
  <2>1. UNCHANGED <<resp, queue, overflow, written, delivered>>
    BY <1>11 DEF Link, ConnectionStored, ConnectionLost, ConnectionCleared, Subscribe,
                 NotificationSent, vars, rxVars, history
  <2> QED
    BY <2>1 DEF Transit, InFlight, OverflowPending
<1>12. CASE Restart
  <2>1. /\ resp' = NoResp /\ queue' = <<>> /\ overflow' = FALSE
        /\ written' = 0 /\ delivered' = <<>>
    BY <1>12 DEF Restart
  <2>2. Queue!Restart
    BY <1>4, <2>1 DEF Queue!Restart
  <2> QED
    BY <2>2 DEF Queue!Next
<1> QED
  BY <1>5, <1>6, <1>7, <1>8, <1>9, <1>10, <1>11, <1>12 DEF Next, Request, Queue!Next

(* The packets go the way PacketQueue allows: none is dropped while there  *)
(* is a place, none is dropped without a mark, and none leaves but at the  *)
(* front.  (That each does leave is the liveness TLC checks.)              *)
THEOREM FollowsQueue == Spec => Queue!Init /\ [][Queue!Next]_(Queue!vars)
<1>1. Init => Queue!Init
  <2> SUFFICES ASSUME Init
               PROVE  Queue!Init
    OBVIOUS
  <2>1. Transit = queue /\ OverflowPending = overflow
    BY TypeInit, NothingInFlight, MissingIs DEF Init, NoResp
  <2> QED
    BY <2>1 DEF Init, Queue!Init
<1>2. TypeOK /\ [Next]_vars => [Queue!Next]_(Queue!vars)
  BY QueueStep
<1> QED
  BY <1>1, <1>2, TypeCorrect, PTL DEF Spec
=============================================================================
