------------------------------ MODULE NusData -------------------------------
(***************************************************************************)
(* The data path of the Bluetooth application: the packets a central       *)
(* writes to the Nordic UART service (firmware/src/nus.rs), the channel    *)
(* they wait in, the overflow flag and the interrupt pin                   *)
(* (firmware/src/main.rs), and the requests by which the host fetches and  *)
(* sends data (firmware/src/comms.rs).                                     *)
(*                                                                         *)
(* The handler of a write runs in the task that dispatches SoftDevice      *)
(* events, the handler of a request in the main task, and both run to      *)
(* their end without an await that suspends.  While a response waits for   *)
(* the host the core does nothing else (blocking_write_from_ram), so that  *)
(* every firmware action has resp = NoResp as its guard.                   *)
(*                                                                         *)
(* Packets are numbered in the order the GATT server sees them.            *)
(***************************************************************************)
EXTENDS Integers, Sequences, SequencesExt

CONSTANTS
    BT_MAX_NUM_PKT,     \* capacity of BT_DATA_RX
    HvnTxQueueSize,     \* notifications the SoftDevice queues
    MaxPackets          \* bound on the packets written

ASSUME CapacityAssumption == BT_MAX_NUM_PKT \in Nat \ {0}
ASSUME HvnAssumption == HvnTxQueueSize \in Nat \ {0}
ASSUME PacketsAssumption == MaxPackets \in Nat

VARIABLES
    queue,       \* BT_DATA_RX
    overflow,    \* BT_DATA_RX_OVERFLOW
    irqLow,      \* IRQ_OUT_PIN is driven low: the host is asked to fetch
    resp,        \* the response the SPI peripheral holds for the host
    connection,  \* CONNECTION, as SendData and GetStatus see it
    subscribed,  \* SoftDevice: the central has enabled notifications
    hvnQueue,    \* SoftDevice: notifications not yet transmitted
    written,     \* history: packets the GATT server has seen
    delivered,   \* history: packets the host has read, in that order
    dropped,     \* history: packets that found the channel full
    reported,    \* history: those of them the host has been told of
    lost         \* history: packets a response the host gave up spoke of

rxVars   == <<queue, overflow, irqLow>>
linkVars == <<connection, subscribed, hvnQueue>>
history  == <<written, delivered, dropped, reported, lost>>
vars     == <<rxVars, resp, linkVars, history>>

Packets == 1..MaxPackets

NoResp == [kind |-> "none"]
Data(p) == [kind |-> "ReceivedData", packet |-> p]
Status(o) == [kind |-> "Status", queueOverflow |-> o]
Plain(k) == [kind |-> k]

-----------------------------------------------------------------------------
(* The pin starts high.                                                    *)
Init ==
    /\ queue = <<>>
    /\ overflow = FALSE
    /\ irqLow = FALSE
    /\ resp = NoResp
    /\ connection = "none"
    /\ subscribed = FALSE
    /\ hvnQueue = 0
    /\ written = 0
    /\ delivered = <<>>
    /\ dropped = {}
    /\ reported = {}
    /\ lost = {}

-----------------------------------------------------------------------------
(* Mutants: a packet is queued beyond the capacity; the flag follows every *)
(* packet; only an overflow moves the pin.                                 *)
RxWriteUnbounded ==
    /\ resp = NoResp
    /\ connection = "live"
    /\ written < MaxPackets
    /\ written' = written + 1
    /\ queue' = Append(queue, written + 1)
    /\ irqLow' = TRUE
    /\ UNCHANGED <<overflow, resp, linkVars, delivered, dropped, reported, lost>>

RxWriteClearsOverflow ==
    /\ resp = NoResp
    /\ connection = "live"
    /\ written < MaxPackets
    /\ written' = written + 1
    /\ overflow' = (Len(queue) >= BT_MAX_NUM_PKT)
    /\ \/ /\ ~overflow'
          /\ queue' = Append(queue, written + 1)
          /\ UNCHANGED dropped
       \/ /\ overflow'
          /\ dropped' = dropped \cup {written + 1}
          /\ UNCHANGED queue
    /\ irqLow' = TRUE
    /\ UNCHANGED <<resp, linkVars, delivered, reported, lost>>

RxWriteSilent ==
    /\ resp = NoResp
    /\ connection = "live"
    /\ written < MaxPackets
    /\ written' = written + 1
    /\ \/ /\ Len(queue) < BT_MAX_NUM_PKT
          /\ queue' = Append(queue, written + 1)
          /\ UNCHANGED <<overflow, dropped, irqLow>>
       \/ /\ Len(queue) >= BT_MAX_NUM_PKT
          /\ overflow' = TRUE
          /\ dropped' = dropped \cup {written + 1}
          /\ irqLow' = TRUE
          /\ UNCHANGED queue
    /\ UNCHANGED <<resp, linkVars, delivered, reported, lost>>

(* Nus::handle, RxWrite: the pin goes low whether or not the packet fits.  *)
RxWrite ==
    /\ resp = NoResp
    /\ connection = "live"
    /\ written < MaxPackets
    /\ written' = written + 1
    /\ \/ /\ Len(queue) < BT_MAX_NUM_PKT
          /\ queue' = Append(queue, written + 1)
          /\ UNCHANGED <<overflow, dropped>>
       \/ /\ Len(queue) >= BT_MAX_NUM_PKT
          /\ overflow' = TRUE
          /\ dropped' = dropped \cup {written + 1}
          /\ UNCHANGED queue
    /\ irqLow' = TRUE
    /\ UNCHANGED <<resp, linkVars, delivered, reported, lost>>

(* Mutants: every fetch raises the pin; the latest packet is fetched.      *)
GetReceivedDataRaisesPin ==
    /\ resp = NoResp
    /\ \/ /\ queue # <<>>
          /\ resp' = Data(Head(queue))
          /\ queue' = Tail(queue)
       \/ /\ queue = <<>>
          /\ resp' = Plain("NoReceivedData")
          /\ UNCHANGED queue
    /\ irqLow' = FALSE
    /\ UNCHANGED <<overflow, linkVars, history>>

GetReceivedDataLatest ==
    /\ resp = NoResp
    /\ \/ /\ queue # <<>>
          /\ resp' = Data(Last(queue))
          /\ queue' = Front(queue)
          /\ UNCHANGED irqLow
       \/ /\ queue = <<>>
          /\ resp' = Plain("NoReceivedData")
          /\ irqLow' = FALSE
          /\ UNCHANGED queue
    /\ UNCHANGED <<overflow, linkVars, history>>

(* GetReceivedData: the pin goes high only when the channel is found       *)
(* empty.                                                                  *)
GetReceivedData ==
    /\ resp = NoResp
    /\ \/ /\ queue # <<>>
          /\ resp' = Data(Head(queue))
          /\ queue' = Tail(queue)
          /\ UNCHANGED irqLow
       \/ /\ queue = <<>>
          /\ resp' = Plain("NoReceivedData")
          /\ irqLow' = FALSE
          /\ UNCHANGED queue
    /\ UNCHANGED <<overflow, linkVars, history>>

(* GetStatus takes the overflow flag.                                      *)
GetStatus ==
    /\ resp = NoResp
    /\ resp' = Status(overflow)
    /\ overflow' = FALSE
    /\ UNCHANGED <<queue, irqLow, linkVars, history>>

(* send_notify() fails on a stale connection, without a subscription and   *)
(* with a full queue.                                                      *)
CanNotify ==
    connection = "live" /\ subscribed /\ hvnQueue < HvnTxQueueSize

(* SendData: the answer is the same for all failures, and for no           *)
(* connection at all.                                                      *)
SendData ==
    /\ resp = NoResp
    /\ \/ /\ CanNotify
          /\ hvnQueue' = hvnQueue + 1
          /\ resp' = Plain("Sent")
       \/ /\ ~CanNotify
          /\ resp' = Plain("BufferFull")
          /\ UNCHANGED hvnQueue
    /\ UNCHANGED <<rxVars, connection, subscribed, history>>

-----------------------------------------------------------------------------
(* The host clocks the response out, or gives up on it: the peripheral     *)
(* ends the transfer either way, and its result is ignored.                *)
HostReads ==
    /\ resp # NoResp
    /\ resp' = NoResp
    /\ delivered' = IF resp.kind = "ReceivedData"
                    THEN Append(delivered, resp.packet) ELSE delivered
    /\ reported' = IF resp.kind = "Status" /\ resp.queueOverflow
                   THEN dropped ELSE reported
    /\ UNCHANGED <<rxVars, linkVars, written, dropped, lost>>

HostAbandons ==
    /\ resp # NoResp
    /\ resp' = NoResp
    /\ lost' = CASE resp.kind = "ReceivedData" -> lost \cup {resp.packet}
                 [] resp.kind = "Status" /\ resp.queueOverflow ->
                        lost \cup dropped
                 [] OTHER -> lost
    /\ UNCHANGED <<rxVars, linkVars, written, delivered, dropped, reported>>

-----------------------------------------------------------------------------
(* The link: what BleControl does with CONNECTION, seen from here, and     *)
(* what the SoftDevice does by itself.                                     *)
ConnectionStored ==
    /\ resp = NoResp
    /\ connection # "live"
    /\ connection' = "live"
    /\ subscribed' = FALSE
    /\ hvnQueue' = 0
    /\ UNCHANGED <<rxVars, resp, history>>

ConnectionLost ==
    /\ resp = NoResp
    /\ connection = "live"
    /\ connection' = "dead"
    /\ subscribed' = FALSE
    /\ hvnQueue' = 0
    /\ UNCHANGED <<rxVars, resp, history>>

ConnectionCleared ==
    /\ resp = NoResp
    /\ connection = "dead"
    /\ connection' = "none"
    /\ UNCHANGED <<rxVars, resp, subscribed, hvnQueue, history>>

Subscribe ==
    /\ connection = "live"
    /\ subscribed' = ~subscribed
    /\ UNCHANGED <<rxVars, resp, connection, hvnQueue, history>>

NotificationSent ==
    /\ hvnQueue > 0
    /\ hvnQueue' = hvnQueue - 1
    /\ UNCHANGED <<rxVars, resp, connection, subscribed, history>>

-----------------------------------------------------------------------------
(* Reset, or a power cycle: what was queued is gone, and the host begins a *)
(* new count.                                                              *)
Restart ==
    /\ resp = NoResp
    /\ queue' = <<>>
    /\ overflow' = FALSE
    /\ irqLow' = FALSE
    /\ connection' = "none"
    /\ subscribed' = FALSE
    /\ hvnQueue' = 0
    /\ written' = 0
    /\ delivered' = <<>>
    /\ dropped' = {}
    /\ reported' = {}
    /\ lost' = {}
    /\ UNCHANGED resp

Request == GetReceivedData \/ GetStatus \/ SendData

Link ==
    \/ ConnectionStored \/ ConnectionLost \/ ConnectionCleared
    \/ Subscribe \/ NotificationSent

Next ==
    \/ RxWrite
    \/ Request
    \/ HostReads
    \/ HostAbandons
    \/ Link
    \/ Restart

Spec == Init /\ [][Next]_vars

(* A host that answers the interrupt pin: while it is low, it asks for     *)
(* data, again and again, and ends every transfer.                         *)
FetchWhileLow == irqLow /\ GetReceivedData

FairSpec == Spec /\ SF_vars(FetchWhileLow) /\ WF_vars(HostReads)

-----------------------------------------------------------------------------
(* Every variable has its type, and the queues keep within their capacity. *)
TypeOK ==
    /\ queue \in Seq(Packets)
    /\ Len(queue) <= BT_MAX_NUM_PKT
    /\ overflow \in BOOLEAN
    /\ irqLow \in BOOLEAN
    /\ resp \in {NoResp}
                \cup {Data(p) : p \in Packets}
                \cup {Status(o) : o \in BOOLEAN}
                \cup {Plain(k) : k \in {"NoReceivedData", "Sent", "BufferFull"}}
    /\ connection \in {"none", "live", "dead"}
    /\ subscribed \in BOOLEAN
    /\ hvnQueue \in 0..HvnTxQueueSize
    /\ written \in 0..MaxPackets
    /\ delivered \in Seq(Packets)
    /\ dropped \subseteq Packets
    /\ reported \subseteq dropped
    /\ lost \subseteq Packets

(* Data that waits is data the host is asked to fetch: no interleaving of  *)
(* a write with the request that finds the channel empty leaves the pin    *)
(* high over a packet.                                                     *)
IrqWhileData == queue # <<>> => irqLow

InFlight == IF resp.kind = "ReceivedData" THEN <<resp.packet>> ELSE <<>>

(* What the host has, is reading and will read, in that order.             *)
Stream == delivered \o InFlight \o queue

Increasing(s) == \A i, j \in DOMAIN s : i < j => s[i] < s[j]

(* The host receives the packets in the order they were written, none of   *)
(* them twice, whatever was dropped between them.                          *)
DeliveredInOrder == Increasing(Stream)

OverflowPending ==
    overflow \/ (resp.kind = "Status" /\ resp.queueOverflow)

(* Every packet the GATT server has seen is on its way to the host, or the *)
(* host has been told that packets were lost since, or will be by the next *)
(* status it asks for.  The one way to lose a packet in silence is to give *)
(* up the very response that carries it, or that tells of it: the packet   *)
(* and the flag are taken before it is read.                               *)
EveryPacketAccounted ==
    \A p \in 1..written :
        \/ p \in Range(Stream)
        \/ p \in reported
        \/ p \in dropped /\ OverflowPending
        \/ p \in lost

(* A host that answers the pin fetches every packet that is queued.        *)
QueuedIsFetched ==
    \A p \in Packets : p \in Range(queue) ~> p \notin Range(queue)

Transit == InFlight \o queue

(* What the host is promised about the packets (PacketQueue): a queue of   *)
(* the channel's capacity, that drops only while it is full, marks it, and *)
(* loses a packet else only at its front, with an answer that is given up. *)
(* A packet under way to the host still has its place in it.               *)
Queue == INSTANCE PacketQueue WITH
    Capacity <- BT_MAX_NUM_PKT,
    sent     <- written,
    queue    <- Transit,
    received <- delivered,
    missing  <- OverflowPending

QueueSpec == Queue!Spec
=============================================================================
