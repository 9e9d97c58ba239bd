----------------------------- MODULE BleControl -----------------------------
(***************************************************************************)
(* The radio control of the Bluetooth application: the host protocol       *)
(* handler (firmware/src/comms.rs), the Bluetooth loop                     *)
(* (firmware/src/server.rs) and the statics they share                     *)
(* (firmware/src/main.rs), on top of the SoftDevice.                       *)
(*                                                                         *)
(* One core runs everything.  The embassy executor polls two tasks, the    *)
(* one that dispatches SoftDevice events and the main one; the main task   *)
(* is select(comms, ble), and ble is select(inner, check_stopped).  `turn' *)
(* says which of these futures is being polled, and a future runs from one *)
(* await point to the next in a single step.  The SoftDevice itself        *)
(* preempts all of them, so that what happens on the air may happen        *)
(* between any two steps.                                                  *)
(*                                                                         *)
(* The data path (SendData, GetReceivedData, notifications, the interrupt  *)
(* pin) is the subject of NusData.                                         *)
(***************************************************************************)
EXTENDS Integers, Sequences

CONSTANTS
    Names,        \* device names the host may set
    DefaultName,  \* the name main() stores at start-up
    ChannelMasks, \* arguments of DisableChannels
    Powers,       \* arguments of SetTxPower, in dBm
    MaxEvents     \* bound on the SoftDevice events waiting to be dispatched

(* The bits of the byte a mask travels in, byte 4 of the SoftDevice's      *)
(* channel_mask; AdvChan names the last three and decodes with any.        *)
MaskBits == 32..39

(* AdvChan::all(): the channels that are advertised on.                    *)
AllChannels == {37, 38, 39}

TxPowerLevels == {-40, -20, -16, -12, -8, -4, 0, 3, 4}

ASSUME NamesAssumption == DefaultName \in Names
ASSUME ChannelsAssumption ==
    /\ ChannelMasks \subseteq SUBSET MaskBits
    /\ {} \in ChannelMasks
ASSUME PowersAssumption == Powers \subseteq TxPowerLevels /\ 0 \in Powers
ASSUME MaxEventsAssumption == MaxEvents \in Nat

VARIABLES
    turn,         \* the future being polled
    btEnable,     \* BT_ENABLE: the value signalled and not yet taken
    btStateCopy,  \* BT_STATE_COPY
    btAdvChanged, \* BT_ADV_CHANGED: signalled and not yet taken
    cfg,          \* DEVICE_NAME, BT_ADV_CHAN and TX_PWR_VALUE
    ble,          \* the await point run_bluetooth is suspended at
    advResult,    \* the connection the advertise future has been handed
    connection,   \* CONNECTION
    resp,         \* the response the SPI peripheral holds for the host
    advCfg,       \* SoftDevice: the settings advertising was started with
    sdAdv,        \* SoftDevice: advertising
    link,         \* SoftDevice: the one link it may hold
    events        \* SoftDevice: events not yet dispatched

hostVars  == <<btEnable, btStateCopy, btAdvChanged, cfg>>
bleVars   == <<ble, advResult, connection>>
sdVars    == <<advCfg, sdAdv, link, events>>
vars      == <<turn, hostVars, bleVars, resp, sdVars>>

None == "none"
True == "true"    \* the values of BT_ENABLE, beside None
False == "false"

(* What main() and the initial values of the statics leave in them.        *)
InitialSettings == [name |-> DefaultName, chan |-> {}, power |-> 0]

(* AdvChan::all() itself is never stored.  A mask that disables all three  *)
(* channels and sets another bit of the byte is.                           *)
AdvSettings ==
    [name : Names, chan : ChannelMasks \ {AllChannels}, power : Powers]

Responses ==
    {"AckEnable", "AckDisable", "AckDisableChannels", "NackDisableChannels",
     "AckTxPower", "AckSetDeviceName", "AckDisconnect",
     "Connected", "WaitingForConnection", "Disabled",       \* Status
     "StateEnabled", "StateDisabled",                       \* AckState
     "InappropriateEnabled", "InappropriateDisabled",  \* InappropriateMessage
     "Answer"}          \* an answer that depends on nothing modelled here

-----------------------------------------------------------------------------
Init ==
    /\ turn = "exec"
    /\ btEnable = None
    /\ btStateCopy = FALSE
    /\ btAdvChanged = FALSE
    /\ cfg = InitialSettings
    /\ ble = "waitEnable"
    /\ advResult = None
    /\ connection = None
    /\ resp = None
    /\ advCfg = InitialSettings
    /\ sdAdv = FALSE
    /\ link = None
    /\ events = <<>>

(* initialize_sd(): one link, one advertising set, and neither in use.     *)
InitializeSd ==
    /\ sdAdv' = FALSE
    /\ link' = None
    /\ events' = <<>>

(* sys_reset(), or a power cycle: every static and the SoftDevice start    *)
(* anew.                                                                   *)
Restart ==
    /\ turn' = "exec"
    /\ btEnable' = None
    /\ btStateCopy' = FALSE
    /\ btAdvChanged' = FALSE
    /\ cfg' = InitialSettings
    /\ ble' = "waitEnable"
    /\ advResult' = None
    /\ connection' = None
    /\ resp' = None
    /\ advCfg' = InitialSettings
    /\ InitializeSd

-----------------------------------------------------------------------------
(* The executor: the main task may be polled whether or not events wait,   *)
(* and the SoftDevice task once its interrupt has woken it.                *)

PollMain ==
    /\ turn = "exec"
    /\ turn' = "comms"
    /\ UNCHANGED <<hostVars, bleVars, resp, sdVars>>

PollSoftdevice ==
    /\ turn = "exec"
    /\ events # <<>>
    /\ turn' = "softdevice"
    /\ UNCHANGED <<hostVars, bleVars, resp, sdVars>>

-----------------------------------------------------------------------------
(* softdevice_task: dispatch events until none is left.                    *)

(* A connected event goes to the advertise future that waits for one.      *)
(* With none waiting the library drops the connection, and dropping the    *)
(* last handle of a live connection disconnects it.                        *)
DispatchConnected ==
    IF ble = "advertising" /\ advResult = None
    THEN /\ advResult' = "live"
         /\ UNCHANGED link
    ELSE /\ link' = IF link = "up" THEN "closing" ELSE link
         /\ UNCHANGED advResult

(* A disconnected event makes every handle of the connection stale.        *)
MarkDead(handle) == IF handle = "live" THEN "dead" ELSE handle

Dispatch ==
    /\ turn = "softdevice"
    /\ events # <<>>
    /\ events' = Tail(events)
    /\ \/ /\ Head(events) = "connected"
          /\ DispatchConnected
          /\ UNCHANGED connection
       \/ /\ Head(events) = "disconnected"
          /\ advResult' = MarkDead(advResult)
          /\ connection' = MarkDead(connection)
          /\ UNCHANGED link
    /\ UNCHANGED <<turn, hostVars, ble, resp, advCfg, sdAdv>>

DispatchDone ==
    /\ turn = "softdevice"
    /\ events = <<>>
    /\ turn' = "exec"
    /\ UNCHANGED <<hostVars, bleVars, resp, sdVars>>

-----------------------------------------------------------------------------
(* comms_task: one request, its handler, and the response.                 *)

Respond(r) ==
    /\ turn = "comms"
    /\ turn' = "respond"
    /\ resp' = r

(* connection.disconnect() on the stored connection; the error of a stale  *)
(* handle is ignored.                                                      *)
DisconnectStored ==
    link' = IF connection = "live" /\ link = "up" THEN "closing" ELSE link

(* Mutant: an Enable that finds a connection stored skips the signal.      *)
HandleEnableSkipsSignal ==
    /\ Respond("AckEnable")
    /\ btEnable' = IF connection = None THEN True ELSE btEnable
    /\ btStateCopy' = TRUE
    /\ UNCHANGED <<btAdvChanged, cfg, bleVars, sdVars>>

HandleEnable ==
    /\ Respond("AckEnable")
    /\ btEnable' = True
    /\ btStateCopy' = TRUE
    /\ UNCHANGED <<btAdvChanged, cfg, bleVars, sdVars>>

HandleDisable ==
    /\ Respond("AckDisable")
    /\ DisconnectStored
    /\ btEnable' = False
    /\ btStateCopy' = FALSE
    /\ UNCHANGED <<btAdvChanged, cfg, bleVars, advCfg, sdAdv, events>>

(* Mutant: the channels left enabled are stored, and not the disabled.     *)
HandleDisableChannelsInverted(chan) ==
    /\ chan # AllChannels
    /\ Respond("AckDisableChannels")
    /\ cfg' = [cfg EXCEPT !.chan = AllChannels \ chan]
    /\ btAdvChanged' = TRUE
    /\ UNCHANGED <<btEnable, btStateCopy, bleVars, sdVars>>

(* The mask is compared with AdvChan::all() as a whole.                    *)
HandleDisableChannels(chan) ==
    /\ \/ /\ chan = AllChannels
          /\ Respond("NackDisableChannels")
          /\ UNCHANGED <<cfg, btAdvChanged>>
       \/ /\ chan # AllChannels
          /\ Respond("AckDisableChannels")
          /\ cfg' = [cfg EXCEPT !.chan = chan]
          /\ btAdvChanged' = TRUE
    /\ UNCHANGED <<btEnable, btStateCopy, bleVars, sdVars>>

(* Mutant: the power is stored and the change not signalled.               *)
HandleSetTxPowerUnsignalled(power) ==
    /\ Respond("AckTxPower")
    /\ cfg' = [cfg EXCEPT !.power = power]
    /\ UNCHANGED <<btEnable, btStateCopy, btAdvChanged, bleVars, sdVars>>

HandleSetTxPower(power) ==
    /\ Respond("AckTxPower")
    /\ cfg' = [cfg EXCEPT !.power = power]
    /\ btAdvChanged' = TRUE
    /\ UNCHANGED <<btEnable, btStateCopy, bleVars, sdVars>>

HandleSetDeviceName(name) ==
    /\ Respond("AckSetDeviceName")
    /\ cfg' = [cfg EXCEPT !.name = name]
    /\ btAdvChanged' = TRUE
    /\ UNCHANGED <<btEnable, btStateCopy, bleVars, sdVars>>

(* Mutant: Disconnect takes the connection out of CONNECTION.              *)
HandleDisconnectTakes ==
    /\ Respond("AckDisconnect")
    /\ DisconnectStored
    /\ connection' = None
    /\ UNCHANGED <<hostVars, ble, advResult, advCfg, sdAdv, events>>

HandleDisconnect ==
    /\ Respond("AckDisconnect")
    /\ DisconnectStored
    /\ UNCHANGED <<hostVars, bleVars, advCfg, sdAdv, events>>

HandleGetStatus ==
    /\ Respond(CASE connection # None -> "Connected"
                 [] connection = None /\ btStateCopy -> "WaitingForConnection"
                 [] OTHER -> "Disabled")
    /\ UNCHANGED <<hostVars, bleVars, sdVars>>

(* get_state()                                                             *)
HandleGetState ==
    /\ Respond(IF btStateCopy THEN "StateEnabled" ELSE "StateDisabled")
    /\ UNCHANGED <<hostVars, bleVars, sdVars>>

(* A message that is no request of the application.                        *)
HandleInappropriate ==
    /\ Respond(IF btStateCopy THEN "InappropriateEnabled"
               ELSE "InappropriateDisabled")
    /\ UNCHANGED <<hostVars, bleVars, sdVars>>

(* Versions, addresses, Echo, a challenge, bytes that do not decode:       *)
(* answered from constants.                                                *)
HandleOther ==
    /\ Respond("Answer")
    /\ UNCHANGED <<hostVars, bleVars, sdVars>>

(* sys_reset() is called before any response is written.                   *)
HandleReset ==
    /\ turn = "comms"
    /\ Restart

(* spi.read() is pending: select() goes on to poll ble.                    *)
CommsPending ==
    /\ turn = "comms"
    /\ turn' = "inner"
    /\ UNCHANGED <<hostVars, bleVars, resp, sdVars>>

(* blocking_write_from_ram() returns when the host has clocked the         *)
(* response out; the core does nothing else until then.  The next read is  *)
(* pending when it is first polled, so that ble is polled next.            *)
HostReads ==
    /\ turn = "respond"
    /\ turn' = "inner"
    /\ resp' = None
    /\ UNCHANGED <<hostVars, bleVars, sdVars>>

HandleRequest ==
    \/ HandleEnable
    \/ HandleDisable
    \/ \E chan \in ChannelMasks : HandleDisableChannels(chan)
    \/ \E power \in Powers : HandleSetTxPower(power)
    \/ \E name \in Names : HandleSetDeviceName(name)
    \/ HandleDisconnect
    \/ HandleGetStatus
    \/ HandleGetState
    \/ HandleInappropriate
    \/ HandleOther
    \/ HandleReset

-----------------------------------------------------------------------------
(* run_bluetooth_inner                                                     *)

(* The match on TX_PWR_VALUE.                                              *)
RadioPower(v) == IF v \in TxPowerLevels \ {0} THEN v ELSE 0

(* The SoftDevice refuses a connectable advertiser while it holds a link   *)
(* (its connection count is 1) and one without a channel; a mask with bits *)
(* other than those of the three channels it may refuse or not.            *)
Startable == link = None /\ ~(AllChannels \subseteq cfg.chan)

Refusable == link # None \/ ~(cfg.chan \subseteq AllChannels)

(* The head of the loop, up to the first poll of the advertise future: the *)
(* change flag is reset before the settings are read.  The result of       *)
(* starting the advertiser is unwrapped.                                   *)
Advertise ==
    /\ ble' = "advertising"
    /\ advResult' = None
    /\ btAdvChanged' = FALSE
    /\ advCfg' = [name  |-> cfg.name,
                  chan  |-> cfg.chan,
                  power |-> RadioPower(cfg.power)]
    /\ \/ /\ Startable
          /\ sdAdv' = TRUE
          /\ turn' = "stop"
       \/ /\ Refusable
          /\ sdAdv' = FALSE
          /\ turn' = "halted"

(* BT_ENABLE.wait() in run_bluetooth: TRUE starts the inner future, FALSE  *)
(* is dropped.                                                             *)
InnerStart ==
    /\ turn = "inner"
    /\ ble = "waitEnable"
    /\ btEnable = True
    /\ btEnable' = None
    /\ Advertise
    /\ UNCHANGED <<btStateCopy, cfg, connection, resp, link, events>>

(* Mutant: the loop around BT_ENABLE.wait() drops TRUE as well.            *)
InnerStayStoppedDropsEnable ==
    /\ turn = "inner"
    /\ ble = "waitEnable"
    /\ btEnable' = None
    /\ turn' = "exec"
    /\ UNCHANGED <<btStateCopy, btAdvChanged, cfg, bleVars, resp, sdVars>>

InnerStayStopped ==
    /\ turn = "inner"
    /\ ble = "waitEnable"
    /\ btEnable # True
    /\ btEnable' = None
    /\ turn' = "exec"
    /\ UNCHANGED <<btStateCopy, btAdvChanged, cfg, bleVars, resp, sdVars>>

(* The advertise future is polled before BT_ADV_CHANGED, so that a         *)
(* connection wins over a change.  It is stored, and the GATT server runs  *)
(* as long as it lives.                                                    *)
InnerConnected ==
    /\ turn = "inner"
    /\ ble = "advertising"
    /\ advResult = "live"
    /\ connection' = advResult
    /\ advResult' = None
    /\ sdAdv' = FALSE
    /\ ble' = "gatt"
    /\ turn' = "stop"
    /\ UNCHANGED <<hostVars, resp, advCfg, link, events>>

(* A connection that is gone before it is stored: the GATT server returns  *)
(* at once, CONNECTION is cleared and advertising starts again.            *)
InnerConnectedAndGone ==
    /\ turn = "inner"
    /\ ble = "advertising"
    /\ advResult = "dead"
    /\ connection' = None
    /\ Advertise
    /\ UNCHANGED <<btEnable, btStateCopy, cfg, resp, link, events>>

InnerAdvChanged ==
    /\ turn = "inner"
    /\ ble = "advertising"
    /\ advResult = None
    /\ btAdvChanged
    /\ Advertise
    /\ UNCHANGED <<btEnable, btStateCopy, cfg, connection, resp, link, events>>

(* Mutant: the loop is not continued when the GATT server returns.         *)
InnerDisconnectedStays ==
    /\ turn = "inner"
    /\ ble = "gatt"
    /\ connection = "dead"
    /\ connection' = None
    /\ turn' = "stop"
    /\ UNCHANGED <<hostVars, ble, advResult, resp, sdVars>>

(* gatt_server::run returns on a disconnection.                            *)
InnerDisconnected ==
    /\ turn = "inner"
    /\ ble = "gatt"
    /\ connection = "dead"
    /\ connection' = None
    /\ Advertise
    /\ UNCHANGED <<btEnable, btStateCopy, cfg, resp, link, events>>

(* Mutant: only the advertise future is polled.                            *)
InnerPendingIgnoresChange ==
    /\ turn = "inner"
    /\ \/ ble = "advertising" /\ advResult = None
       \/ ble = "gatt" /\ connection # "dead"
    /\ turn' = "stop"
    /\ UNCHANGED <<hostVars, bleVars, resp, sdVars>>

InnerPending ==
    /\ turn = "inner"
    /\ \/ ble = "advertising" /\ advResult = None /\ ~btAdvChanged
       \/ ble = "gatt" /\ connection # "dead"
    /\ turn' = "stop"
    /\ UNCHANGED <<hostVars, bleVars, resp, sdVars>>

(* Mutants: dropping the advertise future leaves the advertiser on; the    *)
(* stored connection is forgotten and not disconnected.                    *)
StopInnerKeepsAdvertising ==
    /\ turn = "stop"
    /\ btEnable = False
    /\ btEnable' = None
    /\ ble' = "waitEnable"
    /\ advResult' = None
    /\ turn' = "exec"
    /\ UNCHANGED <<btStateCopy, btAdvChanged, cfg, connection, resp, sdVars>>

StopInnerForgetsConnection ==
    /\ turn = "stop"
    /\ btEnable = False
    /\ btEnable' = None
    /\ ble' = "waitEnable"
    /\ advResult' = None
    /\ connection' = None
    /\ sdAdv' = FALSE
    /\ turn' = "exec"
    /\ UNCHANGED <<btStateCopy, btAdvChanged, cfg, resp, advCfg, link, events>>

(* check_stopped: FALSE ends the select, which drops the inner future and  *)
(* the advertise future in it; CONNECTION keeps what it holds.             *)
StopInner ==
    /\ turn = "stop"
    /\ btEnable = False
    /\ btEnable' = None
    /\ ble' = "waitEnable"
    /\ advResult' = None
    /\ sdAdv' = FALSE
    /\ turn' = "exec"
    /\ UNCHANGED <<btStateCopy, btAdvChanged, cfg, connection, resp, advCfg,
                   link, events>>

KeepInner ==
    /\ turn = "stop"
    /\ btEnable # False
    /\ btEnable' = None
    /\ turn' = "exec"
    /\ UNCHANGED <<btStateCopy, btAdvChanged, cfg, bleVars, resp, sdVars>>

-----------------------------------------------------------------------------
(* The air: a central connects to the advertiser (which then stops), the   *)
(* peer leaves or is lost, a requested disconnection completes.            *)

AirConnect ==
    /\ sdAdv
    /\ link = None
    /\ Len(events) + 2 <= MaxEvents
    /\ sdAdv' = FALSE
    /\ link' = "up"
    /\ events' = Append(events, "connected")
    /\ UNCHANGED <<turn, hostVars, bleVars, resp, advCfg>>

AirDisconnect ==
    /\ link \in {"up", "closing"}
    /\ link' = None
    /\ events' = Append(events, "disconnected")
    /\ UNCHANGED <<turn, hostVars, bleVars, resp, advCfg, sdAdv>>

PowerCycle == Restart

-----------------------------------------------------------------------------
Comms == HandleRequest \/ CommsPending \/ HostReads

Inner ==
    \/ InnerStart \/ InnerStayStopped \/ InnerConnected
    \/ InnerConnectedAndGone \/ InnerAdvChanged \/ InnerDisconnected
    \/ InnerPending

CheckStopped == StopInner \/ KeepInner

MainTask == PollMain \/ Comms \/ Inner \/ CheckStopped

SoftdeviceTask == PollSoftdevice \/ Dispatch \/ DispatchDone

Next ==
    \/ MainTask
    \/ SoftdeviceTask
    \/ AirConnect
    \/ AirDisconnect
    \/ PowerCycle

Spec == Init /\ [][Next]_vars

(* The executor polls a task that has been woken: the main task is woken   *)
(* by every signal and every SPI transfer, the SoftDevice task by every    *)
(* event, and a pass of the executor serves both.  The host reads the      *)
(* response it asked for.  A disconnection that was requested completes,   *)
(* at the latest when the supervision timeout expires.                     *)
Fairness ==
    /\ WF_vars(MainTask)
    /\ SF_vars(PollSoftdevice)
    /\ WF_vars(Dispatch \/ DispatchDone)
    /\ WF_vars(link = "closing" /\ AirDisconnect)

FairSpec == Spec /\ Fairness

-----------------------------------------------------------------------------
(* Every variable has its type: in particular, the settings are a name and *)
(* a power the host may send, and a mask that DisableChannels accepts.     *)
TypeOK ==
    /\ turn \in {"exec", "softdevice", "comms", "respond", "inner", "stop",
                 "halted"}
    /\ btEnable \in {None, True, False}
    /\ btStateCopy \in BOOLEAN
    /\ btAdvChanged \in BOOLEAN
    /\ cfg \in AdvSettings
    /\ ble \in {"waitEnable", "advertising", "gatt"}
    /\ advResult \in {None, "live", "dead"}
    /\ connection \in {None, "live", "dead"}
    /\ resp \in Responses \cup {None}
    /\ advCfg \in AdvSettings
    /\ sdAdv \in BOOLEAN
    /\ link \in {None, "up", "closing"}
    /\ events \in Seq({"connected", "disconnected"})

(* BT_STATE_COPY is a second record of what BT_ENABLE carried, kept "only  *)
(* to report the current state" (comms.rs:18).  The two never disagree: a  *)
(* signal that is pending carries the value of the copy, and once it is    *)
(* taken the Bluetooth loop has done what it says, however Enable and      *)
(* Disable requests overwrite each other before the loop runs.             *)
StateCopyAgrees ==
    /\ btEnable # None => (btEnable = True <=> btStateCopy)
    /\ btEnable = None => (btStateCopy <=> ble # "waitEnable")

(* The settings on the air are the ones last acknowledged to the host, or  *)
(* the restart that will put them there is signalled.                      *)
AdvertisesCurrentSettings ==
    ble = "advertising" /\ advCfg # cfg => btAdvChanged

(* The GATT server always finds the connection it is to serve: the branch  *)
(* "Connection disappeared" (server.rs:169) is never taken.                *)
GattHasConnection == ble = "gatt" => connection # None

(* The advertiser runs only while the Bluetooth loop is at its advertise   *)
(* future: neither a Disable nor a connection leaves it on.                *)
AdvertisingIsOwned == sdAdv => ble = "advertising" /\ link = None

(* A link the SoftDevice holds is within reach of the host: its event is   *)
(* still queued, it has been handed to the advertise future, it is stored  *)
(* in CONNECTION where Disconnect and Disable find it, or it is already    *)
(* being closed.                                                           *)
LinkIsReachable ==
    link = "up" => \/ \E i \in 1..Len(events) : events[i] = "connected"
                   \/ advResult = "live"
                   \/ connection = "live"

(* The safety of the radio control.                                        *)
Safety ==
    /\ StateCopyAgrees
    /\ AdvertisesCurrentSettings
    /\ GattHasConnection
    /\ AdvertisingIsOwned
    /\ LinkIsReachable

(* An enabled radio without a link does not go silent: after a connection  *)
(* is lost, a change of settings or a restart of the loop, it advertises   *)
(* again, unless the host disables it or the firmware has panicked.        *)
BecomesDiscoverable ==
    (btStateCopy /\ link = None)
        ~> (sdAdv \/ link # None \/ ~btStateCopy \/ turn = "halted")

(* A change of settings that was acknowledged while advertising reaches    *)
(* the air, or the advertising it was meant for ends.                      *)
SettingsReachTheAir ==
    (ble = "advertising" /\ advCfg # cfg)
        ~> (advCfg = cfg \/ ble # "advertising" \/ turn = "halted")

(* What the host is promised about the radio switch.                       *)
Switch == INSTANCE RadioSwitch WITH
    requested <- btStateCopy,
    active    <- ble # "waitEnable",
    failed    <- turn = "halted"

SwitchSpec == Switch!Spec

(* What the code does not keep; each is stated by a comment or an          *)
(* assertion of the repository, quoted in the README.                      *)

(* unwrap!(conn, "Advertise failed") (server.rs:129).                      *)
AdvertiseNeverFails == turn # "halted"

(* Disabled: "BLE radio is off" (host-protocol lib.rs:268), once the loop  *)
(* has stopped and a disconnection that was requested has completed.       *)
DisabledRadioIsOff ==
    turn = "exec" /\ ble = "waitEnable" /\ btEnable = None /\ events = <<>>
        => link # "up"
=============================================================================
