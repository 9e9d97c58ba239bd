--------------------------- MODULE BleControlProofs --------------------------
(***************************************************************************)
(* The safety of the radio control, for every set of names, channel masks  *)
(* and powers and every bound on the event queue.  Two facts strengthen    *)
(* the invariants of BleControl: the advertise future holds a connection   *)
(* only while the loop is suspended at it and has not been polled, and the *)
(* handles of a link go stale together.                                    *)
(***************************************************************************)
EXTENDS BleControl, SequenceTheorems, TLAPS

(* What the advertise future was handed, it still holds only at its await  *)
(* point, and never past the poll of the inner future; check_stopped is    *)
(* polled only beside an inner future.                                     *)
ResultIsAwaited ==
    /\ ble # "advertising" => advResult = None
    /\ turn = "stop" => advResult = None /\ ble # "waitEnable"

(* A disconnected event makes all handles stale at once.                   *)
HandlesDieTogether == advResult = "dead" => connection # "live"

(* A "connected" event that no "disconnected" event follows.               *)
PendingConnected ==
    \E i \in 1..Len(events) :
        /\ events[i] = "connected"
        /\ \A j \in (i + 1)..Len(events) : events[j] # "disconnected"

NoPendingDisconnected ==
    \A j \in 1..Len(events) : events[j] # "disconnected"

(* LinkIsReachable, made inductive: an event that is queued may make stale *)
(* only the handles of an earlier link.                                    *)
LinkHandle ==
    link = "up" => \/ PendingConnected
                   \/ /\ NoPendingDisconnected
                      /\ advResult = "live" \/ connection = "live"

Control ==
    /\ StateCopyAgrees
    /\ AdvertisesCurrentSettings
    /\ GattHasConnection
    /\ AdvertisingIsOwned
    /\ ResultIsAwaited
    /\ HandlesDieTogether

IInv == TypeOK /\ Control /\ LinkHandle

-----------------------------------------------------------------------------
(* The match on TX_PWR_VALUE loses no power level the protocol can carry.  *)
LEMMA RadioPowerExact ==
    \A v \in TxPowerLevels : RadioPower(v) = v
BY DEF RadioPower, TxPowerLevels

(* The settings a restarted advertiser uses are the stored ones.           *)
LEMMA AdvertiseUsesSettings ==
    ASSUME TypeOK, Advertise
    PROVE  advCfg' = cfg
<1>1. cfg.power \in TxPowerLevels
  BY PowersAssumption DEF PowersAssumption, TypeOK, AdvSettings
<1>2. advCfg' = [name |-> cfg.name, chan |-> cfg.chan, power |-> cfg.power]
  BY <1>1, RadioPowerExact DEF Advertise
<1> QED
  BY <1>2 DEF TypeOK, AdvSettings

-----------------------------------------------------------------------------
(* The settings main() starts with.                                        *)
LEMMA InitialSettingsTyped == InitialSettings \in AdvSettings
<1>1. DefaultName \in Names /\ {} \in ChannelMasks /\ 0 \in Powers
  BY NamesAssumption, ChannelsAssumption, PowersAssumption
     DEF NamesAssumption, ChannelsAssumption, PowersAssumption
<1>2. {} # AllChannels
  BY DEF AllChannels
<1> QED
  BY <1>1, <1>2 DEF AdvSettings, InitialSettings

LEMMA TypeInit == Init => TypeOK
BY InitialSettingsTyped, EmptySeq DEF Init, TypeOK, None, Responses

LEMMA TypeRestart == Restart => TypeOK'
BY InitialSettingsTyped, EmptySeq DEF Restart, InitializeSd, TypeOK, None, Responses

LEMMA TypeStep == TypeOK /\ [Next]_vars => TypeOK'
<1> SUFFICES ASSUME TypeOK, [Next]_vars
             PROVE  TypeOK'
  OBVIOUS
<1> USE DEF TypeOK, None, True, False, Responses
<1>1. CASE HandleRequest
  <2>1. CASE HandleEnable \/ HandleDisable \/ HandleDisconnect
             \/ HandleGetStatus \/ HandleGetState \/ HandleInappropriate \/ HandleOther
    BY <2>1 DEF HandleEnable, HandleDisable, HandleDisconnect,
                HandleGetStatus, HandleGetState, HandleInappropriate, HandleOther, Respond,
                DisconnectStored, hostVars, bleVars, sdVars
  <2>2. ASSUME NEW chan \in ChannelMasks, HandleDisableChannels(chan)
        PROVE  TypeOK'
    <3>1. cfg' \in AdvSettings
      <4>1. CASE UNCHANGED cfg
        BY <4>1
      <4>2. CASE chan # AllChannels /\ cfg' = [cfg EXCEPT !.chan = chan]
        BY <4>2 DEF AdvSettings
      <4> QED
        BY <2>2, <4>1, <4>2 DEF HandleDisableChannels
    <3> QED
      BY <2>2, <3>1, ZenonT(60) DEF HandleDisableChannels, Respond, bleVars, sdVars
  <2>3. ASSUME NEW power \in Powers, HandleSetTxPower(power)
        PROVE  TypeOK'
    BY <2>3 DEF HandleSetTxPower, Respond, AdvSettings, bleVars, sdVars
  <2>4. ASSUME NEW name \in Names, HandleSetDeviceName(name)
        PROVE  TypeOK'
    BY <2>4 DEF HandleSetDeviceName, Respond, AdvSettings, bleVars, sdVars
  <2>5. CASE HandleReset
    BY <2>5, TypeRestart DEF HandleReset
  <2> QED
    BY <1>1, <2>1, <2>2, <2>3, <2>4, <2>5 DEF HandleRequest
<1>2. CASE CommsPending \/ HostReads \/ PollMain
  BY <1>2 DEF CommsPending, HostReads, PollMain, hostVars, bleVars, sdVars
<1>3. CASE Inner
  <2>1. Advertise => advCfg' \in AdvSettings
    BY AdvertiseUsesSettings
  <2>2. CASE InnerStart \/ InnerConnectedAndGone \/ InnerAdvChanged
             \/ InnerDisconnected
    BY <2>1, <2>2 DEF InnerStart, InnerConnectedAndGone, InnerAdvChanged,
                      InnerDisconnected, Advertise
  <2>3. CASE InnerStayStopped \/ InnerConnected \/ InnerPending
    BY <2>3 DEF InnerStayStopped, InnerConnected, InnerPending,
                hostVars, bleVars, sdVars
  <2> QED
    BY <1>3, <2>2, <2>3 DEF Inner
<1>4. CASE CheckStopped
  BY <1>4 DEF CheckStopped, StopInner, KeepInner, bleVars, sdVars
<1>5. CASE SoftdeviceTask
  <2>1. CASE Dispatch
    <3>1. events' \in Seq({"connected", "disconnected"})
      BY <2>1, HeadTailProperties DEF Dispatch
    <3> QED
      BY <2>1, <3>1 DEF Dispatch, DispatchConnected, MarkDead, hostVars
  <2>2. CASE PollSoftdevice \/ DispatchDone
    BY <2>2 DEF PollSoftdevice, DispatchDone, hostVars, bleVars, sdVars
  <2> QED
    BY <1>5, <2>1, <2>2 DEF SoftdeviceTask
<1>6. CASE AirConnect \/ AirDisconnect
  BY <1>6, AppendProperties, ZenonT(60) DEF AirConnect, AirDisconnect, hostVars, bleVars
<1>7. CASE PowerCycle
  BY <1>7, TypeRestart DEF PowerCycle
<1>8. CASE UNCHANGED vars
  BY <1>8 DEF vars, hostVars, bleVars, sdVars
<1> QED
  BY <1>1, <1>2, <1>3, <1>4, <1>5, <1>6, <1>7, <1>8
     DEF Next, MainTask, Comms

(* Every variable keeps its type: BT_ENABLE carries one value, the event   *)
(* queue holds connections and disconnections, and the settings in force   *)
(* and on the air are a name and a power the host may send and a mask      *)
(* DisableChannels accepts.                                                *)
THEOREM TypeCorrect == Spec => []TypeOK
BY TypeInit, TypeStep, PTL DEF Spec

-----------------------------------------------------------------------------
LEMMA ControlInit == Init => Control
BY DEF Init, Control, StateCopyAgrees, AdvertisesCurrentSettings,
       GattHasConnection, AdvertisingIsOwned, ResultIsAwaited,
       HandlesDieTogether, None, True

LEMMA ControlRestart == Restart => Control'
BY DEF Restart, InitializeSd, Control, StateCopyAgrees, AdvertisesCurrentSettings,
       GattHasConnection, AdvertisingIsOwned, ResultIsAwaited,
       HandlesDieTogether, None, True

LEMMA ControlStep == TypeOK /\ Control /\ [Next]_vars => Control'
<1> SUFFICES ASSUME TypeOK, Control, [Next]_vars
             PROVE  Control'
  OBVIOUS
<1> USE DEF TypeOK, Control, StateCopyAgrees, AdvertisesCurrentSettings,
            GattHasConnection, AdvertisingIsOwned, ResultIsAwaited,
            HandlesDieTogether, None, True, False
<1>1. CASE HandleRequest
  <2>1. CASE HandleEnable \/ HandleDisable \/ HandleDisconnect
             \/ HandleGetStatus \/ HandleGetState \/ HandleInappropriate \/ HandleOther
    BY <2>1 DEF HandleEnable, HandleDisable, HandleDisconnect,
                HandleGetStatus, HandleGetState, HandleInappropriate, HandleOther, Respond,
                DisconnectStored, hostVars, bleVars, sdVars
  <2>2. ASSUME NEW chan \in ChannelMasks, HandleDisableChannels(chan)
        PROVE  Control'
    BY <2>2 DEF HandleDisableChannels, Respond, bleVars, sdVars
  <2>3. ASSUME NEW power \in Powers, HandleSetTxPower(power)
        PROVE  Control'
    BY <2>3 DEF HandleSetTxPower, Respond, bleVars, sdVars
  <2>4. ASSUME NEW name \in Names, HandleSetDeviceName(name)
        PROVE  Control'
    BY <2>4 DEF HandleSetDeviceName, Respond, bleVars, sdVars
  <2>5. CASE HandleReset
    BY <2>5, ControlRestart DEF HandleReset
  <2> QED
    BY <1>1, <2>1, <2>2, <2>3, <2>4, <2>5 DEF HandleRequest
<1>2. CASE CommsPending \/ HostReads \/ PollMain
  BY <1>2 DEF CommsPending, HostReads, PollMain, hostVars, bleVars, sdVars
<1>3. CASE Inner
  <2>1. Advertise => advCfg' = cfg
    BY AdvertiseUsesSettings
  <2>2. CASE InnerStart
    BY <2>1, <2>2 DEF InnerStart, Advertise, Startable
  <2>3. CASE InnerConnectedAndGone \/ InnerAdvChanged \/ InnerDisconnected
    BY <2>1, <2>3 DEF InnerConnectedAndGone, InnerAdvChanged,
                      InnerDisconnected, Advertise, Startable
  <2>4. CASE InnerStayStopped \/ InnerConnected \/ InnerPending
    BY <2>4 DEF InnerStayStopped, InnerConnected, InnerPending,
                hostVars, bleVars, sdVars
  <2> QED
    BY <1>3, <2>2, <2>3, <2>4 DEF Inner
<1>4. CASE CheckStopped
  <2>1. CASE StopInner
    <3>1. StateCopyAgrees'
      BY <2>1 DEF StopInner
    <3> QED
      BY <2>1, <3>1 DEF StopInner
  <2>2. CASE KeepInner
    <3>1. StateCopyAgrees'
      BY <2>2 DEF KeepInner, bleVars
    <3> QED
      BY <2>2, <3>1 DEF KeepInner, bleVars, sdVars
  <2> QED
    BY <1>4, <2>1, <2>2 DEF CheckStopped
<1>5. CASE SoftdeviceTask
  <2>1. CASE Dispatch
    <3>1. CASE Head(events) = "connected"
      BY <2>1, <3>1 DEF Dispatch, DispatchConnected, hostVars
    <3>2. CASE Head(events) = "disconnected"
      BY <2>1, <3>2 DEF Dispatch, MarkDead, hostVars
    <3> QED
      BY <2>1, <3>1, <3>2 DEF Dispatch
  <2>2. CASE PollSoftdevice \/ DispatchDone
    BY <2>2 DEF PollSoftdevice, DispatchDone, hostVars, bleVars, sdVars
  <2> QED
    BY <1>5, <2>1, <2>2 DEF SoftdeviceTask
<1>6. CASE AirConnect \/ AirDisconnect
  BY <1>6 DEF AirConnect, AirDisconnect, hostVars, bleVars
<1>7. CASE PowerCycle
  BY <1>7, ControlRestart DEF PowerCycle
<1>8. CASE UNCHANGED vars
  BY <1>8 DEF vars, hostVars, bleVars, sdVars
<1> QED
  BY <1>1, <1>2, <1>3, <1>4, <1>5, <1>6, <1>7, <1>8
     DEF Next, MainTask, Comms

-----------------------------------------------------------------------------
(* What the SoftDevice task and the air do to the queue of events.         *)
LEMMA AppendConnected ==
    ASSUME TypeOK, events' = Append(events, "connected")
    PROVE  PendingConnected'
<1>1. Len(events') = Len(events) + 1 /\ events'[Len(events')] = "connected"
  BY AppendProperties DEF TypeOK
<1>2. Len(events) \in Nat
  BY LenProperties DEF TypeOK
<1> QED
  BY <1>1, <1>2 DEF PendingConnected

LEMMA TailKeepsPending ==
    ASSUME TypeOK, events # <<>>, events' = Tail(events),
           PendingConnected, Head(events) = "disconnected"
    PROVE  PendingConnected'
<1>1. /\ Len(events) \in Nat
      /\ Len(events') = Len(events) - 1
      /\ \A i \in 1..Len(events') : events'[i] = events[i + 1]
  BY HeadTailProperties, LenProperties DEF TypeOK
<1>2. PICK i \in 1..Len(events) :
        /\ events[i] = "connected"
        /\ \A j \in (i + 1)..Len(events) : events[j] # "disconnected"
  BY DEF PendingConnected
<1>3. i # 1
  BY <1>2, HeadTailProperties DEF TypeOK
<1> DEFINE k == i - 1
<1>4. k \in 1..Len(events') /\ events'[k] = "connected"
  BY <1>1, <1>2, <1>3
<1>5. \A j \in (k + 1)..Len(events') : events'[j] # "disconnected"
  BY <1>1, <1>2, <1>3
<1> QED
  BY <1>4, <1>5 DEF PendingConnected

LEMMA TailAfterConnected ==
    ASSUME TypeOK, events # <<>>, events' = Tail(events),
           PendingConnected
    PROVE  PendingConnected' \/ NoPendingDisconnected'
<1>1. /\ Len(events) \in Nat
      /\ Len(events') = Len(events) - 1
      /\ \A i \in 1..Len(events') : events'[i] = events[i + 1]
  BY HeadTailProperties, LenProperties DEF TypeOK
<1>2. PICK i \in 1..Len(events) :
        /\ events[i] = "connected"
        /\ \A j \in (i + 1)..Len(events) : events[j] # "disconnected"
  BY DEF PendingConnected
<1>3. CASE i = 1
  <2>1. \A j \in 1..Len(events') : events'[j] # "disconnected"
    BY <1>1, <1>2, <1>3
  <2> QED
    BY <2>1 DEF NoPendingDisconnected
<1>4. CASE i # 1
  <2> DEFINE k == i - 1
  <2>1. k \in 1..Len(events') /\ events'[k] = "connected"
    BY <1>1, <1>2, <1>4
  <2>2. \A j \in (k + 1)..Len(events') : events'[j] # "disconnected"
    BY <1>1, <1>2, <1>4
  <2> QED
    BY <2>1, <2>2 DEF PendingConnected
<1> QED
  BY <1>3, <1>4

LEMMA TailWithoutDisconnected ==
    ASSUME TypeOK, events # <<>>, events' = Tail(events),
           NoPendingDisconnected
    PROVE  NoPendingDisconnected' /\ Head(events) # "disconnected"
<1>1. /\ Len(events) \in Nat \ {0}
      /\ Len(events') = Len(events) - 1
      /\ \A i \in 1..Len(events') : events'[i] = events[i + 1]
      /\ Head(events) = events[1]
  BY HeadTailProperties, LenProperties, EmptySeq DEF TypeOK
<1> QED
  BY <1>1 DEF NoPendingDisconnected

-----------------------------------------------------------------------------
(* A step that leaves the queue alone leaves both facts about it alone.    *)
LEMMA EventsUnchanged ==
    ASSUME UNCHANGED events
    PROVE  /\ PendingConnected => PendingConnected'
           /\ NoPendingDisconnected => NoPendingDisconnected'
BY DEF PendingConnected, NoPendingDisconnected

LEMMA LinkRestart == (Init => LinkHandle) /\ (Restart => LinkHandle')
BY DEF Init, Restart, InitializeSd, LinkHandle, None

LEMMA LinkStep == TypeOK /\ Control /\ LinkHandle /\ [Next]_vars => LinkHandle'
<1> SUFFICES ASSUME TypeOK, Control, LinkHandle, [Next]_vars
             PROVE  LinkHandle'
  OBVIOUS
<1> USE DEF LinkHandle, None
<1>1. CASE Dispatch
  <2> SUFFICES ASSUME link' = "up"
               PROVE  \/ PendingConnected'
                      \/ /\ NoPendingDisconnected'
                         /\ advResult' = "live" \/ connection' = "live"
    OBVIOUS
  <2>1. link = "up"
    BY <1>1 DEF Dispatch, DispatchConnected
  <2>2. CASE Head(events) = "connected"
    <3>1. advResult' = "live"
      BY <1>1, <2>1, <2>2 DEF Dispatch, DispatchConnected
    <3> QED
      BY <1>1, <2>1, <3>1, TailAfterConnected, TailWithoutDisconnected
         DEF Dispatch
  <2>3. CASE Head(events) = "disconnected"
    <3>1. PendingConnected
      BY <1>1, <2>1, <2>3, TailWithoutDisconnected DEF Dispatch
    <3> QED
      BY <1>1, <2>3, <3>1, TailKeepsPending DEF Dispatch
  <2> QED
    BY <1>1, <2>2, <2>3 DEF Dispatch
<1>2. CASE AirConnect
  BY <1>2, AppendConnected DEF AirConnect
<1>3. CASE AirDisconnect
  BY <1>3 DEF AirDisconnect
<1>4. CASE HandleReset \/ PowerCycle
  BY <1>4, LinkRestart DEF HandleReset, PowerCycle
<1>5. ASSUME UNCHANGED events, link' = "up" => link = "up",
             advResult = "live" => advResult' = "live" \/ connection' = "live",
             connection = "live" => connection' = "live"
      PROVE  LinkHandle'
  BY <1>5, EventsUnchanged
<1>6. CASE HandleRequest /\ ~HandleReset
  BY <1>5, <1>6
     DEF HandleRequest, HandleEnable, HandleDisable, HandleDisableChannels,
         HandleSetTxPower, HandleSetDeviceName, HandleDisconnect,
         HandleGetStatus, HandleGetState, HandleInappropriate, HandleOther, DisconnectStored,
         bleVars, sdVars
<1>7. CASE Inner
  BY <1>5, <1>7
     DEF Inner, InnerStart, InnerStayStopped, InnerConnected,
         InnerConnectedAndGone, InnerAdvChanged, InnerDisconnected,
         InnerPending, Advertise, Control, ResultIsAwaited,
         HandlesDieTogether, bleVars, sdVars
<1>8. CASE CheckStopped
  BY <1>5, <1>8 DEF CheckStopped, StopInner, KeepInner, Control,
                    ResultIsAwaited, bleVars, sdVars
<1>9. CASE PollSoftdevice \/ DispatchDone \/ PollMain \/ CommsPending
           \/ HostReads
  BY <1>5, <1>9 DEF PollSoftdevice, DispatchDone, PollMain, CommsPending,
                    HostReads, bleVars, sdVars
<1>10. CASE UNCHANGED vars
  BY <1>5, <1>10 DEF vars, bleVars, sdVars
<1> QED
  BY <1>1, <1>2, <1>3, <1>4, <1>6, <1>7, <1>8, <1>9, <1>10
     DEF Next, MainTask, SoftdeviceTask, Comms

-----------------------------------------------------------------------------
(* IInv holds in every state.                                              *)
THEOREM Invariance == Spec => []IInv
<1>1. Init => IInv
  BY TypeInit, ControlInit, LinkRestart DEF IInv
<1>2. IInv /\ [Next]_vars => IInv'
  BY TypeStep, ControlStep, LinkStep DEF IInv
<1> QED
  BY <1>1, <1>2, PTL DEF Spec

LEMMA HandleIsReachable == TypeOK /\ LinkHandle => LinkIsReachable
BY DEF LinkHandle, LinkIsReachable, PendingConnected

(* The safety of the radio control: the reported state and the signal      *)
(* agree, the settings on the air are current or a restart is signalled,   *)
(* the GATT server finds its connection, the advertiser is owned, and no   *)
(* link escapes the host's reach.                                          *)
THEOREM Correct == Spec => []Safety
<1>1. IInv => Safety
  BY HandleIsReachable DEF IInv, Control, Safety
<1> QED
  BY <1>1, Invariance, PTL

(* The record GetState answers from never disagrees with the signal that   *)
(* was sent or with what the Bluetooth loop made of it.                    *)
THEOREM SignalAgrees == Spec => []StateCopyAgrees
BY Correct, PTL DEF Safety

(* While it advertises, the loop uses the current settings, or the signal  *)
(* that restarts it with them is there.                                    *)
THEOREM SettingsAreSignalled == Spec => []AdvertisesCurrentSettings
BY Correct, PTL DEF Safety

(* The GATT server is never started without the connection it is to serve. *)
THEOREM GattIsServed == Spec => []GattHasConnection
BY Correct, PTL DEF Safety

(* The SoftDevice advertises only for the loop that asked for it, whatever *)
(* drops the loop's futures.                                               *)
THEOREM NoStrayAdvertising == Spec => []AdvertisingIsOwned
BY Correct, PTL DEF Safety

(* Every link is in the hands of a future, in CONNECTION, on its way there *)
(* or being closed, whatever Disable, Disconnect and the peer do.          *)
THEOREM NoLinkIsLost == Spec => []LinkIsReachable
BY Correct, PTL DEF Safety

-----------------------------------------------------------------------------
(* A step that keeps the switch, the loop and the panic flag is a stutter  *)
(* of RadioSwitch.                                                         *)
LEMMA SwitchStutter ==
    ASSUME UNCHANGED btStateCopy,
           (ble # "waitEnable") <=> (ble' # "waitEnable"),
           (turn = "halted") <=> (turn' = "halted")
    PROVE  UNCHANGED Switch!vars
BY DEF Switch!vars

LEMMA SwitchAdvertise ==
    ASSUME Control, TypeOK, Advertise, UNCHANGED btStateCopy,
           turn = "inner", ble # "waitEnable" \/ btEnable = True
    PROVE  [Switch!Next]_(Switch!vars)
<1>1. CASE turn' = "halted"
  <2>1. Switch!Fail
    BY <1>1 DEF Advertise, Switch!Fail, Control, StateCopyAgrees, None, True
  <2> QED
    BY <2>1 DEF Switch!Next
<1>2. CASE turn' # "halted" /\ ble # "waitEnable"
  BY <1>2, SwitchStutter DEF Advertise
<1>3. CASE turn' # "halted" /\ ble = "waitEnable"
  <2>1. btStateCopy = TRUE
    BY <1>3 DEF Control, StateCopyAgrees, None, True, TypeOK
  <2>2. Switch!Follow
    BY <1>3, <2>1 DEF Advertise, Switch!Follow
  <2> QED
    BY <2>2 DEF Switch!Next
<1> QED
  BY <1>1, <1>2, <1>3

LEMMA SwitchStep ==
    TypeOK /\ Control /\ [Next]_vars => [Switch!Next]_(Switch!vars)
<1> SUFFICES ASSUME TypeOK, Control, [Next]_vars
             PROVE  [Switch!Next]_(Switch!vars)
  OBVIOUS
<1>1. CASE HandleEnable
  <2>1. Switch!Request(TRUE)
    BY <1>1 DEF HandleEnable, Respond, bleVars, Switch!Request
  <2> QED
    BY <2>1 DEF Switch!Next
<1>2. CASE HandleDisable
  <2>1. Switch!Request(FALSE)
    BY <1>2 DEF HandleDisable, Respond, bleVars, Switch!Request
  <2> QED
    BY <2>1 DEF Switch!Next
<1>3. CASE HandleReset \/ PowerCycle
  <2>1. Switch!Restart
    BY <1>3 DEF HandleReset, PowerCycle, Restart, InitializeSd, Switch!Restart
  <2> QED
    BY <2>1 DEF Switch!Next
<1>4. CASE StopInner
  <2>1. btStateCopy = FALSE /\ ble # "waitEnable"
    BY <1>4 DEF StopInner, Control, StateCopyAgrees, ResultIsAwaited,
                TypeOK, None, True, False
  <2>2. Switch!Follow
    BY <1>4, <2>1 DEF StopInner, Switch!Follow
  <2> QED
    BY <2>2 DEF Switch!Next
<1>5. CASE InnerStart \/ InnerConnectedAndGone \/ InnerAdvChanged
           \/ InnerDisconnected
  BY <1>5, SwitchAdvertise
     DEF InnerStart, InnerConnectedAndGone, InnerAdvChanged,
         InnerDisconnected
<1>6. CASE HandleRequest /\ ~HandleEnable /\ ~HandleDisable /\ ~HandleReset
  BY <1>6, SwitchStutter
     DEF HandleRequest, HandleDisableChannels, HandleSetTxPower,
         HandleSetDeviceName, HandleDisconnect, HandleGetStatus,
         HandleGetState, HandleInappropriate, HandleOther, Respond, hostVars, bleVars
<1>7. CASE InnerStayStopped \/ InnerConnected \/ InnerPending \/ KeepInner
  BY <1>7, SwitchStutter
     DEF InnerStayStopped, InnerConnected, InnerPending, KeepInner,
         hostVars, bleVars
<1>8. CASE CommsPending \/ HostReads \/ PollMain \/ SoftdeviceTask
  BY <1>8, SwitchStutter
     DEF CommsPending, HostReads, PollMain, SoftdeviceTask, PollSoftdevice,
         Dispatch, DispatchDone, hostVars, bleVars
<1>9. CASE AirConnect \/ AirDisconnect \/ UNCHANGED vars
  BY <1>9, SwitchStutter
     DEF AirConnect, AirDisconnect, vars, hostVars, bleVars
<1> QED
  BY <1>1, <1>2, <1>3, <1>4, <1>5, <1>6, <1>7, <1>8, <1>9
     DEF Next, MainTask, Comms, HandleRequest, Inner, CheckStopped

(* The radio is started and stopped as RadioSwitch allows: only in the     *)
(* direction the host last asked for, and never after a panic.  (That it   *)
(* does follow is the liveness TLC checks.)                                *)
THEOREM FollowsSwitch == Spec => Switch!Init /\ [][Switch!Next]_(Switch!vars)
<1>1. Init => Switch!Init
  BY DEF Init, Switch!Init
<1>2. IInv /\ [Next]_vars => [Switch!Next]_(Switch!vars)
  BY SwitchStep DEF IInv
<1> QED
  BY <1>1, <1>2, Invariance, PTL DEF Spec
=============================================================================
