---------------------------- MODULE RadioSwitch -----------------------------
(***************************************************************************)
(* What Enable and Disable promise the host (host-protocol/src/lib.rs): a  *)
(* switch that is set at once, and a radio that follows it, in the         *)
(* direction it was last set and in no other.  The implementation may      *)
(* overwrite one request with the next before the radio has followed, and  *)
(* it may fail while it starts the radio.                                  *)
(***************************************************************************)
VARIABLES
    requested, \* the state the host was last told
    active,    \* the Bluetooth loop runs
    failed     \* the firmware has panicked

vars == <<requested, active, failed>>

Init ==
    /\ requested = FALSE
    /\ active = FALSE
    /\ failed = FALSE

Request(on) ==
    /\ ~failed
    /\ requested' = on
    /\ UNCHANGED <<active, failed>>

Follow ==
    /\ ~failed
    /\ active # requested
    /\ active' = requested
    /\ UNCHANGED <<requested, failed>>

Fail ==
    /\ ~failed
    /\ active' \in {active, requested}
    /\ active'
    /\ failed' = TRUE
    /\ UNCHANGED requested

Restart ==
    /\ requested' = FALSE
    /\ active' = FALSE
    /\ failed' = FALSE

Next ==
    \/ \E on \in BOOLEAN : Request(on)
    \/ Follow
    \/ Fail
    \/ Restart

Spec == Init /\ [][Next]_vars /\ WF_vars(Follow)
=============================================================================
