--------------------------- MODULE SecretLifecycle ---------------------------
(***************************************************************************)
(* The life of the authentication secret, as the constants of              *)
(* consts/src/lib.rs describe it: it is provisioned once, it may be wiped  *)
(* to make room for developer firmware, and it never comes back.           *)
(***************************************************************************)
CONSTANT Secrets

VARIABLES
    phase,   \* how far the secret is in its life
    secret   \* the secret challenges are answered with: none or one

vars == <<phase, secret>>

Init == phase = "blank" /\ secret = {}

Provision(s) ==
    /\ phase = "blank"
    /\ phase' = "sealed"
    /\ secret' = {s}

(* Wiping takes several writes; a power cycle may leave it unfinished.     *)
BeginWipe ==
    /\ phase = "sealed"
    /\ phase' = "wiping"
    /\ secret' = {}

FinishWipe ==
    /\ phase \in {"sealed", "wiping"}
    /\ phase' = "wiped"
    /\ secret' = {}

Next == (\E s \in Secrets : Provision(s)) \/ BeginWipe \/ FinishWipe

Spec == Init /\ [][Next]_vars
=============================================================================
