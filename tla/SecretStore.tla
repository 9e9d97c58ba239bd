----------------------------- MODULE SecretStore -----------------------------
(***************************************************************************)
(* The authentication secret in the UICR: ChallengeSet and the wipe that   *)
(* precedes a developer boot (bootloader/src/main.rs), the word by word    *)
(* write_secret (bootloader/src/verify.rs), the seal word and the copy of  *)
(* it the bootloader keeps, and the challenges that both the bootloader    *)
(* and the application answer.                                             *)
(*                                                                         *)
(* A word of flash is the set of its bits that are 1: erased it is full,   *)
(* and programming it can only clear bits, so that programming w over old  *)
(* leaves old \cap w.  The power may fail at any step; the word being      *)
(* programmed is then left anywhere between its old and its new value.     *)
(***************************************************************************)
EXTENDS Integers

CONSTANTS
    NumWords,   \* words of the secret, 8
    WordBits,   \* bits of a word, 0..31
    Secrets     \* the secrets the host may send

Words == 0..(NumWords - 1)

ASSUME NumWordsAssumption == NumWords \in Nat \ {0}
ASSUME BitsAssumption == WordBits # {}
ASSUME SecretsAssumption == Secrets \subseteq [Words -> SUBSET WordBits]

VARIABLES
    uicr,        \* UICR.customer[0..7]: the secret
    sealWord,    \* UICR.customer[8]
    seal,        \* `seal' of main(): sealWord as it was read at start-up
    pc,          \* where the bootloader is, or "app"
    job,         \* the arguments of write_secret
    next,        \* its loop index
    resp,        \* the answer to the last request
    running,     \* the trust the application was booted with
    provisioned, \* history: the secret that was last read back as sent
    attempts     \* history: the secrets write_secret has been called with

uicrVars == <<uicr, sealWord>>
jobVars  == <<job, next>>
history  == <<provisioned, attempts>>
vars == <<uicrVars, seal, pc, jobVars, resp, running, history>>

(* 0x5A5A5A5A and 0x42424242 repeat one byte; the seal is modelled by it.  *)
SealBits == 0..7
SEALED_SECRET == {1, 3, 4, 6}   \* 0x5A
SEALED_WIPED == {1, 6}          \* 0x42
Blank == SealBits

AllZero == [i \in Words |-> {}]
AllOnes == [i \in Words |-> WordBits]

(* Arguments that no call looks at.                                        *)
NoJob == [secret |-> AllZero, seal |-> SEALED_WIPED]

(* What programming a word may leave behind when the power fails.          *)
Torn(old, new) == {w \in SUBSET old : old \cap new \subseteq w}

(* HMAC-SHA256 under distinct keys is taken to be distinct.                *)
Hmac(key) == <<"hmac", key>>
NoHmac == <<"0xFF">>

-----------------------------------------------------------------------------
(* A device as it leaves the factory, in its bootloader.                   *)
Init ==
    /\ uicr = AllOnes
    /\ sealWord = Blank
    /\ seal = Blank
    /\ pc = "idle"
    /\ job = NoJob
    /\ next = 0
    /\ resp = <<"none">>
    /\ running = "none"
    /\ provisioned = {}
    /\ attempts = {}

-----------------------------------------------------------------------------
(* write_secret(secret, seal)                                              *)

CallWriteSecret(secret, newSeal) ==
    /\ job' = [secret |-> secret, seal |-> newSeal]
    /\ next' = 0
    /\ pc' = "write"

(* Mutant: the words are written one place too far.                        *)
WriteWordShifted ==
    /\ pc = "write"
    /\ next \in Words
    /\ uicr' = [uicr EXCEPT ![(next + 1) % NumWords] = @ \cap job.secret[next]]
    /\ next' = next + 1
    /\ UNCHANGED <<sealWord, seal, pc, job, resp, running, history>>

WriteWord ==
    /\ pc = "write"
    /\ next \in Words
    /\ uicr' = [uicr EXCEPT ![next] = @ \cap job.secret[next]]
    /\ next' = next + 1
    /\ UNCHANGED <<sealWord, seal, pc, job, resp, running, history>>

(* Mutant: the words are not read back.                                    *)
ReadBackSkipped ==
    /\ pc = "write"
    /\ next \notin Words
    /\ pc' = "seal"
    /\ provisioned' = IF job.seal = SEALED_SECRET
                      THEN {job.secret} ELSE provisioned
    /\ UNCHANGED <<uicrVars, seal, jobVars, resp, running, attempts>>

(* The read-back after the last word.  Its failure is an Error for         *)
(* ChallengeSet; BootFirmware ignores the result and boots.                *)
ReadBack ==
    /\ pc = "write"
    /\ next \notin Words
    /\ \/ /\ uicr = job.secret
          /\ pc' = "seal"
          /\ provisioned' = IF job.seal = SEALED_SECRET
                            THEN {job.secret} ELSE provisioned
          /\ UNCHANGED <<resp, running>>
       \/ /\ uicr # job.secret
          /\ IF job.seal = SEALED_SECRET
             THEN pc' = "idle" /\ resp' = <<"Error">> /\ UNCHANGED running
             ELSE pc' = "app" /\ running' = "Developer" /\ UNCHANGED resp
          /\ UNCHANGED provisioned
    /\ UNCHANGED <<uicrVars, seal, jobVars, attempts>>

(* Mutant: the copy of the seal is not updated.                            *)
WriteSealKeepsCopy ==
    /\ pc = "seal"
    /\ sealWord' = sealWord \cap job.seal
    /\ \/ /\ job.seal = SEALED_SECRET
          /\ resp' = <<"Sealed">>
          /\ pc' = "idle"
          /\ UNCHANGED running
       \/ /\ job.seal = SEALED_WIPED
          /\ pc' = "app"
          /\ running' = "Developer"
          /\ UNCHANGED resp
    /\ UNCHANGED <<uicr, seal, jobVars, history>>

(* The seal is the last word written.  ChallengeSet then updates the copy  *)
(* and answers; BootFirmware jumps to the application.                     *)
WriteSeal ==
    /\ pc = "seal"
    /\ sealWord' = sealWord \cap job.seal
    /\ \/ /\ job.seal = SEALED_SECRET
          /\ seal' = SEALED_SECRET
          /\ resp' = <<"Sealed">>
          /\ pc' = "idle"
          /\ UNCHANGED running
       \/ /\ job.seal = SEALED_WIPED
          /\ pc' = "app"
          /\ running' = "Developer"
          /\ UNCHANGED <<seal, resp>>
    /\ UNCHANGED <<uicr, jobVars, history>>

-----------------------------------------------------------------------------
(* The requests of the host.                                               *)

(* Mutants: the seal is written from the copy; a sealed device accepts     *)
(* another secret.                                                         *)
ChallengeSetWithCopy(secret) ==
    /\ pc = "idle"
    /\ seal \notin {SEALED_SECRET, SEALED_WIPED}
    /\ secret \notin {AllZero, AllOnes}
    /\ CallWriteSecret(secret, seal)
    /\ attempts' = attempts \cup {secret}
    /\ UNCHANGED <<uicrVars, seal, resp, running, provisioned>>

ChallengeSetUnguarded(secret) ==
    /\ pc = "idle"
    /\ secret \notin {AllZero, AllOnes}
    /\ CallWriteSecret(secret, SEALED_SECRET)
    /\ attempts' = attempts \cup {secret}
    /\ UNCHANGED <<uicrVars, seal, resp, running, provisioned>>

ChallengeSet(secret) ==
    /\ pc = "idle"
    /\ \/ /\ seal \in {SEALED_SECRET, SEALED_WIPED}
          /\ resp' = <<"NotAllowed">>
          /\ UNCHANGED <<pc, jobVars, attempts>>
       \/ /\ seal \notin {SEALED_SECRET, SEALED_WIPED}
          /\ secret \in {AllZero, AllOnes}
          /\ resp' = <<"Error">>
          /\ UNCHANGED <<pc, jobVars, attempts>>
       \/ /\ seal \notin {SEALED_SECRET, SEALED_WIPED}
          /\ secret \notin {AllZero, AllOnes}
          /\ CallWriteSecret(secret, SEALED_SECRET)
          /\ attempts' = attempts \cup {secret}
          /\ UNCHANGED resp
    /\ UNCHANGED <<uicrVars, seal, running, provisioned>>

(* Mutant: the wipe is left out.                                           *)
BootFirmwareUnwiped(trust) ==
    /\ pc = "idle"
    /\ pc' = "app"
    /\ running' = trust
    /\ UNCHANGED <<uicrVars, seal, jobVars, resp, history>>

(* BootFirmware with an image that verifies.                               *)
BootFirmware(trust) ==
    /\ pc = "idle"
    /\ \/ /\ seal = SEALED_SECRET /\ trust = "Developer"
          /\ CallWriteSecret(AllZero, SEALED_WIPED)
          /\ UNCHANGED running
       \/ /\ ~(seal = SEALED_SECRET /\ trust = "Developer")
          /\ pc' = "app"
          /\ running' = trust
          /\ UNCHANGED jobVars
    /\ UNCHANGED <<uicrVars, seal, resp, history>>

(* The bootloader goes by its copy of the seal, the application by the     *)
(* word itself.                                                            *)
ChallengeRequest ==
    /\ \/ /\ pc = "idle"
          /\ resp' = IF seal = SEALED_SECRET THEN Hmac(uicr) ELSE NoHmac
       \/ /\ pc = "app"
          /\ resp' = IF sealWord = SEALED_SECRET THEN Hmac(uicr) ELSE NoHmac
    /\ UNCHANGED <<uicrVars, seal, pc, jobVars, running, history>>

-----------------------------------------------------------------------------
(* main() of the bootloader reads the seal once, here.                     *)
StartUp ==
    /\ pc' = "idle"
    /\ seal' = sealWord'
    /\ job' = NoJob
    /\ next' = 0
    /\ resp' = <<"none">>
    /\ running' = "none"
    /\ UNCHANGED history

(* Reset, by request or by the reset pin, between two flash operations.    *)
Reset ==
    /\ pc \in {"idle", "app"}
    /\ UNCHANGED uicrVars
    /\ StartUp

(* The power fails.                                                        *)
PowerFailure ==
    /\ pc \in {"write", "seal"}
    /\ \/ /\ pc = "write" /\ next \in Words
          /\ \E w \in Torn(uicr[next], job.secret[next]) :
                uicr' = [uicr EXCEPT ![next] = w]
          /\ UNCHANGED sealWord
       \/ /\ pc = "write" /\ next \notin Words
          /\ UNCHANGED uicrVars
       \/ /\ pc = "seal"
          /\ sealWord' \in Torn(sealWord, job.seal)
          /\ UNCHANGED uicr
    /\ StartUp

-----------------------------------------------------------------------------
Next ==
    \/ WriteWord \/ ReadBack \/ WriteSeal
    \/ \E secret \in Secrets : ChallengeSet(secret)
    \/ \E trust \in {"Full", "Developer"} : BootFirmware(trust)
    \/ ChallengeRequest
    \/ Reset
    \/ PowerFailure

Spec == Init /\ [][Next]_vars

-----------------------------------------------------------------------------
Contents == [Words -> SUBSET WordBits]

(* Every variable has its type; write_secret is called with a seal that    *)
(* the code knows.                                                         *)
TypeOK ==
    /\ uicr \in Contents
    /\ sealWord \subseteq SealBits
    /\ seal \subseteq SealBits
    /\ pc \in {"idle", "write", "seal", "app"}
    /\ job \in [secret : Contents, seal : {SEALED_SECRET, SEALED_WIPED}]
    /\ next \in Nat
    /\ resp \in {<<"none">>, <<"NotAllowed">>, <<"Error">>, <<"Sealed">>,
                 NoHmac} \cup {Hmac(key) : key \in Contents}
    /\ running \in {"none", "Full", "Developer"}
    /\ provisioned \subseteq Contents
    /\ attempts \subseteq Secrets

(* The copy of the seal the bootloader decides by is the seal, whenever it *)
(* decides: no ChallengeSet, wipe or power failure makes the two differ,   *)
(* and the bootloader and the application answer a challenge alike.        *)
SealCopyAgrees == pc = "idle" => seal = sealWord

(* Sealed: "Secret was successfully saved and sealed".  The seal word is   *)
(* not read back, and words programmed before a power failure are not      *)
(* erased, yet the answer is never given over anything else.               *)
SealedAnswerHolds ==
    resp = <<"Sealed">> /\ pc = "idle"
        => sealWord = SEALED_SECRET /\ uicr \in provisioned

(* Developer firmware runs only on a device that answers no challenge,     *)
(* whatever failed before, although the result of the wipe is ignored.     *)
DeveloperIsUnsealed == running = "Developer" => sealWord # SEALED_SECRET

(* How far the secret is in its life, from the words of the UICR.          *)
Phase ==
    CASE SEALED_SECRET \subseteq sealWord /\ sealWord # SEALED_SECRET -> "blank"
      [] sealWord = SEALED_SECRET /\ uicr \in provisioned -> "sealed"
      [] sealWord = SEALED_SECRET /\ uicr \notin provisioned -> "wiping"
      [] OTHER -> "wiped"

(* A ChallengeSet cut short by a power failure can be repeated: as long as *)
(* one secret only has been tried, no bit it needs has been cleared.       *)
RetryCanSucceed ==
    \A s \in attempts :
        attempts = {s} /\ Phase = "blank"
            => \A i \in Words : s[i] \subseteq uicr[i]

(* What the host and the application see of the secret is its life in      *)
(* SecretLifecycle.                                                        *)
Lifecycle == INSTANCE SecretLifecycle WITH
    phase  <- Phase,
    secret <- IF Phase = "sealed" THEN {uicr} ELSE {}

LifecycleSpec == Lifecycle!Spec

(* What the code does not keep: UICR_SEALED_SECRET is the "magic value     *)
(* indicating that the challenge-response secret has been provisioned"     *)
(* (consts lib.rs:52).                                                     *)
SealMeansProvisioned ==
    pc = "idle" /\ sealWord = SEALED_SECRET => uicr \in provisioned
=============================================================================
