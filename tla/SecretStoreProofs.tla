-------------------------- MODULE SecretStoreProofs --------------------------
(***************************************************************************)
(* The safety of the secret, for every number and width of words and every *)
(* set of secrets.  What the invariants of SecretStore lack to be          *)
(* inductive is what the bootloader is in the middle of: which seal goes   *)
(* with which secret, that a word once wiped stays zero, and that a seal   *)
(* from which a wipe has begun to take bits lies over a secret that is     *)
(* zero, so that the read-back fails before such a seal is written again.  *)
(***************************************************************************)
EXTENDS SecretStore, TLAPS

Writing == pc \in {"write", "seal"}
Provisioning == Writing /\ job.seal = SEALED_SECRET
Wiping == Writing /\ job.seal = SEALED_WIPED

(* write_secret is called with a secret and its seal, or zeros and theirs. *)
JobIsWhole ==
    /\ Writing => job.seal \in {SEALED_SECRET, SEALED_WIPED}
    /\ Provisioning => job.secret # AllZero /\ job.secret \in attempts
                       /\ sealWord \notin {SEALED_SECRET, SEALED_WIPED}
    /\ Wiping => job.secret = AllZero /\ sealWord = SEALED_SECRET

(* What the loop of write_secret and its read-back have established.       *)
Progress ==
    /\ Wiping /\ pc = "write" =>
        \A i \in Words : i < next => uicr[i] = {}
    /\ pc = "seal" => uicr = job.secret
    /\ pc = "seal" /\ Provisioning => uicr \in provisioned

(* The copy is the seal from the start of the bootloader to the jump.      *)
CopyIsCurrent == pc # "app" => seal = sealWord

(* Only a wipe takes bits from a seal, and it has zeroed the secret first. *)
SpentSealOverZeros == ~(SEALED_SECRET \subseteq sealWord) => uicr = AllZero

RunningIsApp == (pc = "app") <=> (running # "none")

AnswerIsRecent ==
    resp = <<"Sealed">> /\ pc # "app" =>
        sealWord = SEALED_SECRET /\ (pc = "idle" => uicr \in provisioned)

Machine ==
    /\ JobIsWhole
    /\ Progress
    /\ CopyIsCurrent
    /\ SpentSealOverZeros
    /\ RunningIsApp
    /\ DeveloperIsUnsealed
    /\ AnswerIsRecent

(* A bit that every secret tried so far keeps is still set.                *)
CommonBitsRemain ==
    SEALED_SECRET \subseteq sealWord /\ sealWord # SEALED_SECRET =>
        \A i \in Words : \A b \in WordBits :
            (\A s \in attempts : b \in s[i]) => b \in uicr[i]

IInv == TypeOK /\ Machine /\ CommonBitsRemain

-----------------------------------------------------------------------------
(* The two seals: the wiped one lies inside the other, over a blank word.  *)
LEMMA Seals ==
    /\ SEALED_SECRET \subseteq SealBits
    /\ SEALED_WIPED \subseteq SealBits
    /\ SEALED_SECRET # SEALED_WIPED
    /\ Blank \notin {SEALED_SECRET, SEALED_WIPED}
    /\ SEALED_SECRET \subseteq Blank
    /\ \A w : w \cap SEALED_WIPED # SEALED_SECRET
BY DEF SealBits, SEALED_SECRET, SEALED_WIPED, Blank

(* An HMAC is none of the other answers.                                   *)
LEMMA HmacIsNoAnswer ==
    \A key : Hmac(key) # <<"Sealed">> /\ NoHmac # <<"Sealed">>
BY DEF Hmac, NoHmac

LEMMA WholeContents ==
    /\ AllZero \in Contents
    /\ AllOnes \in Contents
    /\ Secrets \subseteq Contents
BY SecretsAssumption DEF SecretsAssumption, AllZero, AllOnes, Contents

(* Programming a word, in whole or in part, leaves a part of it.           *)
LEMMA Programmed ==
    ASSUME NEW old \in SUBSET WordBits, NEW new, NEW w \in Torn(old, new)
    PROVE  w \in SUBSET WordBits /\ w \subseteq old /\ old \cap new \subseteq w
BY DEF Torn

-----------------------------------------------------------------------------
LEMMA TypeInit == Init => TypeOK
BY WholeContents, Seals
   DEF Init, TypeOK, NoJob, Contents, Blank

LEMMA TypeStep == TypeOK /\ [Next]_vars => TypeOK'
<1> SUFFICES ASSUME TypeOK, [Next]_vars
             PROVE  TypeOK'
  OBVIOUS
<1> USE DEF TypeOK
<1>1. CASE WriteWord
  BY <1>1 DEF WriteWord, Contents, Words, history
<1>2. CASE ReadBack
  BY <1>2 DEF ReadBack, uicrVars, jobVars
<1>3. CASE WriteSeal
  BY <1>3, Seals DEF WriteSeal, jobVars, history
<1>4. ASSUME NEW secret \in Secrets, ChallengeSet(secret)
      PROVE  TypeOK'
  BY <1>4, WholeContents
     DEF ChallengeSet, CallWriteSecret, uicrVars, jobVars
<1>5. ASSUME NEW trust \in {"Full", "Developer"}, BootFirmware(trust)
      PROVE  TypeOK'
  BY <1>5, WholeContents
     DEF BootFirmware, CallWriteSecret, uicrVars, jobVars, history
<1>6. CASE ChallengeRequest
  BY <1>6 DEF ChallengeRequest, uicrVars, jobVars, history
<1>7. CASE Reset
  BY <1>7, WholeContents
     DEF Reset, StartUp, NoJob, uicrVars, history
<1>8. CASE PowerFailure
  <2>1. uicr' \in Contents
    BY <1>8, Programmed DEF PowerFailure, Contents, Words, uicrVars
  <2>2. sealWord' \subseteq SealBits
    BY <1>8 DEF PowerFailure, Torn, uicrVars
  <2> QED
    BY <1>8, <2>1, <2>2, WholeContents DEF PowerFailure, StartUp, NoJob, history
<1>9. CASE UNCHANGED vars
  BY <1>9 DEF vars, uicrVars, jobVars, history
<1> QED
  BY <1>1, <1>2, <1>3, <1>4, <1>5, <1>6, <1>7, <1>8, <1>9 DEF Next

(* The type of the secret, the seal and the job, at every step of          *)
(* write_secret and after every failure.                                   *)
THEOREM TypeCorrect == Spec => []TypeOK
BY TypeInit, TypeStep, PTL DEF Spec

-----------------------------------------------------------------------------
LEMMA MachineInit == Init => Machine
BY Seals
   DEF Init, Machine, JobIsWhole, Progress, CopyIsCurrent, SpentSealOverZeros,
       RunningIsApp, DeveloperIsUnsealed, AnswerIsRecent, Writing,
       Provisioning, Wiping

(* After a start nothing is being written, and the copy is fresh.          *)
LEMMA MachineStartUp ==
    ASSUME StartUp, SpentSealOverZeros'
    PROVE  Machine'
BY DEF StartUp, Machine, JobIsWhole, Progress, CopyIsCurrent,
       RunningIsApp, DeveloperIsUnsealed, AnswerIsRecent, Writing,
       Provisioning, Wiping

LEMMA MachineStep == TypeOK /\ Machine /\ [Next]_vars => Machine'
<1> SUFFICES ASSUME TypeOK, Machine, [Next]_vars
             PROVE  Machine'
  OBVIOUS
<1> USE DEF TypeOK, Writing, Provisioning, Wiping
<1>1. CASE WriteWord
  <2> USE <1>1 DEF WriteWord, history, Machine
  <2>1. SpentSealOverZeros'
    BY DEF SpentSealOverZeros, AllZero, Words, Contents
  <2>2. Progress'
    <3>1. ASSUME Wiping, NEW i \in Words, i < next + 1
          PROVE  uicr'[i] = {}
      <4>1. CASE i = next
        BY <3>1, <4>1 DEF JobIsWhole, AllZero, Contents
      <4>2. CASE i # next
        <5>1. i < next
          BY <3>1, <4>2 DEF Words
        <5> QED
          BY <3>1, <4>2, <5>1 DEF Progress, Contents
      <4> QED
        BY <4>1, <4>2
    <3>2. Wiping' => Wiping
      OBVIOUS
    <3> QED
      BY <3>1, <3>2 DEF Progress
  <2>3. JobIsWhole' /\ CopyIsCurrent' /\ RunningIsApp' /\ DeveloperIsUnsealed'
    BY DEF JobIsWhole, CopyIsCurrent, RunningIsApp, DeveloperIsUnsealed
  <2>4. AnswerIsRecent'
    BY DEF AnswerIsRecent
  <2> QED
    BY <2>1, <2>2, <2>3, <2>4
<1>2. CASE ReadBack
  <2> USE <1>2 DEF ReadBack, uicrVars, jobVars, Machine
  <2>1. Wiping => uicr = job.secret
    <3>1. ASSUME Wiping
          PROVE  \A i \in Words : uicr[i] = {}
      <4>1. next >= NumWords
        BY NumWordsAssumption DEF NumWordsAssumption, Words
      <4>2. \A i \in Words : i < next
        BY <4>1, NumWordsAssumption DEF NumWordsAssumption, Words
      <4> QED
        BY <3>1, <4>2 DEF Progress
    <3> QED
      BY <3>1 DEF JobIsWhole, AllZero, Contents
  <2>2. SpentSealOverZeros' /\ CopyIsCurrent'
    BY <2>1 DEF SpentSealOverZeros, CopyIsCurrent, JobIsWhole
  <2>3. JobIsWhole' /\ Progress'
    BY Seals DEF JobIsWhole, Progress
  <2>4. RunningIsApp' /\ DeveloperIsUnsealed'
    BY <2>1 DEF RunningIsApp, DeveloperIsUnsealed, JobIsWhole
  <2>5. AnswerIsRecent'
    BY DEF AnswerIsRecent, JobIsWhole
  <2> QED
    BY <2>2, <2>3, <2>4, <2>5
<1>3. CASE WriteSeal
  <2> USE <1>3 DEF WriteSeal, jobVars, history, Machine
  <2>1. Provisioning => SEALED_SECRET \subseteq sealWord
    BY DEF SpentSealOverZeros, Progress, JobIsWhole
  <2>2. SpentSealOverZeros'
    BY <2>1, Seals DEF SpentSealOverZeros, Progress, JobIsWhole
  <2>3. JobIsWhole' /\ Progress' /\ RunningIsApp'
    BY DEF JobIsWhole, Progress, RunningIsApp
  <2>4. CopyIsCurrent'
    BY <2>1, Seals DEF CopyIsCurrent
  <2>5. DeveloperIsUnsealed'
    BY Seals DEF DeveloperIsUnsealed, RunningIsApp
  <2>6. AnswerIsRecent'
    BY <2>1, Seals DEF AnswerIsRecent, Progress
  <2> QED
    BY <2>2, <2>3, <2>4, <2>5, <2>6
<1>4. ASSUME NEW secret \in Secrets, ChallengeSet(secret)
      PROVE  Machine'
  <2> USE <1>4 DEF ChallengeSet, CallWriteSecret, uicrVars, jobVars, Machine
  <2>1. JobIsWhole' /\ Progress'
    BY Seals DEF JobIsWhole, Progress, CopyIsCurrent
  <2>2. SpentSealOverZeros' /\ CopyIsCurrent' /\ RunningIsApp'
        /\ DeveloperIsUnsealed'
    BY DEF SpentSealOverZeros, CopyIsCurrent, RunningIsApp,
           DeveloperIsUnsealed
  <2>3. AnswerIsRecent'
    BY DEF AnswerIsRecent, CopyIsCurrent
  <2> QED
    BY <2>1, <2>2, <2>3
<1>5. ASSUME NEW trust \in {"Full", "Developer"}, BootFirmware(trust)
      PROVE  Machine'
  <2> USE <1>5 DEF BootFirmware, CallWriteSecret, uicrVars, jobVars, history,
                   Machine
  <2>1. JobIsWhole' /\ Progress'
    BY Seals DEF JobIsWhole, Progress, CopyIsCurrent, Words
  <2>2. SpentSealOverZeros' /\ CopyIsCurrent' /\ RunningIsApp'
    BY DEF SpentSealOverZeros, CopyIsCurrent, RunningIsApp
  <2>3. DeveloperIsUnsealed'
    BY DEF DeveloperIsUnsealed, CopyIsCurrent, RunningIsApp
  <2>4. AnswerIsRecent'
    BY DEF AnswerIsRecent
  <2> QED
    BY <2>1, <2>2, <2>3, <2>4
<1>6. CASE ChallengeRequest
  <2> USE <1>6 DEF ChallengeRequest, uicrVars, jobVars, history, Machine
  <2>1. AnswerIsRecent'
    BY HmacIsNoAnswer DEF AnswerIsRecent
  <2>2. JobIsWhole' /\ Progress' /\ SpentSealOverZeros' /\ CopyIsCurrent'
        /\ RunningIsApp' /\ DeveloperIsUnsealed'
    BY DEF JobIsWhole, Progress, SpentSealOverZeros, CopyIsCurrent,
           RunningIsApp, DeveloperIsUnsealed
  <2> QED
    BY <2>1, <2>2
<1>7. CASE Reset
  BY <1>7, MachineStartUp DEF Reset, Machine, SpentSealOverZeros, uicrVars
<1>8. CASE PowerFailure
  <2>1. CASE pc = "write" /\ next \in Words
    <3>1. PICK w \in Torn(uicr[next], job.secret[next]) :
            uicr' = [uicr EXCEPT ![next] = w]
      BY <1>8, <2>1 DEF PowerFailure
    <3>2. UNCHANGED sealWord /\ StartUp
      BY <1>8, <2>1 DEF PowerFailure
    <3>3. w \subseteq uicr[next]
      BY <3>1 DEF Torn
    <3>4. SpentSealOverZeros'
      BY <3>1, <3>2, <3>3 DEF Machine, SpentSealOverZeros, AllZero, Contents
    <3> QED
      BY <3>2, <3>4, MachineStartUp
  <2>2. CASE pc = "write" /\ next \notin Words
    BY <1>8, <2>2, MachineStartUp
       DEF PowerFailure, Machine, SpentSealOverZeros, uicrVars
  <2>3. CASE pc = "seal"
    <3>1. sealWord' \in Torn(sealWord, job.seal) /\ UNCHANGED uicr /\ StartUp
      BY <1>8, <2>3 DEF PowerFailure
    <3>2. Provisioning => SEALED_SECRET \subseteq sealWord
      BY <2>3 DEF Machine, SpentSealOverZeros, Progress, JobIsWhole
    <3>3. Provisioning => SEALED_SECRET \subseteq sealWord'
      BY <3>1, <3>2 DEF Torn
    <3>4. SpentSealOverZeros'
      BY <2>3, <3>1, <3>3
         DEF Machine, SpentSealOverZeros, Progress, JobIsWhole
    <3> QED
      BY <3>1, <3>4, MachineStartUp
  <2> QED
    BY <1>8, <2>1, <2>2, <2>3 DEF PowerFailure
<1>9. CASE UNCHANGED vars
  BY <1>9 DEF vars, uicrVars, jobVars, history, Machine, JobIsWhole, Progress,
       SpentSealOverZeros, CopyIsCurrent, RunningIsApp, DeveloperIsUnsealed,
       AnswerIsRecent
<1> QED
  BY <1>1, <1>2, <1>3, <1>4, <1>5, <1>6, <1>7, <1>8, <1>9 DEF Next

-----------------------------------------------------------------------------
LEMMA CommonInit == Init => CommonBitsRemain
BY DEF Init, CommonBitsRemain, AllOnes

(* Programming a word of a secret that was tried, in whole or in part,     *)
(* keeps the bits that all secrets share.                                  *)
LEMMA CommonProgrammed ==
    ASSUME TypeOK, Machine, CommonBitsRemain, pc = "write", next \in Words,
           NEW w, w \subseteq WordBits,
           uicr[next] \cap job.secret[next] \subseteq w,
           uicr' = [uicr EXCEPT ![next] = w],
           UNCHANGED <<sealWord, attempts>>
    PROVE  CommonBitsRemain'
<1> SUFFICES ASSUME SEALED_SECRET \subseteq sealWord, sealWord # SEALED_SECRET,
                    NEW i \in Words, NEW b \in WordBits,
                    \A s \in attempts : b \in s[i]
             PROVE  b \in uicr'[i]
  BY DEF CommonBitsRemain
<1>1. b \in uicr[i]
  BY DEF CommonBitsRemain
<1>2. CASE i = next
  <2>1. job.secret \in attempts
    BY DEF Machine, JobIsWhole, Writing, Provisioning, Wiping
  <2> QED
    BY <1>1, <1>2, <2>1 DEF TypeOK, Contents
<1>3. CASE i # next
  BY <1>1, <1>3 DEF TypeOK, Contents
<1> QED
  BY <1>2, <1>3

LEMMA CommonStep ==
    TypeOK /\ Machine /\ CommonBitsRemain /\ [Next]_vars => CommonBitsRemain'
<1> SUFFICES ASSUME TypeOK, Machine, CommonBitsRemain, [Next]_vars
             PROVE  CommonBitsRemain'
  OBVIOUS
<1>1. CASE WriteWord
  <2> DEFINE w == uicr[next] \cap job.secret[next]
  <2>1. w \subseteq WordBits
    BY <1>1 DEF TypeOK, Contents, WriteWord
  <2> QED
    BY <1>1, <2>1, CommonProgrammed DEF WriteWord, history
<1>2. CASE ReadBack
  BY <1>2 DEF ReadBack, CommonBitsRemain, uicrVars
<1>3. CASE WriteSeal
  BY <1>3, Seals DEF WriteSeal, CommonBitsRemain
<1>4. ASSUME NEW secret \in Secrets, ChallengeSet(secret)
      PROVE  CommonBitsRemain'
  BY <1>4 DEF ChallengeSet, CommonBitsRemain, uicrVars
<1>5. ASSUME NEW trust \in {"Full", "Developer"}, BootFirmware(trust)
      PROVE  CommonBitsRemain'
  BY <1>5 DEF BootFirmware, CommonBitsRemain, uicrVars, history
<1>6. CASE ChallengeRequest \/ Reset
  BY <1>6 DEF ChallengeRequest, Reset, StartUp, CommonBitsRemain, uicrVars,
              history
<1>7. CASE PowerFailure
  <2>1. CASE pc = "write" /\ next \in Words
    <3>1. PICK w \in Torn(uicr[next], job.secret[next]) :
            uicr' = [uicr EXCEPT ![next] = w]
      BY <1>7, <2>1 DEF PowerFailure
    <3>2. w \subseteq WordBits /\ uicr[next] \cap job.secret[next] \subseteq w
      BY <2>1 DEF Torn, TypeOK, Contents
    <3>3. UNCHANGED <<sealWord, attempts>>
      BY <1>7, <2>1 DEF PowerFailure, StartUp, history
    <3> QED
      BY <2>1, <3>1, <3>2, <3>3, CommonProgrammed
  <2>2. CASE pc = "write" /\ next \notin Words
    BY <1>7, <2>2 DEF PowerFailure, StartUp, CommonBitsRemain, uicrVars, history
  <2>3. CASE pc = "seal"
    BY <1>7, <2>3, Seals
       DEF PowerFailure, StartUp, CommonBitsRemain, Torn, history
  <2> QED
    BY <1>7, <2>1, <2>2, <2>3 DEF PowerFailure
<1>8. CASE UNCHANGED vars
  BY <1>8 DEF vars, uicrVars, history, CommonBitsRemain
<1> QED
  BY <1>1, <1>2, <1>3, <1>4, <1>5, <1>6, <1>7, <1>8 DEF Next

-----------------------------------------------------------------------------
(* The inductive invariant of the secret.                                  *)
THEOREM Invariance == Spec => []IInv
<1>1. Init => IInv
  BY TypeInit, MachineInit, CommonInit DEF IInv
<1>2. IInv /\ [Next]_vars => IInv'
  BY TypeStep, MachineStep, CommonStep DEF IInv
<1> QED
  BY <1>1, <1>2, PTL DEF Spec

(* The seal is read once, when the bootloader starts; no request and no    *)
(* failure after that makes the copy it decides by differ from the word.   *)
THEOREM CopyCorrect == Spec => []SealCopyAgrees
<1>1. IInv => SealCopyAgrees
  BY DEF IInv, Machine, CopyIsCurrent, SealCopyAgrees
<1> QED
  BY <1>1, Invariance, PTL

(* "Sealed" is answered over the secret that was sent and read back, and   *)
(* over the seal itself, though the seal is not read back.                 *)
THEOREM AnswerCorrect == Spec => []SealedAnswerHolds
<1>1. IInv => SealedAnswerHolds
  BY DEF IInv, Machine, AnswerIsRecent, SealedAnswerHolds
<1> QED
  BY <1>1, Invariance, PTL

(* Developer firmware never finds the seal in place, although the result   *)
(* of the wipe before it is ignored.                                       *)
THEOREM DeveloperCorrect == Spec => []DeveloperIsUnsealed
<1>1. IInv => DeveloperIsUnsealed
  BY DEF IInv, Machine
<1> QED
  BY <1>1, Invariance, PTL

(* A provisioning that a power failure cut short can be repeated with the  *)
(* same secret: every bit it needs is still set.                           *)
THEOREM RetryCorrect == Spec => []RetryCanSucceed
<1>1. ASSUME IInv
      PROVE  RetryCanSucceed
  <2>1. Phase = "blank" => SEALED_SECRET \subseteq sealWord
                           /\ sealWord # SEALED_SECRET
    BY DEF Phase
  <2>2. ASSUME NEW s \in attempts, attempts = {s}, Phase = "blank",
               NEW i \in Words
        PROVE  s[i] \subseteq uicr[i]
    <3>1. s[i] \subseteq WordBits
      BY <1>1, WholeContents DEF IInv, TypeOK, Contents
    <3> QED
      BY <1>1, <2>1, <2>2, <3>1 DEF IInv, CommonBitsRemain
  <2> QED
    BY <2>2 DEF RetryCanSucceed
<1> QED
  BY <1>1, Invariance, PTL

-----------------------------------------------------------------------------
(* The life of the secret.  One secret at most was ever read back, and     *)
(* under its seal words only lose bits: once one has, the secret is not    *)
(* there again, whatever is wiped of it and wherever the power fails.      *)
OnlyLoses ==
    /\ \A p \in provisioned, q \in provisioned : p = q
    /\ sealWord = SEALED_SECRET =>
        \A p \in provisioned : \A i \in Words : uicr[i] \subseteq p[i]

Shrinks == \A i \in Words : uicr'[i] \subseteq uicr[i]

(* What a step of the bootloader does to the words of the UICR and to the  *)
(* record of what was read back there: nothing,                            *)
Rests == UNCHANGED <<uicrVars, provisioned>>

(* a word loses bits,                                                      *)
Loses ==
    /\ Writing
    /\ uicr' \in Contents
    /\ Shrinks
    /\ UNCHANGED <<sealWord, provisioned>>

(* the secret is read back before its seal is written,                     *)
ReadsBack ==
    /\ Provisioning
    /\ provisioned' = {job.secret}
    /\ UNCHANGED uicrVars

(* or the seal is, in whole or in part.                                    *)
Sealing ==
    /\ pc = "seal"
    /\ sealWord' \in Torn(sealWord, job.seal)
    /\ UNCHANGED <<uicr, provisioned>>

LEMMA UicrStep ==
    ASSUME TypeOK, [Next]_vars
    PROVE  Rests \/ Loses \/ ReadsBack \/ Sealing
<1> USE DEF TypeOK
<1>1. CASE WriteWord
  <2>1. uicr' \in Contents /\ Shrinks
    BY <1>1 DEF WriteWord, Shrinks, Contents, Words
  <2> QED
    BY <1>1, <2>1 DEF WriteWord, Loses, Writing, history
<1>2. CASE ReadBack
  BY <1>2 DEF ReadBack, Rests, ReadsBack, Provisioning, Writing
<1>3. CASE WriteSeal
  BY <1>3 DEF WriteSeal, Sealing, Torn, history
<1>4. ASSUME NEW secret \in Secrets, ChallengeSet(secret)
      PROVE  Rests
  BY <1>4 DEF ChallengeSet, Rests
<1>5. ASSUME NEW trust \in {"Full", "Developer"}, BootFirmware(trust)
      PROVE  Rests
  BY <1>5 DEF BootFirmware, Rests, history
<1>6. CASE ChallengeRequest
  BY <1>6 DEF ChallengeRequest, Rests, history
<1>7. CASE Reset
  BY <1>7 DEF Reset, StartUp, Rests, history
<1>8. CASE PowerFailure
  <2>1. CASE pc = "write" /\ next \in Words
    <3>1. PICK w \in Torn(uicr[next], job.secret[next]) :
              uicr' = [uicr EXCEPT ![next] = w]
      BY <1>8, <2>1 DEF PowerFailure
    <3>2. w \in SUBSET WordBits /\ w \subseteq uicr[next]
      BY <2>1, Programmed DEF Contents
    <3>3. uicr' \in Contents /\ Shrinks
      BY <3>1, <3>2 DEF Contents, Shrinks
    <3> QED
      BY <1>8, <2>1, <3>3 DEF PowerFailure, StartUp, Loses, Writing, history
  <2>2. CASE pc = "write" /\ next \notin Words
    BY <1>8, <2>2 DEF PowerFailure, StartUp, Rests, history
  <2>3. CASE pc = "seal"
    BY <1>8, <2>3 DEF PowerFailure, StartUp, Sealing, history
  <2> QED
    BY <1>8, <2>1, <2>2, <2>3 DEF PowerFailure
<1>9. CASE UNCHANGED vars
  BY <1>9 DEF vars, Rests, history
<1> QED
  BY <1>1, <1>2, <1>3, <1>4, <1>5, <1>6, <1>7, <1>8, <1>9 DEF Next

(* A seal that is written, or half written, over a secret that was read    *)
(* back is still whole; one written over zeros is already there.           *)
LEMMA SealStep ==
    ASSUME IInv, Sealing
    PROVE  \/ /\ uicr \in provisioned
              /\ uicr \in Secrets
              /\ SEALED_SECRET \subseteq sealWord /\ sealWord # SEALED_SECRET
              /\ SEALED_SECRET \subseteq sealWord'
           \/ /\ sealWord = SEALED_SECRET
              /\ sealWord' \subseteq SEALED_SECRET
<1> USE DEF IInv, TypeOK, Machine
<1>1. pc = "seal" /\ uicr = job.secret /\ Writing
  BY DEF Sealing, Progress, Writing
<1>2. CASE job.seal = SEALED_SECRET
  <2>1. Provisioning
    BY <1>1, <1>2 DEF Provisioning
  <2>2. uicr \in provisioned /\ uicr # AllZero /\ uicr \in Secrets
        /\ sealWord # SEALED_SECRET
    BY <1>1, <2>1 DEF JobIsWhole, Progress
  <2>3. SEALED_SECRET \subseteq sealWord
    BY <2>2 DEF SpentSealOverZeros
  <2> QED
    BY <1>2, <2>2, <2>3 DEF Sealing, Torn
<1>3. CASE job.seal = SEALED_WIPED
  BY <1>1, <1>3 DEF Wiping, JobIsWhole, Sealing, Torn
<1> QED
  BY <1>1, <1>2, <1>3 DEF JobIsWhole

LEMMA OnlyLosesStep == IInv /\ OnlyLoses /\ [Next]_vars => OnlyLoses'
<1> SUFFICES ASSUME IInv, OnlyLoses, [Next]_vars
             PROVE  OnlyLoses'
  OBVIOUS
<1>1. CASE Rests
  BY <1>1 DEF Rests, uicrVars, OnlyLoses
<1>2. CASE Loses
  BY <1>2 DEF Loses, Shrinks, OnlyLoses
<1>3. CASE ReadsBack
  BY <1>3 DEF ReadsBack, uicrVars, OnlyLoses, IInv, Machine, JobIsWhole
<1>4. CASE Sealing
  BY <1>4, SealStep DEF Sealing, OnlyLoses
<1> QED
  BY <1>1, <1>2, <1>3, <1>4, UicrStep DEF IInv

(* The steps of the bootloader are steps of the life of the secret.        *)
LEMMA LifecycleStep ==
    IInv /\ OnlyLoses /\ [Next]_vars => [Lifecycle!Next]_(Lifecycle!vars)
<1> SUFFICES ASSUME IInv, OnlyLoses, [Next]_vars
             PROVE  [Lifecycle!Next]_(Lifecycle!vars)
  OBVIOUS
<1> USE DEF Lifecycle!vars, Phase
<1>1. CASE Rests
  BY <1>1 DEF Rests, uicrVars
<1>2. CASE Loses
  <2>1. CASE sealWord # SEALED_SECRET
    BY <1>2, <2>1 DEF Loses
  <2>2. CASE sealWord = SEALED_SECRET /\ uicr \in provisioned
    <3>1. CASE uicr' \in provisioned
      <4>1. uicr' = uicr
        BY <2>2, <3>1 DEF OnlyLoses
      <4> QED
        BY <1>2, <4>1 DEF Loses
    <3>2. CASE uicr' \notin provisioned
      <4>1. Lifecycle!BeginWipe
        BY <1>2, <2>2, <3>2 DEF Loses, Lifecycle!BeginWipe
      <4> QED
        BY <4>1 DEF Lifecycle!Next
    <3> QED
      BY <3>1, <3>2
  <2>3. CASE sealWord = SEALED_SECRET /\ uicr \notin provisioned
    <3>1. uicr' \notin provisioned
      <4> SUFFICES ASSUME uicr' \in provisioned
                   PROVE  FALSE
        OBVIOUS
      <4>1. \A i \in Words : uicr[i] = uicr'[i]
        BY <1>2, <2>3 DEF OnlyLoses, Loses, Shrinks
      <4>2. uicr = uicr'
        BY <1>2, <4>1 DEF Loses, Contents, IInv, TypeOK
      <4> QED
        BY <2>3, <4>2
    <3> QED
      BY <1>2, <2>3, <3>1 DEF Loses
  <2> QED
    BY <2>1, <2>2, <2>3
<1>3. CASE ReadsBack
  <2>1. sealWord # SEALED_SECRET
    BY <1>3 DEF ReadsBack, IInv, Machine, JobIsWhole
  <2> QED
    BY <1>3, <2>1 DEF ReadsBack, uicrVars
<1>4. CASE Sealing
  <2>1. CASE /\ uicr \in provisioned
             /\ uicr \in Secrets
             /\ SEALED_SECRET \subseteq sealWord /\ sealWord # SEALED_SECRET
             /\ SEALED_SECRET \subseteq sealWord'
    <3>1. CASE sealWord' = SEALED_SECRET
      <4>1. Lifecycle!Provision(uicr)
        BY <1>4, <2>1, <3>1 DEF Sealing, Lifecycle!Provision
      <4> QED
        BY <2>1, <4>1 DEF Lifecycle!Next
    <3>2. CASE sealWord' # SEALED_SECRET
      BY <2>1, <3>2
    <3> QED
      BY <3>1, <3>2
  <2>2. CASE sealWord = SEALED_SECRET /\ sealWord' \subseteq SEALED_SECRET
    <3>1. CASE sealWord' = SEALED_SECRET
      BY <1>4, <2>2, <3>1 DEF Sealing
    <3>2. CASE sealWord' # SEALED_SECRET
      <4>1. ~(SEALED_SECRET \subseteq sealWord')
        BY <2>2, <3>2
      <4>2. Lifecycle!FinishWipe
        BY <2>2, <3>2, <4>1 DEF Lifecycle!FinishWipe
      <4> QED
        BY <4>2 DEF Lifecycle!Next
    <3> QED
      BY <3>1, <3>2
  <2> QED
    BY <1>4, <2>1, <2>2, SealStep
<1> QED
  BY <1>1, <1>2, <1>3, <1>4, UicrStep DEF IInv

(* The secret has the life that the constants describe: whatever is asked  *)
(* and wherever the power fails, it is sealed once, with a secret that was *)
(* sent and read back; wiped once; and it never comes back.                *)
THEOREM FollowsLifecycle == Spec => LifecycleSpec
<1>1. Init => OnlyLoses /\ Lifecycle!Init
  BY Seals DEF Init, OnlyLoses, Lifecycle!Init, Phase, Blank
<1>2. Spec => [](IInv /\ OnlyLoses)
  <2>1. Spec => []OnlyLoses
    BY <1>1, Invariance, OnlyLosesStep, PTL DEF Spec
  <2> QED
    BY <2>1, Invariance, PTL
<1>3. Spec => Lifecycle!Init /\ [][Lifecycle!Next]_(Lifecycle!vars)
  BY <1>1, <1>2, LifecycleStep, PTL DEF Spec
<1> QED
  BY <1>3 DEF LifecycleSpec, Lifecycle!Spec
=============================================================================
