CONSTANTS
    NumWords = 2
    WordBits <- MCWordBits
    Secrets <- MCSecrets
SPECIFICATION Spec
INVARIANTS
    TypeOK
    SealCopyAgrees
    SealedAnswerHolds
    DeveloperIsUnsealed
    RetryCanSucceed
PROPERTY
    LifecycleSpec
