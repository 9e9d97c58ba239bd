CONSTANTS
    NumWords = 2
    WordBits <- MCWordBits
    Secrets <- MCSecrets
SPECIFICATION Spec
INVARIANT
    SealMeansProvisioned
