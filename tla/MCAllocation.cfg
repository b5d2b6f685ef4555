CONSTANTS
    alice = alice
    bob = bob
    carol = carol
    k1 = k1
    h1 = h1
    NoHash = NoHash
    NoFingerprint = NoFingerprint
    User <- MCUser
    Key = {k1}
    Hash = {h1}
    Content <- MCContent
    Expiry <- MCExpiry
    AllowPassword = TRUE
    AllowPublicKey = TRUE
    FirstId = 1
    LastId = 3
    SavedIds = {1, 2}
SPECIFICATION Spec
INVARIANTS TypeOK NewIdsAreFresh SavedIdsPreserved LoopMatchesDefinition
PROPERTY Terminates
CHECK_DEADLOCK FALSE
