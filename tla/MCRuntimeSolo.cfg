CONSTANTS
    alice = alice
    bob = bob
    k1 = k1
    k2 = k2
    h1 = h1
    h2 = h2
    NoHash = NoHash
    NoFingerprint = NoFingerprint
    Blank = Blank
    Torn = Torn
    User <- MCUser
    Key = {k1, k2}
    Hash = {h1, h2}
    Content <- MCContent
    Expiry <- MCExpiry
    AllowPassword = TRUE
    AllowPublicKey = TRUE
    FirstId = 1
    LastId = 3
    Refreshers = {}
    DisableMissingUsers = TRUE
    MaxEdits = 2
    MaxFaults = 2
    MaxTime = 1
SPECIFICATION FairSpec
INVARIANTS TypeOK FingerprintTruthful KnownRemovedUsersLocked
PROPERTIES IdentitiesPreserved Converges
CHECK_DEADLOCK FALSE
