CONSTANTS
    alice = alice
    bob = bob
    k1 = k1
    k2 = k2
    h1 = h1
    h2 = h2
    NoHash = NoHash
    NoFingerprint = NoFingerprint
    Blank = Blank
    Torn = Torn
    User <- MCUser
    Key = {k1, k2}
    Hash = {h1, h2}
    Content <- SharedContent
    Expiry <- MCExpiry
    AllowPassword = TRUE
    AllowPublicKey = TRUE
    FirstId = 1
    LastId = 3
    Refreshers = {r1}
    DisableMissingUsers = TRUE
    MaxEdits = 1
    MaxFaults = 1
    MaxTime = 0
SPECIFICATION Spec
PROPERTIES LoneRefreshRepairs LonePassKeepsIdentities
CHECK_DEADLOCK FALSE
