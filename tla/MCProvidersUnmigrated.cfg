SPECIFICATION Spec
CONSTANTS
    alice = alice
    bob = bob
    k1 = k1
    k2 = k2
    laptop = laptop
    p1 = p1
    p2 = p2
    NoUser = NoUser
    NoLabel = NoLabel
    Rejected = Rejected
    Blank = Blank
    Garbled = Garbled
    NoTable = NoTable
    User = {alice, bob}
    Key = {k1, k2}
    Label = {laptop}
    Proc = {p1, p2}
    Requests <- ReadAndDeploy
    Initial <- Unmigrated
    Backends = {"sqlite"}
    MaxCommands = 2
    MaxFaults = 0
CHECK_DEADLOCK FALSE
INVARIANT DeployKeepsEveryKey
