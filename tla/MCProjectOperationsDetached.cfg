SPECIFICATION Spec
CONSTANTS
    Absent = Absent
    Torn = Torn
    Attached = Attached
    NotMade = NotMade
    NoArchive = NoArchive
    Unread = Unread
    Version = {1, 2}
    Proc = {1, 2}
    Scenarios <- Synced
    Requests <- Deploys
    MaxEdits = 1
    MaxCommands = 2
    MaxFaults = 0
CHECK_DEADLOCK FALSE
INVARIANT DeployReachesRuntime
