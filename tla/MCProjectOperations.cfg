SPECIFICATION Spec
CONSTANTS
    Absent = Absent
    Torn = Torn
    Attached = Attached
    NotMade = NotMade
    NoArchive = NoArchive
    Unread = Unread
    Version = {1, 2}
    Proc = {1, 2}
    Scenarios <- MCScenarios
    Requests <- MCRequests
    MaxEdits = 1
    MaxCommands = 2
    MaxFaults = 1
CHECK_DEADLOCK FALSE
INVARIANTS TypeOK DeployDelivers RestoreRestores RestoreIsUndoable
PROPERTY DeployTakesHold
