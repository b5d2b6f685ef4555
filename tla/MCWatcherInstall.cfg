SPECIFICATION Spec
CONSTANTS
    c1 = c1
    c2 = c2
    p1 = p1
    p2 = p2
    NoMode = NoMode
    Blank = Blank
    Broken = Broken
    Proc = {p1, p2}
    Context = {c1, c2}
    Keyless = {c2}
    Hosts <- MCHosts
    Requests <- MCRequests
    MaxCommands = 3
    MaxFaults = 1
SYMMETRY Symmetry
CHECK_DEADLOCK FALSE
INVARIANTS TypeOK RecordIsTrue NothingLeftBehind NoRemovedContexts InstallRecovers
