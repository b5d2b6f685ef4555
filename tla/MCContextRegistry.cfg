SPECIFICATION Spec
CONSTANTS
    alpha = alpha
    beta = beta
    r1 = r1
    r2 = r2
    Name = {alpha, beta}
    NoName = NoName
    Root = {r1, r2}
    NoRoot = NoRoot
    NoConfig = NoConfig
    Gone = Gone
    Cli = {c1, c2}
    Initial <- MCInitial
    MaxCommands = 2
    MaxFaults = 1
    MaxEvents = 1
INVARIANTS TypeOK DefaultIsRegistered
PROPERTIES LoneCommandsKeepTheBook LoneRemovalSparesShared LoneCleanupIsDue
SYMMETRY Invocations
CHECK_DEADLOCK FALSE
