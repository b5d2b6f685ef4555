SPECIFICATION Spec
CONSTANTS
    alpha = alpha
    beta = beta
    r1 = r1
    r2 = r2
    Name = {alpha, beta}
    NoName = NoName
    Root = {r1, r2}
    NoRoot = NoRoot
    NoConfig = NoConfig
    Gone = Gone
    Cli = {c1}
    Initial <- FreshInitial
    MaxCommands = 2
    MaxFaults = 0
    MaxEvents = 0
PROPERTY PruneDropsOnlyDeleted
CHECK_DEADLOCK FALSE
