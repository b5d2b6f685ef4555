SPECIFICATION FairSpec
CONSTANTS
    alpha = alpha
    beta = beta
    old = old
    new = new
    Context = {alpha, beta}
    Rank <- MCRank
    Host = {h1, h2}
    NoHost = NoHost
    Content = {old, new}
    Partial = Partial
    Absent = Absent
    Size <- MCSize
    UsesScp = FALSE
    TicksPerSecond = 3
    MaxTime = 3
    MaxChanges = 1
    MaxEdits = 1
    MaxFaults = 1
INVARIANTS TypeOK NoLostEdit
PROPERTY CatchesUp
