SPECIFICATION Spec
CONSTANTS
    p1 = p1  p2 = p2
    i1 = i1  i2 = i2  i3 = i3
    d1 = d1
    NoId = NoId
    NoPath = NoPath
    NoTree = NoTree
    Missing = Missing
    Procs = {p1, p2}
    Ids = {i1, i2}
    Paths = {d1}
    LockRetries = 2
    MaxContent = 2
    MaxCrashes = 0
    LongPauses = FALSE
    WorkersQuiesce = TRUE
PROPERTY NoContentLost
CHECK_DEADLOCK FALSE
