SPECIFICATION DeadlineSpec
CONSTANTS
    p1 = p1  p2 = p2  p3 = p3
    c1 = c1  c2 = c2  c3 = c3
    Nobody = Nobody
    Calls = {c1, c2, c3}
    Processes = {p1, p2, p3}
    Owner <- OwnersDiffer
    AppendFaults = {"refused", "unsynced", "short"}
    Recycling = {"reused", "twin"}
    Timeouts = TRUE
INVARIANTS MutualExclusion
PROPERTIES ImplementsFifoLock EveryCallReturns
CHECK_DEADLOCK FALSE
