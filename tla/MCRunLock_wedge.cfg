SPECIFICATION ProbeSpec
CONSTANTS
    p1 = p1  p2 = p2  p3 = p3
    c1 = c1  c2 = c2  c3 = c3
    Nobody = Nobody
    Calls = {c1, c2, c3}
    Processes = {p1, p2, p3}
    Owner <- OwnerTwice
    AppendFaults = {}
    Recycling = {"reused"}
    Timeouts = FALSE
PROPERTIES DeadOwnersNeverWedge
CHECK_DEADLOCK FALSE
