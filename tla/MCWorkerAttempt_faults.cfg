SPECIFICATION Spec
CONSTANTS
    p1 = p1  p2 = p2
    i1 = i1  i2 = i2
    a = a  b = b
    NoPid = NoPid
    NoInv = NoInv
    NoPort = NoPort
    Pids = {p1, p2}
    Invs = {i1, i2}
    Ports = {a, b}
    Escapes = {"fork", "group", "marker", "ignore", "blind"}
    Failing = {"broker", "boundary", "config", "spawn", "record"}
    MaxWrites = 1
INVARIANTS VerifiedMeansGone TransportIsOwn PatchIsFinal
CHECK_DEADLOCK FALSE
SYMMETRY Symmetry
