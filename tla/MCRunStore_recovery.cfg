SPECIFICATION Spec
CONSTANTS
    s1 = s1  s2 = s2  s3 = s3
    i1 = i1  i2 = i2
    NoInv = NoInv
    None = None
    Sessions = {s1, s2}
    Invs = {i1}
    MaxLive = 1
    Operations = {"START", "COMPLETION", "ASSESSMENT", "orphans"}
    Faults = {}
INVARIANT ReconciledRunCanFinalize
CHECK_DEADLOCK FALSE
