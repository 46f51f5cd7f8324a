SPECIFICATION FairSpec
CONSTANTS
    s1 = s1  s2 = s2  s3 = s3
    i1 = i1  i2 = i2
    NoInv = NoInv
    None = None
    Sessions = {s1, s2}
    Invs = {i1}
    MaxLive = 2
    Operations = {"START", "COMPLETION", "ASSESSMENT", "RECONCILIATION", "orphans", "finalize", "abort"}
    Faults = {"refused", "unsynced", "short", "projection", "record", "release", "sweep"}
INVARIANTS TypeOK OneLifecycle AnchorMatchesLedger ProjectionIsPast
PROPERTIES TerminalIsFrozen ImplementsRunLifecycle EveryOperationReturns
CHECK_DEADLOCK FALSE
