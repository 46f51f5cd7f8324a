SPECIFICATION FairSpec
CONSTANTS
    f1 = f1  f2 = f2  f3 = f3
    r1 = r1  r2 = r2
    NoRef = NoRef
    NoFinding = NoFinding
    Findings = {f1, f2, f3}
    Refs = {r1, r2}
    FirstRef = r1
    Contracts = {"LOW_RISK", "HIGH_RISK", "REVIEW_REQUIRED"}
    UnitCalls = 8
    RunCalls = 16
    MaxSteps = 8
INVARIANTS ApprovalIsEarned OneRepairAtATime SolIsAskedOnce  OkIsOnDisk SentWorkIsBound
PROPERTIES  KeepsPromise
CHECK_DEADLOCK FALSE
