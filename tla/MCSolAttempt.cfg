SPECIFICATION FairSpec
CONSTANTS
    controller = controller
    op1 = op1  op2 = op2
    i1 = i1  i2 = i2
    None = None
    NoInv = NoInv
    Invs = {i1, i2}
    Controller = controller
    Operators = {op1}
    Faults = {"marker", "auth", "remove", "unverified", "lock", "evidence", "ledger"}
    MaxCrashes = 1
    SpawnIsPrompt = TRUE
INVARIANTS CredentialsAreMarked TerminalRunIsClean  ResponsesAreProven
PROPERTIES ImplementsCustody DeadRunsEnd
CHECK_DEADLOCK FALSE
