SPECIFICATION Spec
CONSTANTS
    None = None  Marker = Marker  MarkerSize = 1
    A = A  B = B  C = C
    r1 = r1  r2 = r2  r3 = r3
    ev1 = ev1  ev2 = ev2  ev3 = ev3  ev4 = ev4
    inv = inv
    p1 = p1  p2 = p2
    e1 = e1  e2 = e2
    FindingId = f
    Scope <- ScopeOf
    Processes = {p1, p2}
    Escalations = {e1, e2}
    Inputs <- SmallInputs
    FollowUps <- SmallFollowUps
    Directives <- SmallDirectives
    MaxExchanges = 3
    MaxIds = 5
SYMMETRY Symmetric
INVARIANTS AnswersAreAsked FollowUpsChain TicketsAreAuthorized 
PROPERTIES AnswersAreFinal
CHECK_DEADLOCK FALSE
