SPECIFICATION FairSpec
CONSTANTS
    p1 = p1  p2 = p2  w1 = w1  e1 = e1  d1 = d1
    None = None
    Admin = Admin
    Event = {e1}
    Pass = {p1, p2}
    Worker = {w1}
    Sender <- MCSender
    Delivery = {d1}
    Window = 1
    WebhookMaxAttempts = 2
    MaxAttempts = 2
    MaxDeaths = 1
    MaxRetries = 1
INVARIANTS
    TypeOK
    OutcomeIsTrue
    VerdictIsTrue
    MessagesBounded
PROPERTIES
    EventEnds
CHECK_DEADLOCK FALSE
