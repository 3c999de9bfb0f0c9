SPECIFICATION FairSpec
CONSTANTS
    Order = {o1}
    Attempt = {p1}
    None = None
    Handler = {h1, h2}
    MaxEdits = 1
    MaxCrashes = 1
    Authority = {x1}
INVARIANTS
    PaidEventTruthful
PROPERTIES
    VerificationEnds
