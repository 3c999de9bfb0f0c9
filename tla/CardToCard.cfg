SPECIFICATION Spec
CONSTANTS
    Order = {o1}
    Attempt = {p1}
    None = None
    Handler = {h1, h2}
    MaxEdits = 0
    MaxCrashes = 0
    MaxSubmissions = 2
INVARIANTS
    TypeOK
    ApprovedIsPaid
    RejectedHoldsNothing
PROPERTIES
    OnlyApprovalPays
    KeepsPromise
SYMMETRY HandlerSymmetry
