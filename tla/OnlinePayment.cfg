SPECIFICATION Spec
CONSTANTS
    Order = {o1}
    Attempt = {p1, p2}
    None = None
    Handler = {h1, h2}
    MaxEdits = 1
    MaxCrashes = 0
    Authority = {x1, x2}
INVARIANTS
    TypeOK
    EffectsAreCaptured
    AuthorityUnique
PROPERTIES
    KeepsPromise
SYMMETRY HandlerSymmetry
