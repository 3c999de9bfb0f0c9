SPECIFICATION FairSpec
CONSTANTS
    Order = {o1}
    Attempt = {p1, p2}
    None = None
    Handler = {h1}
    MaxEdits = 1
    MaxCrashes = 1
    MaxSubmissions = 2
PROPERTIES
    OverdueCloses
