SPECIFICATION FairSpec
CONSTANTS
    Order = {o1}
    Attempt = {p1}
    None = None
    Handler = {h1, h2}
    MaxEdits = 0
    MaxCrashes = 0
    Authority = {x1}
PROPERTIES
    PaidIsSold
