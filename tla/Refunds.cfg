SPECIFICATION Spec
CONSTANTS
    r1 = r1  r2 = r2  c1 = c1  c2 = c2
    h1 = h1  h2 = h2
    None = None
    Return = {r1, r2}
    Counter = {c1, c2}
    Handler = {h1, h2}
    Qty <- MCQty
    Method <- MCMethod
    Ordered = 1
    Sold = 2
    Sellable = {r1}
    Seeded = {"CASH", "BANK"}
    Opening = 1
INVARIANTS
    TypeOK
    PaidOnce
    GoodsFirst
    StatusTellsMoney
SYMMETRY MCHandlers
CHECK_DEADLOCK FALSE
