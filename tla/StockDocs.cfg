SPECIFICATION Spec
CONSTANTS
    main = main  shop = shop
    t1 = t1  d1 = d1  q1 = q1  s1 = s1  r1 = r1
    h1 = h1  h2 = h2
    NoDoc = NoDoc  NoCount = NoCount
    Warehouse = {main, shop}
    Transfer = {t1}
    Damage = {d1}
    Quarantine = {q1}
    Stocktake = {s1}
    Request = {r1}
    Handler = {h1, h2}
    From <- MCFrom
    To <- MCTo
    At <- MCAt
    About <- MCAbout
    Qty <- MCQty
    Tolerance <- MCTolerance
    Threshold = 0
    Costed = {main, shop}
    Opening <- MCOpening
    Counts = {0, 4}
    MaxStock = 1
INVARIANTS
    TypeOK
    TransferConserves
    StateShowsMove
    BookedWithGoods
    AdjustedIsApproved
SYMMETRY MCHandlers
CONSTRAINT FewDocuments
