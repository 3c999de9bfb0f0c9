SPECIFICATION Spec
CONSTANTS
    cr = cr  cp = cp  cm = cm  o1 = o1  g1 = g1  i1 = i1
    h1 = h1  h2 = h2  k1 = k1  k2 = k2  k3 = k3
    None = None
    Check = {cr, cp, cm}
    Direction <- MCDirection
    Source <- MCSource
    Amount <- MCAmount
    Key = {k1, k2, k3}
    Handler = {h1, h2}
    Order = {o1}
    Receipt = {g1}
    OrderOf <- MCOrderOf
    Worth <- MCWorth
    Invoice = {i1}
    ReceiptOf <- MCReceiptOf
    GrandTotal <- MCGrandTotal
    Transfer = {1}
INVARIANTS
    TypeOK
    BooksMatchChecks
    CustomerOwes
    PayablesMatch
    ReceivedWasSent
SYMMETRY MCSymmetry
CHECK_DEADLOCK FALSE
