SPECIFICATION FairSpec
CONSTANTS
    a = a
    b = b
    main = main
    shop = shop
    k1 = k1
    k2 = k2
    Sku <- MCSku
    Warehouse <- MCWarehouse
    Main = main
    Txn = {t1, t2, t3}
    NoTxn = NoTxn
    Order = {o1, o2}
    MoveKey <- MCKeys
    NoKey = NoKey
    Jobs <- MCJobs
    Carts <- MCCarts
    Opening <- MCOpening
    Threshold <- MCThreshold
    MinRestock = 1
INVARIANTS
    TypeOK
    LedgerChain
    ProjectionMatchesLedger
    ConsumedIffSold
    StockConservation
PROPERTIES
    NoOverHold
    RunsAsIfAlone
    EveryTxnEnds
