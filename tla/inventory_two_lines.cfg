SPECIFICATION Spec
CONSTANTS
    o1 = o1  o2 = o2  t1 = t1  t2 = t2
    poolA = poolA  shadeA = shadeA  poolB = poolB
    None = None
    Orders = {o1, o2}
    Units = {poolA, shadeA, poolB}
    Txns = {t1, t2}
    Basket <- TwoLinesOfOneProduct
    Rank <- MigrationRank
    InitialStock <- PoolOnlyStock
    StockLevels = {2}
    Authoritative = TRUE
    Lapses = {FALSE}
    MayFail = FALSE
SYMMETRY TxnSymmetry
INVARIANTS
    PoolHoldsWholeBasket
