SPECIFICATION FairSpec
CONSTANTS
    o1 = o1  o2 = o2  t1 = t1  t2 = t2
    poolA = poolA  shadeA = shadeA  poolB = poolB
    None = None
    Orders = {o1, o2}
    Units = {poolA, shadeA, poolB}
    Txns = {t1, t2}
    Basket <- OneShadeTwoProducts
    Rank <- MigrationRank
    InitialStock <- NoPoolBYet
    StockLevels = {0, 1}
    Authoritative = TRUE
    Lapses = {FALSE}
    MayFail = FALSE
INVARIANTS
    ClaimCoversEveryLine
PROPERTIES
    EveryTransactionEnds
