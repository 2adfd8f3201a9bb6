CONSTANTS
    shop = shop
    pay = pay
    t1 = t1
    t2 = t2
    NONE = NONE
    Pairs = {shop, pay}
    Tables = {t1, t2}
    SchemaPairs <- MCSchemaPairs
    CheckNames <- MCCheckNames
    Engine <- PostgresSource
    Wanted <- MCWanted
    Target <- MCTarget
    Checks <- ReportChecks
    BadRule <- OneBadRule
    Raising <- MCRaising
    Lacking <- LateColumn
    Naming <- MCNaming
SPECIFICATION FairSpec
INVARIANTS
    TypeOK
    NothingLost
    GreenIsEarned
PROPERTIES
    KeepsContract
    OnlyPostgresHangs
