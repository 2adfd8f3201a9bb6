CONSTANTS
    shop = shop
    pay = pay
    t1 = t1
    t2 = t2
    NONE = NONE
    Pairs = {shop, pay}
    Tables = {t1, t2}
    SchemaPairs <- MCSchemaPairs
    CheckNames <- MCCheckNames
    Engine <- PostgresSource
    Wanted <- MCWanted
    Target <- MCTarget
    Checks <- ErrorChecks
    BadRule <- NoBadRule
    Raising <- MCRaising
    Lacking <- LateColumn
    Naming <- MCNaming
SPECIFICATION Spec
INVARIANTS
    OneMeansWarnings
