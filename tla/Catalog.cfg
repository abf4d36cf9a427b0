\* Two requests beside the seed of two versions, which is run twice.
SPECIFICATION FairSpec
CONSTANTS
    c1 = c1
    c2 = c2
    s1 = s1
    Clients = {c1, c2}
    Seeders = {s1}
    Bodies <- MCBodies
    Registries <- MCRegistries
    Roots <- MCRoots
    InitialSources <- MCInitialSources
    Lower <- MCLower
    NoGtin = NoGtin
    Committed = Committed
    MaxSeeds = 2
CHECK_DEADLOCK FALSE
INVARIANTS
    CatalogueIsKeyed
    CreatedIsWhole
    SeedIsInTheCatalogue
    OneCollectorPerShop
    MatchIsUnambiguous
PROPERTIES
    
    EveryTransactionEnds
