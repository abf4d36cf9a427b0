\* Every adapter on pages of up to three entries, each right or with one defect.
SPECIFICATION Spec
CONSTANTS
    Catalogue <- MCCatalogue
    ModelAliases <- MCModelAliases
    CapacityOf <- MCCapacityOf
    Terabytes <- MCTerabytes
    Adapters <- AllButBondfaro
    Pages <- MCPages
    MaxOffers = 2
    MaxVariants = 2
    MaxSkips = 1
CHECK_DEADLOCK FALSE
INVARIANTS
    
    
    FiledAsSold
