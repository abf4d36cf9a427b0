\* Four observations of seven offers, at two prices or on a condition, half of them grown stale.
SPECIFICATION Spec
CONSTANTS
    Aggregators = {"zoom"}
    RetailerOf <- MCRetailerOf
    Variants <- MCVariants
    StorageOf <- MCStorageOf
    ColorOf <- MCColorOf
    Listings <- MCListings
    Quotes <- MCQuotes
    MaxAge = 0
    MaxNow = 1
    MaxObservations = 4
CHECK_DEADLOCK FALSE
INVARIANTS
    
    EveryOfferExplained
    MedianSplitsMarket
    StepsAreSupported
    ColorsIgnoreStorage
PROPERTIES
    CopiesAreSilent
