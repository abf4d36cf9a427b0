\* Two capacities, two products, one retry, every kind of adapter.
SPECIFICATION Spec
CONSTANTS
    Adapters = {"zoom", "carrefour", "kabum", "amazon", "buscape", "iplace", "fast_shop"}
    Capacities = {c1, c2}
    Pages = {p1, p2}
    MaxResults = 2
    MaxOfferPages = 2
    RetryTimes = 1
    MaxDelay = 1
    AskedDelays = {2}
    Concurrency = 2
    Budget <- PageBudget
    NoCapacity = NoCapacity
    NoPage = NoPage
SYMMETRY Symmetry
CHECK_DEADLOCK FALSE
INVARIANTS
    
    BrowserFollowsAllowedAnswer
    NothingIsForgotten
    OfferPagesInOrder

    
