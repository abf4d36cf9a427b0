\* Two spiders at once, or one after the other: three runs, two offers, three items.
SPECIFICATION Spec
CONSTANTS
    Runs = {r1, r2, r3}
    Offers = {o1, o2}
    Sellers = {s1}
    Variants = {v1}
    Prices = {cheap, dear}
    Urls = {u1}
    MaxOpen = 2
    Keep = 1
    MaxClock = 3
    MaxSqlErrors = 1
    NoSeller = NoSeller
    NoVariant = NoVariant
    NoPrice = NoPrice
    NoOffer = NoOffer
    BadPrice = BadPrice
SYMMETRY Symmetry
CHECK_DEADLOCK FALSE
INVARIANTS
    SummaryIsNewestObservation
    ObservedOfferIsAccountedFor
    LastChangeIsLastPriceMove
    RetainedEvidenceIsComplete
    CollectedPageHasEvidence
