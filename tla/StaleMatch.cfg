\* A listing that matched is rejected by a later run.
SPECIFICATION Spec
CONSTANTS
    Runs = {r1, r2}
    Offers = {o1}
    Sellers = {s1}
    Variants = {v1}
    Prices = {cheap}
    Urls = {u1}
    MaxOpen = 1
    Keep = 1
    MaxClock = 2
    MaxSqlErrors = 1
    NoSeller = NoSeller
    NoVariant = NoVariant
    NoPrice = NoPrice
    NoOffer = NoOffer
    BadPrice = BadPrice
SYMMETRY Symmetry
CHECK_DEADLOCK FALSE
INVARIANTS
    UnmatchedOfferIsNotCompared
