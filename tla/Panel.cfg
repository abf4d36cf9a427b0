\* Two products, selections and collections in any order; runs that never end included.
SPECIFICATION FairSpec
CONSTANTS
    Products = {phone, tablet}
    Models = {m1, m2}
    Sources = {s1, s2}
    MaxPolls = 1
    MaxClicks = 2
    MaxCollects = 1
    NoProduct = NoProduct
    NoVariant = NoVariant
CHECK_DEADLOCK FALSE
INVARIANTS
    SpinnerWaits
    SelectionIsOfProduct
    NavigationNeverMixes
PROPERTIES
    CollectionEnds
