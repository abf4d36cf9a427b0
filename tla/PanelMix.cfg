\* A product is opened from the catalogue while a collection runs.
SPECIFICATION Spec
CONSTANTS
    Products = {phone, tablet}
    Models = {m1}
    Sources = {s1}
    MaxPolls = 1
    MaxClicks = 1
    MaxCollects = 1
    NoProduct = NoProduct
    NoVariant = NoVariant
CHECK_DEADLOCK FALSE
SYMMETRY Symmetry
INVARIANTS
    ShownSnapshotIsOfSelection
