\* Two runs of a lab source; no fault at all.
SPECIFICATION Spec
CONSTANTS
    Clients = {c1, c2}
    Workers = {w1}
    Sources = {lab}
    LabSources = {lab}
    Products = {phone}
    Pages = {p1, p2}
    Jobs = {j1, j2}
    MaxMinute = 1
    MaxClicks = 2
    MaxErrors = 0
    MaxCrashes = 0
    MaxRetries = 1
    NoRun = NoRun
    NoJob = NoJob
    NoPage = NoPage
SYMMETRY Symmetry
CHECK_DEADLOCK FALSE
INVARIANTS
    SucceededRunObservedItsPages
