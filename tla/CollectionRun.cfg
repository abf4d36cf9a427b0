\* One worker slot, as compose.yaml starts it; two runs, one crash, and one exception
\* more than retries.
SPECIFICATION FairSpec
CONSTANTS
    Clients = {c1, c2}
    Workers = {w1}
    Sources = {lab}
    LabSources = {lab}
    Products = {phone}
    Pages = {p1, p2}
    Jobs = {j1, j2}
    MaxMinute = 1
    MaxClicks = 2
    MaxErrors = 2
    MaxCrashes = 1
    MaxRetries = 1
    NoRun = NoRun
    NoJob = NoJob
    NoPage = NoPage
CHECK_DEADLOCK FALSE
INVARIANTS
    AtMostOneSpider
    PendingRunIsCarried
    RunningRunIsHeld
PROPERTIES
    OutcomeReflectsPages
    RunPromise
    
    QueuedRunIsTakenUp
