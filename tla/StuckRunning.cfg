\* The deployed worker; one exception after mark_running.
SPECIFICATION FairSpec
CONSTANTS
    Clients = {c1}
    Workers = {w1}
    Sources = {lab}
    LabSources = {lab}
    Products = {phone}
    Pages = {p1}
    Jobs = {j1}
    MaxMinute = 0
    MaxClicks = 1
    MaxErrors = 1
    MaxCrashes = 0
    MaxRetries = 1
    NoRun = NoRun
    NoJob = NoJob
    NoPage = NoPage
CHECK_DEADLOCK FALSE
PROPERTIES
    StartedRunTerminates
