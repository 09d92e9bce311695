\* The drain route and the timer, which may overlap; one pass may die.
CONSTANTS
    M = 1
    Drainer = {api, timer}
    Gated = {api}
    MaxAttempts = 2
    Batch = 1
    Units = 1
    Receipts = {"DELIVERED", "READ", "FAILED"}
    MaxCrashes = 1
SPECIFICATION FairSpec
CHECK_DEADLOCK FALSE
INVARIANTS
    SentOnceAlone
    StatusTellsFate
PROPERTIES
    QueuedIsSettled
