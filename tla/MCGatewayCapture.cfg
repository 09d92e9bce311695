\* Two intents, two attempts, one handler beside the reconciler, one fault;
\* a reconcile run looks at one row, so that an older order can keep it from the other.
CONSTANTS
    NP = 2
    Attempt = {a1, a2}
    NoAttempt = NoAttempt
    Handler = {h1}
    Reconciler = r
    Batch = 1
    Outcomes = {"failed", "authorized", "captured"}
    Exact = {TRUE, FALSE}
    MaxFaults = 1
SPECIFICATION FairSpec
CHECK_DEADLOCK FALSE
PROPERTIES
    ImplementsIntents
    PaidIsCredited
