\* Billing: two sales at once, two dispatchers or a ladder of five days, one hand write.
\* Provisioning: two operators on one slug, provisioned, deleted and provisioned anew.
\* Set-up: three requests, two at once, for two schools, a further branch, two users.
CONSTANTS
    Tenant = {s1}
    Clerk = {c1, c2}
    Drainer = {d1, d2}
    Worker = {w1}
    After <- ShortAfter
    Wait <- ShortWait
    LowMark = 0
    LastDay = 4
    MaxSales = 2
    MaxSpends = 2
    MaxEvents = 2
    MaxByHand = 1
    Operator = {c1, c2}
    MaxTenants = 2
    MaxVersion = 3
    Faults = 2
    Code = {k1, k2}
    Campus = {l1}
    User = {c1, c2}
    Setter = {c1, c2}
    MaxSet = 3
SPECIFICATION PlaneSpec
SYMMETRY Symmetric
CHECK_DEADLOCK FALSE
INVARIANTS
    SalesAddUp
    TrailExplains
    RegistryIsTrue
    SetupAgrees
