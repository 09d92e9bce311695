\* Sessions: two requests at a time over the sessions of one user, with one
\* support grant; two tabs of one browser.
\* Staff: five requests for one person, two at once.
\* Imports: two uploads of two rows on two numbers, one pupil changed by hand.
\* Gate: two requests or logins, four changes of the control plane: a school is
\* closed, deleted, and its address given to another; a tick is the minute of the cache.
CONSTANTS
    Request = {r1, r2}
    Tab = {r1, r2}
    Family = {f1, f2}
    Depth = 3
    MaxPairs = 3
    Grant = {g1}
    Self = Self
    MaxChanges = 1
    Person = {m1}
    Role = {"teacher", "clerk"}
    BaseRole = "teacher"
    Net = {1, 2}
    Office = {r1, r2}
    MaxStaff = 5
    Number = {f1, f2}
    Job = {r1, r2}
    MaxTouched = 1
    Tenant = {f1, f2}
    Slug = {s1}
    Caller = {r1, r2}
    Ttl = 0
    MaxPool = 1
    Queries = 2
    MaxTime = 1
    MaxTurns = 4
    MaxCalls = 2
SYMMETRY Sym
SPECIFICATION PortalSpec
CHECK_DEADLOCK FALSE
INVARIANTS
    RevokedStaysRevoked
    UsedOnce
    ClaimsAreLive
    StaysSignedIn
    StaffAgrees
    ImportIsTrue
    GateAgrees
