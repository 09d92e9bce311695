\* Payments: two requests in flight, with and without the same key.
\* Desk: two pupils whose bills get one number, two fee heads, two cheques, two slips, two of five requests at once.
CONSTANTS
    Student = {s1}
    N = 2
    Payment = {p1, p2, p3}
    Key = {k1}
    NoKey = NoKey
    NoStudent = NoStudent
    Amount = {1, 3}
    DueDate = {1}
    Today = 2
    Method = {"CASH"}
    Scope <- AllInvoices
    CashLimit = 9
    Penalty = {}
    Desk = {}
    MaxWriteOff = 0
    Worker = {w1, w2}
    MaxNumbers = 0
    Calls = {"demand", "pay"}
    Pupil = {c1, c2}
    Tail <- OneTail
    Head = {"x", "y"}
    Price <- TwoHeads
    Off = {2}
    Period = {"april"}
    Cheque = {c1, c2}
    Slip = {c1, c2}
    Clerk = {w1, w2}
    MaxDesk = 5
    MaxBills = 4
SYMMETRY Sym
SPECIFICATION RaceSpec
CHECK_DEADLOCK FALSE
INVARIANTS
    KeysAndReceiptsOnce
    LedgerIsAllocations
    DeskAgrees
