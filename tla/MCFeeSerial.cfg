\* One request at a time: every call of the engine, every kind of posting.
CONSTANTS
    Student = {s1}
    N = 2
    Payment = {p1, p2}
    Key = {}
    NoKey = NoKey
    NoStudent = NoStudent
    Amount = {1, 3}
    DueDate = {1, 3}
    Today = 2
    Method = {"CASH", "CHEQUE"}
    Scope <- AllInvoices
    CashLimit = 4
    Penalty = {2}
    Desk = {"REFUND", "WRITE_OFF"}
    MaxWriteOff = 1
    Worker = {w1}
    MaxNumbers = 1
    Calls = {"demand", "pay", "refund", "bounce", "manual"}
SYMMETRY Sym
SPECIFICATION RSpec
CHECK_DEADLOCK FALSE
INVARIANTS
    InvoiceTie
    MoneyAccounted
PROPERTIES
    OldestDueFirst
    ImplementsLedger
