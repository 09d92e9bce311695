------------------------------ MODULE FeeLedger ------------------------------
(***************************************************************************)
(* The fee engine of packages/domain, at the granularity of one database   *)
(* transaction: invoices, payments with their allocations, and the         *)
(* append-only fee ledger of one branch in one academic year.              *)
(*                                                                         *)
(* Every action is one whole call of the engine, run with no other call in *)
(* flight. It is the specification of what the engine promises; FeeRequests *)
(* interleaves the same calls the way READ COMMITTED transactions do and is *)
(* compared with it.                                                       *)
(*                                                                         *)
(* The ledger is kept as the net of its entries per account: an account is *)
(* an invoice (entries that carry its invoiceId) or a student (entries     *)
(* posted without one: manual refunds, write-offs, bounce penalties).      *)
(* Money is in whole units; Decimal(12,2) rounding is not modelled.        *)
(***************************************************************************)
EXTENDS Integers, Functions

CONSTANTS
    Student,        \* the students of the branch
    N,              \* bound: at most N invoices are ever created
    Payment,        \* the Payment rows that can be created
    Key,            \* the idempotency keys clients may send
    NoKey,          \* a payment without idempotencyKey
    NoStudent,      \* owner of a row not yet created
    Amount,         \* the amounts of demands, payments, refunds, write-offs
    DueDate,        \* due dates, as integers
    Today,          \* the current date; it does not advance
    Method,         \* payment methods, of which CASH and CHEQUE have rules
    Scope,          \* the invoiceIds filters clients may send
    CashLimit,      \* CASH_RECEIPT_LIMIT_269ST
    Penalty,        \* the bounce penalties a school charges
    Desk,           \* which manual postings the branch uses
    MaxWriteOff     \* bound: how far write-offs may lower a student account

Invoice == 1 .. N            \* numbered in order of creation
Account == Invoice \cup Student
Posting == {"REFUND", "WRITE_OFF"}

ASSUME ConstantsAssumption ==
    /\ N \in Nat
    /\ Invoice \cap Student = {}
    /\ NoStudent \notin Account
    /\ NoKey \notin Key
    /\ Amount \subseteq Nat \ {0}
    /\ Penalty \subseteq Nat
    /\ DueDate \subseteq Int
    /\ Today \in Int
    /\ CashLimit \in Nat
    /\ MaxWriteOff \in Nat
    /\ Scope \subseteq SUBSET Invoice
    /\ Desk \subseteq Posting

VARIABLES
    inv,      \* Invoice rows
    pay,      \* Payment rows
    alloc,    \* PaymentAllocation.amount, per payment and invoice
    ledger    \* net of the FeeLedger entries, per account

vars == <<inv, pay, alloc, ledger>>

InvoiceStatus == {"NONE", "ISSUED", "PARTIALLY_PAID", "PAID", "OVERDUE",
                  "VOID", "CANCELLED"}
OpenStatus    == {"ISSUED", "PARTIALLY_PAID", "OVERDUE"}
DeadStatus    == {"NONE", "VOID", "CANCELLED"}
PaymentStatus == {"NONE", "SUCCESS", "REFUNDED", "DISPUTED"}

InvoiceRow == [status : InvoiceStatus, student : Student \cup {NoStudent},
               due : Int, total : Nat, paid : Int]
PaymentRow == [status : PaymentStatus, student : Student \cup {NoStudent},
               method : Method \cup {""}, key : Key \cup {NoKey}, amount : Nat,
               refunded : Nat, rows : SUBSET Invoice]

NoInvoice == [status |-> "NONE", student |-> NoStudent, due |-> 0,
              total |-> 0, paid |-> 0]
NoPayment == [status |-> "NONE", student |-> NoStudent, method |-> "",
              key |-> NoKey, amount |-> 0, refunded |-> 0, rows |-> {}]

Init ==
    /\ inv = [i \in Invoice |-> NoInvoice]
    /\ pay = [p \in Payment |-> NoPayment]
    /\ alloc = [p \in Payment |-> [i \in Invoice |-> 0]]
    /\ ledger = [a \in Account |-> 0]

-----------------------------------------------------------------------------
(* Helpers *)

Smaller(a, b) == IF a < b THEN a ELSE b
AtLeast0(a)   == IF a > 0 THEN a ELSE 0

\* What is still owed on each invoice of a view of the invoice table.
Outstanding(view) ==
    [i \in Invoice |-> AtLeast0(view[i].total - view[i].paid)]

\* orderBy [dueDate asc, createdAt asc]
Before(view, i, j) ==
    \/ view[i].due < view[j].due
    \/ view[i].due = view[j].due /\ i < j

OpenInvoices(view, s, scope) ==
    {i \in scope : view[i].student = s /\ view[i].status \in OpenStatus}

\* Mutations of Allocation: nothing rides on the last invoice; newest first.
AllocationNoRest(view, open, amount) ==
    LET out == Outstanding(view)
        left(i) == AtLeast0(amount -
                       SumFunctionOnSet(out, {j \in open : Before(view, j, i)}))
    IN  [i \in Invoice |-> IF i \in open THEN Smaller(left(i), out[i]) ELSE 0]

AllocationNewest(view, open, amount) ==
    LET out == Outstanding(view)
        left(i) == AtLeast0(amount -
                       SumFunctionOnSet(out, {j \in open : Before(view, i, j)}))
    IN  [i \in Invoice |-> IF i \in open THEN Smaller(left(i), out[i]) ELSE 0]

(***************************************************************************)
(* The allocation loop of postPayment: oldest due first, each invoice up   *)
(* to what is outstanding on it, and what is left over rides on the last   *)
(* open invoice. With no open invoice nothing is allocated.                *)
(***************************************************************************)
Allocation(view, open, amount) ==
    LET out     == Outstanding(view)
        earlier(i) == {j \in open : Before(view, j, i)}
        left(i) == AtLeast0(amount - SumFunctionOnSet(out, earlier(i)))
        rest    == AtLeast0(amount - SumFunctionOnSet(out, open))
        last(i) == \A j \in open \ {i} : Before(view, j, i)
    IN  [i \in Invoice |->
            IF i \notin open THEN 0
            ELSE Smaller(left(i), out[i]) + (IF last(i) THEN rest ELSE 0)]

\* The un-allocation loop of a refund: newest allocation first.
Unallocation(view, rows, given, amount) ==
    LET later(i) == {j \in rows : Before(view, i, j)}
        left(i)  == AtLeast0(amount - SumFunctionOnSet(given, later(i)))
    IN  [i \in Invoice |-> IF i \in rows THEN Smaller(left(i), given[i]) ELSE 0]

CashToday ==
    SumFunctionOnSet([p \in Payment |-> pay[p].amount],
        {p \in Payment : pay[p].method = "CASH" /\ pay[p].status = "SUCCESS"})

CashAllowed(amount, existing) ==
    /\ amount < CashLimit
    /\ existing + amount < CashLimit

StudentBooks(s) == {s} \cup {i \in Invoice : inv[i].student = s}

LedgerBalance(s) == SumFunctionOnSet(ledger, StudentBooks(s))

InvoiceView ==
    [a \in Account |->
        IF a \in Invoice
        THEN IF inv[a].status \in DeadStatus THEN 0
             ELSE inv[a].total - inv[a].paid
        ELSE 0]

InvoiceBalance(s) == SumFunctionOnSet(InvoiceView, StudentBooks(s))

-----------------------------------------------------------------------------
(* Statuses the engine computes after paidAmount changes *)

StatusAfterPayment(row, paid) ==
    IF paid >= row.total THEN "PAID" ELSE "PARTIALLY_PAID"

StatusAfterRefund(row, paid) ==
    IF paid <= 0 THEN IF row.status = "PAID" THEN "ISSUED" ELSE row.status
    ELSE IF paid < row.total THEN "PARTIALLY_PAID" ELSE row.status

StatusAfterBounce(row, paid) ==
    IF paid <= 0 THEN IF row.due < Today THEN "OVERDUE" ELSE "ISSUED"
    ELSE "PARTIALLY_PAID"

(***************************************************************************)
(* The three writes of paidAmount and status. view is the copy of the      *)
(* invoice table the transaction read: paidAmount is written as an         *)
(* absolute value computed from that copy.                                 *)
(***************************************************************************)
InvoicesPaid(view, give) ==
    [i \in Invoice |->
        IF give[i] = 0 THEN inv[i]
        ELSE LET paid == view[i].paid + give[i]
             IN  [inv[i] EXCEPT !.paid = paid,
                                !.status = StatusAfterPayment(view[i], paid)]]

\* Mutation of InvoicesRefunded: a settled invoice is not reopened.
InvoicesRefundedUnlessPaid(view, take) ==
    [i \in Invoice |->
        IF take[i] = 0 \/ view[i].status = "PAID" THEN inv[i]
        ELSE LET paid == view[i].paid - take[i]
             IN  [inv[i] EXCEPT !.paid = paid,
                                !.status = StatusAfterRefund(view[i], paid)]]

InvoicesRefunded(view, take) ==
    [i \in Invoice |->
        IF take[i] = 0 THEN inv[i]
        ELSE LET paid == view[i].paid - take[i]
             IN  [inv[i] EXCEPT !.paid = paid,
                                !.status = StatusAfterRefund(view[i], paid)]]

InvoicesBounced(view, rows, given) ==
    [i \in Invoice |->
        IF i \notin rows THEN inv[i]
        ELSE LET paid == view[i].paid - given[i]
             IN  [inv[i] EXCEPT !.paid = paid,
                                !.status = StatusAfterBounce(view[i], paid)]]

\* One ledger entry per invoice of `entry`.
Posted(entry) ==
    [a \in Account |-> IF a \in Invoice THEN ledger[a] + entry[a] ELSE ledger[a]]

-----------------------------------------------------------------------------
(* Operations *)

\* postDemand: the invoice and its DEMAND entry commit together.
PostDemand(i, s, amount, due) ==
    /\ inv[i].status = "NONE"
    /\ \A j \in Invoice : j < i => inv[j].status # "NONE"
    /\ inv' = [inv EXCEPT ![i] = [status |-> "ISSUED", student |-> s, due |-> due,
                                  total |-> amount, paid |-> 0]]
    /\ ledger' = [ledger EXCEPT ![i] = @ + amount]
    /\ UNCHANGED <<pay, alloc>>

\* A key that was already seen returns the existing payment, untouched.
KeySeen(k) == k # NoKey /\ \E p \in Payment : pay[p].key = k

\* Mutation of RecordPayment: one PAYMENT entry for the whole amount, on the
\* invoice the payment row points to.
RecordPaymentOneEntry(p, s, amount, method, key, view, give) ==
    LET rows == {i \in Invoice : give[i] > 0}
    IN  /\ pay[p].status = "NONE"
        /\ pay' = [pay EXCEPT ![p] =
                     [status |-> "SUCCESS", student |-> s, method |-> method,
                      key |-> key, amount |-> amount, refunded |-> 0, rows |-> rows]]
        /\ alloc' = [alloc EXCEPT ![p] = give]
        /\ inv' = InvoicesPaid(view, give)
        /\ ledger' = Posted([i \in Invoice |->
                         IF i \in rows /\ \A j \in rows \ {i} : Before(view, i, j)
                         THEN -amount ELSE 0])

\* The SUCCESS row, its allocations, paidAmount and PAYMENT entries.
RecordPayment(p, s, amount, method, key, view, give) ==
    /\ pay[p].status = "NONE"
    /\ pay' = [pay EXCEPT ![p] =
                 [status |-> "SUCCESS", student |-> s, method |-> method,
                  key |-> key, amount |-> amount, refunded |-> 0,
                  rows |-> {i \in Invoice : give[i] > 0}]]
    /\ alloc' = [alloc EXCEPT ![p] = give]
    /\ inv' = InvoicesPaid(view, give)
    /\ ledger' = Posted([i \in Invoice |-> -give[i]])

PostPayment(p, s, amount, method, key, scope) ==
    /\ ~KeySeen(key)
    /\ method = "CASH" => CashAllowed(amount, CashToday)
    /\ RecordPayment(p, s, amount, method, key, inv,
                     Allocation(inv, OpenInvoices(inv, s, scope), amount))

\* refundGatewayPayment. Only a refund of the whole amount closes the payment.
RecordRefund(p, amount, row, view, given) ==
    LET take == Unallocation(view, row.rows, given, amount)
    IN  /\ alloc' = [alloc EXCEPT ![p] =
                       [i \in Invoice |->
                          IF take[i] = 0 THEN @[i] ELSE given[i] - take[i]]]
        /\ inv' = InvoicesRefunded(view, take)
        /\ ledger' = Posted(take)
        /\ pay' = [pay EXCEPT ![p].status =
                                 IF amount >= row.amount THEN "REFUNDED" ELSE "SUCCESS",
                              ![p].refunded = row.refunded + amount]

Refundable(row, amount) ==
    row.status = "SUCCESS" /\ amount <= row.amount - row.refunded

RefundGatewayPayment(p, amount) ==
    /\ Refundable(pay[p], amount)
    /\ RecordRefund(p, amount, pay[p], inv, alloc[p])

\* bounceCheque: dues restored, penalty posted without an invoice, payment
\* DISPUTED. The allocation rows stay as they are.
RecordBounce(p, penalty, view, rows, given) ==
    /\ inv' = InvoicesBounced(view, rows, given)
    /\ ledger' = [Posted([i \in Invoice |-> IF i \in rows THEN given[i] ELSE 0])
                    EXCEPT ![pay[p].student] = @ + penalty]
    /\ pay' = [pay EXCEPT ![p].status = "DISPUTED"]
    /\ UNCHANGED alloc

BounceCheque(p, penalty) ==
    /\ pay[p].status = "SUCCESS" /\ pay[p].method = "CHEQUE"
    /\ RecordBounce(p, penalty, inv, pay[p].rows, alloc[p])

\* POST /refunds: at most the credit balance; a REFUND entry with no invoice.
InCredit(s, amount) == "REFUND" \in Desk /\ amount <= -LedgerBalance(s)

RecordManualRefund(s, amount) ==
    /\ ledger' = [ledger EXCEPT ![s] = @ + amount]
    /\ UNCHANGED <<inv, pay, alloc>>

ManualRefund(s, amount) == InCredit(s, amount) /\ RecordManualRefund(s, amount)

\* POST /write-offs: a WRITE_OFF entry with no invoice and no limit.
WriteOff(s, amount) ==
    /\ "WRITE_OFF" \in Desk
    /\ ledger[s] - amount >= -MaxWriteOff       \* bound
    /\ ledger' = [ledger EXCEPT ![s] = @ - amount]
    /\ UNCHANGED <<inv, pay, alloc>>

-----------------------------------------------------------------------------
Demands  == \E i \in Invoice, s \in Student, a \in Amount, d \in DueDate :
                PostDemand(i, s, a, d)
\* receiveCheque is the caller that pays by CHEQUE; it sends no key.
Payments == \E p \in Payment, s \in Student, a \in Amount, m \in Method, sc \in Scope :
                \E k \in IF m = "CHEQUE" THEN {NoKey} ELSE Key \cup {NoKey} :
                    PostPayment(p, s, a, m, k, sc)
Refunds  == \E p \in Payment, a \in Amount : RefundGatewayPayment(p, a)
Bounces  == \E p \in Payment, f \in Penalty : BounceCheque(p, f)
Manual   == \E s \in Student, a \in Amount : ManualRefund(s, a) \/ WriteOff(s, a)

Next == Demands \/ Payments \/ Refunds \/ Bounces \/ Manual

Spec == Init /\ [][Next]_vars
-----------------------------------------------------------------------------
(* Properties *)

\* The rows keep their types (the columns of the Prisma schema).
TypeOK ==
    /\ inv \in [Invoice -> InvoiceRow]
    /\ pay \in [Payment -> PaymentRow]
    /\ alloc \in [Payment -> [Invoice -> Nat]]
    /\ ledger \in [Account -> Int]

\* The ledger entries that carry an invoice's id add up to what the invoice
\* says is owed: postDemand, postPayment, refunds and bounces each change the
\* invoice row and post their entries by the same amount.
InvoiceTie ==
    \A i \in Invoice :
        inv[i].status \notin DeadStatus => ledger[i] = inv[i].total - inv[i].paid

\* GATE-2, reconcileStudent and tieOut: for every student the ledger balance
\* equals the sum of (total - paid) over the invoices not VOID or CANCELLED.
TieOut == \A s \in Student : LedgerBalance(s) = InvoiceBalance(s)

\* Money taken is on invoices or refunded: what a payment still allocates plus
\* what was refunded of it is its amount (unless nothing was open when it came
\* in, in which case postPayment allocates nothing at all).
MoneyAccounted ==
    \A p \in Payment :
        pay[p].rows # {} =>
            SumFunction(alloc[p]) + pay[p].refunded = pay[p].amount

\* postPayment allocates oldest due first: an invoice gets money only in a step
\* that leaves every older open invoice of that student, within the requested
\* invoices, fully covered. The order of invoiceIds and the allocation mode of the
\* request, of which fees.ts:193-194 and schema.prisma:1329-1333 speak, count for
\* nothing (fees.ts:182-204).
OldestDueFirst ==
    [][\A p \in Payment, i, j \in Invoice :
          /\ pay[p].status = "NONE" /\ pay'[p].status = "SUCCESS"
          /\ alloc'[p][i] > 0
          /\ inv[j].status \in OpenStatus /\ inv[j].student = inv[i].student
          /\ Before(inv, j, i)
          /\ \A sc \in Scope : i \in sc => j \in sc
          => inv'[j].paid >= inv'[j].total]_vars
=============================================================================
