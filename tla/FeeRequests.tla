----------------------------- MODULE FeeRequests -----------------------------
(***************************************************************************)
(* The fee engine as the fee-service runs it: several requests in flight,  *)
(* each a sequence of database statements in a READ COMMITTED transaction. *)
(*                                                                         *)
(* postPayment, refundGatewayPayment and bounceCheque read the rows they   *)
(* need, compute, and write absolute values back; none of the reads takes  *)
(* a lock. The writes of a transaction hold row locks until it commits, so *)
(* they are one step here, at the commit. The only lock taken before the   *)
(* writes is FOR UPDATE on the branch's RECEIPT sequence row; receiveCheque *)
(* takes its receipt number in a transaction of its own, before the rest.  *)
(*                                                                         *)
(* With one worker the module implements FeeLedger; with two it does not.  *)
(***************************************************************************)
EXTENDS FeeLedger, TLC

CONSTANTS
    Worker,      \* request handlers of the fee-service processes
    Calls,       \* the kinds of call the instance makes
    MaxNumbers   \* bound: cheques stop at this receipt number

CallKind == {"demand", "pay", "refund", "bounce", "manual"}

ASSUME CallsAssumption == Calls \subseteq CallKind /\ MaxNumbers \in Nat

VARIABLES
    req,       \* what each worker has read so far
    receipt,   \* Payment.receiptNo, 0 when there is none
    seq        \* Sequence.currentValue of the branch's RECEIPT row

rvars == <<inv, pay, alloc, ledger, req, receipt, seq>>
books == <<inv, pay, alloc, ledger>>
numbers == <<receipt, seq>>

Idle == [pc |-> "idle"]
NoView == [i \in Invoice |-> NoInvoice]

RInit ==
    /\ Init
    /\ req = [w \in Worker |-> Idle]
    /\ receipt = [p \in Payment |-> 0]
    /\ seq = 0

IsIdle(w) == req[w] = Idle
Becomes(w, r) == req' = [req EXCEPT ![w] = r]

-----------------------------------------------------------------------------
(* postPayment *)

\* The key is looked up before the transaction starts. A key that is found is
\* answered with the old payment and changes nothing.
StartPayment(w, s, amount, method, key, scope) ==
    /\ IsIdle(w)
    /\ ~KeySeen(key)
    /\ Becomes(w, [pc |-> CASE method = "CASH"   -> "cash"
                           [] method = "CHEQUE" -> "cheque"
                           [] OTHER             -> "read",
                   student |-> s, amount |-> amount, method |-> method,
                   key |-> key, scope |-> scope, no |-> 0, view |-> NoView])
    /\ UNCHANGED <<books, numbers>>

\* The sum of today's committed cash receipts; above the limit the call throws.
AggregateCash(w) ==
    /\ req[w].pc = "cash"
    /\ Becomes(w, IF CashAllowed(req[w].amount, CashToday)
                  THEN [req[w] EXCEPT !.pc = "read"] ELSE Idle)
    /\ UNCHANGED <<books, numbers>>

\* Does a transaction that is under way hold the sequence row?
SequenceLocked == \E v \in Worker : req[v].pc = "write" /\ req[v].method # "CHEQUE"

\* receiveCheque: the number is used up whatever becomes of the payment.
TakeChequeNumber(w) ==
    /\ req[w].pc = "cheque"
    /\ seq < MaxNumbers                         \* bound
    /\ ~SequenceLocked
    /\ seq' = seq + 1
    /\ Becomes(w, [req[w] EXCEPT !.pc = "read", !.no = seq + 1])
    /\ UNCHANGED <<books, receipt>>

ReadOpenInvoices(w) ==
    /\ req[w].pc = "read"
    /\ Becomes(w, [req[w] EXCEPT !.pc = IF req[w].no = 0 THEN "number" ELSE "write",
                                 !.view = inv])
    /\ UNCHANGED <<books, numbers>>

\* Mutation of TakeReceiptNumber: the sequence row is read without FOR UPDATE.
TakeReceiptNumberUnlocked(w) ==
    /\ req[w].pc = "number"
    /\ Becomes(w, [req[w] EXCEPT !.pc = "write", !.no = seq + 1])
    /\ UNCHANGED <<books, numbers>>

\* nextSequenceValueIn: waits for the transaction that holds the row, then
\* takes the number after the committed one.
TakeReceiptNumber(w) ==
    /\ req[w].pc = "number"
    /\ ~SequenceLocked
    /\ Becomes(w, [req[w] EXCEPT !.pc = "write", !.no = seq + 1])
    /\ UNCHANGED <<books, numbers>>

\* All writes of the transaction; a key committed meanwhile violates the unique
\* index and the transaction fails (see Abort).
CommitPayment(w, p) ==
    LET r == req[w]
    IN  /\ r.pc = "write"
        /\ ~KeySeen(r.key)
        /\ RecordPayment(p, r.student, r.amount, r.method, r.key, r.view,
               Allocation(r.view, OpenInvoices(r.view, r.student, r.scope), r.amount))
        /\ seq' = IF r.method = "CHEQUE" THEN seq ELSE r.no
        /\ receipt' = [receipt EXCEPT ![p] = r.no]
        /\ Becomes(w, Idle)

-----------------------------------------------------------------------------
(* refundGatewayPayment: reads payment, allocations and invoices, then writes *)

\* Mutation of ReadRefund: status and refundable amount are not checked.
ReadRefundUnchecked(w, p, amount) ==
    /\ IsIdle(w)
    /\ pay[p].status # "NONE"
    /\ Becomes(w, [pc |-> "refund", pay |-> p, amount |-> amount,
                   row |-> pay[p], view |-> inv, given |-> alloc[p]])
    /\ UNCHANGED <<books, numbers>>

ReadRefund(w, p, amount) ==
    /\ IsIdle(w)
    /\ Refundable(pay[p], amount)
    /\ Becomes(w, [pc |-> "refund", pay |-> p, amount |-> amount,
                   row |-> pay[p], view |-> inv, given |-> alloc[p]])
    /\ UNCHANGED <<books, numbers>>

CommitRefund(w) ==
    LET r == req[w]
    IN  /\ r.pc = "refund"
        /\ RecordRefund(r.pay, r.amount, r.row, r.view, r.given)
        /\ Becomes(w, Idle)
        /\ UNCHANGED numbers

-----------------------------------------------------------------------------
(* bounceCheque: the checks run before the transaction, the reads inside it *)

CheckCheque(w, p, penalty) ==
    /\ IsIdle(w)
    /\ pay[p].status = "SUCCESS" /\ pay[p].method = "CHEQUE"
    /\ Becomes(w, [pc |-> "checked", pay |-> p, penalty |-> penalty])
    /\ UNCHANGED <<books, numbers>>

ReadCheque(w) ==
    LET r == req[w]
    IN  /\ r.pc = "checked"
        /\ Becomes(w, [pc |-> "bounce", pay |-> r.pay, penalty |-> r.penalty,
                       view |-> inv, rows |-> pay[r.pay].rows, given |-> alloc[r.pay]])
        /\ UNCHANGED <<books, numbers>>

CommitBounce(w) ==
    LET r == req[w]
    IN  /\ r.pc = "bounce"
        /\ RecordBounce(r.pay, r.penalty, r.view, r.rows, r.given)
        /\ Becomes(w, Idle)
        /\ UNCHANGED numbers

-----------------------------------------------------------------------------
(* POST /refunds: the balance is read, then the entry is created *)

ReadBalance(w, s, amount) ==
    /\ IsIdle(w)
    /\ InCredit(s, amount)
    /\ Becomes(w, [pc |-> "credit", student |-> s, amount |-> amount])
    /\ UNCHANGED <<books, numbers>>

CommitManualRefund(w) ==
    /\ req[w].pc = "credit"
    /\ RecordManualRefund(req[w].student, req[w].amount)
    /\ Becomes(w, Idle)
    /\ UNCHANGED numbers

-----------------------------------------------------------------------------
\* Timeout, deadlock victim, lost connection, unique violation: rolled back.
Abort(w) ==
    /\ ~IsIdle(w)
    /\ Becomes(w, Idle)
    /\ UNCHANGED <<books, numbers>>

PayRequest(w) ==
    \/ /\ "pay" \in Calls
       /\ \E s \in Student, a \in Amount, m \in Method, sc \in Scope :
             \E k \in IF m = "CHEQUE" THEN {NoKey} ELSE Key \cup {NoKey} :
                StartPayment(w, s, a, m, k, sc)
    \/ AggregateCash(w)
    \/ TakeChequeNumber(w)
    \/ ReadOpenInvoices(w)
    \/ TakeReceiptNumber(w)
    \/ \E p \in Payment : CommitPayment(w, p)

RefundRequest(w) ==
    \/ "refund" \in Calls /\ \E p \in Payment, a \in Amount : ReadRefund(w, p, a)
    \/ CommitRefund(w)

BounceRequest(w) ==
    \/ "bounce" \in Calls /\ \E p \in Payment, f \in Penalty : CheckCheque(w, p, f)
    \/ ReadCheque(w)
    \/ CommitBounce(w)

DeskRequest(w) ==
    \/ "manual" \in Calls /\ \E s \in Student, a \in Amount : ReadBalance(w, s, a)
    \/ CommitManualRefund(w)

\* postDemand only inserts, and a write-off is one insert: one step.
OneStepRequest(w) ==
    /\ IsIdle(w)
    /\ \/ "demand" \in Calls /\ Demands
       \/ "manual" \in Calls /\ \E s \in Student, a \in Amount : WriteOff(s, a)
    /\ UNCHANGED <<req, numbers>>

RNext == \E w \in Worker :
    \/ PayRequest(w) \/ RefundRequest(w) \/ BounceRequest(w) \/ DeskRequest(w)
    \/ OneStepRequest(w)
    \/ Abort(w)

RSpec == RInit /\ [][RNext]_rvars
-----------------------------------------------------------------------------
(* Properties *)

\* One request at a time, the statements of each call add up to the one step
\* FeeLedger takes for it, and every other statement changes no table.
ImplementsLedger == Spec

\* Neither an idempotency key nor a receipt number serves two payments, however
\* many requests are in flight: both may miss the key in the lookup, only one
\* commits. And the numbers have no gap: a payment that is rolled back gives its
\* number back (a cheque that fails does leave a gap).
KeysAndReceiptsOnce ==
    /\ \A p, q \in Payment :
          \/ pay[p].key # NoKey /\ pay[p].key = pay[q].key
          \/ receipt[p] # 0 /\ receipt[p] = receipt[q]
          => p = q
    /\ "CHEQUE" \in Method \/ {receipt[p] : p \in Payment} \ {0} = 1 .. seq

\* The payments that count towards invoice i.
Received(i) ==
    SumFunctionOnSet([p \in Payment |-> alloc[p][i]],
                     {p \in Payment : pay[p].status # "DISPUTED"})

\* The ledger entries of an invoice are its total less the allocations to it,
\* even when concurrent payments overwrite each other's paidAmount: what the
\* books need for a repair is never lost. And a lost update leaves the invoice
\* looking less paid than it is, never settled by money that did not come in.
LedgerIsAllocations ==
    \A i \in Invoice :
        /\ inv[i].status \notin DeadStatus => ledger[i] = inv[i].total - Received(i)
        /\ inv[i].paid <= Received(i)
=============================================================================
