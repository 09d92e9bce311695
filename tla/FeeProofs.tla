------------------------------- MODULE FeeProofs -------------------------------
(***************************************************************************)
(* Proofs about the fee engine, for every set of students, payments,       *)
(* amounts, due dates and filters and every number of invoices.            *)
(*                                                                         *)
(* FeeLedger: its types, the tie between each invoice and its ledger       *)
(* entries, what a payment's money became, the order dues are paid in, and *)
(* the GATE-2 tie-out as long as nothing is posted without an invoice.     *)
(*                                                                         *)
(* FeeRequests, for every number of workers and every mix of calls: types, *)
(* idempotency keys and receipt numbers used once; the ledger is the       *)
(* allocations when the branch only raises demands, takes payments and     *)
(* posts at the desk; a single worker implements FeeLedger.                *)
(*                                                                         *)
(* FeeDesk, for every number of clerks, pupils, periods, cheques and slips: *)
(* a class is billed once and cheques agree with their payments.           *)
(***************************************************************************)
EXTENDS FeeRequests, FeeDesk, SumProofs, TLAPS

USE ConstantsAssumption DEF Account, Posting

-----------------------------------------------------------------------------
(* The parts of the inductive invariant *)

\* Every invoice, created or not, agrees with its ledger account.
Tie == \A i \in Invoice : ledger[i] = inv[i].total - inv[i].paid

\* A row not yet created holds nothing.
Fresh == \A i \in Invoice :
            inv[i].status = "NONE" => inv[i].total = 0 /\ inv[i].paid = 0

\* Payments have allocation rows on created invoices only.
RowsCreated == \A p \in Payment : \A i \in pay[p].rows : inv[i].status # "NONE"

\* A payment that exists belongs to a student.
Owned == \A p \in Payment : pay[p].status # "NONE" => pay[p].student \in Student

\* The engine itself never voids or cancels an invoice.
LiveStatus == InvoiceStatus \ DeadStatus
Live == \A i \in Invoice : inv[i].status \in LiveStatus \cup {"NONE"}

LedgerInv == TypeOK /\ Tie /\ Fresh /\ RowsCreated /\ Owned /\ Live

-----------------------------------------------------------------------------
(* Facts about the helpers *)

\* The allocation loop gives nothing to an invoice that is not open.
LEMMA AllocationOnlyOpen ==
    ASSUME NEW view, NEW open, NEW amount, NEW i \in Invoice, i \notin open
    PROVE  Allocation(view, open, amount)[i] = 0
BY DEF Allocation

\* A strict total order on S, as the set of pairs <<earlier, later>>.
IsOrder(S, Ahead) ==
    /\ \A x \in S : <<x, x>> \notin Ahead
    /\ \A x, y \in S : x = y \/ <<x, y>> \in Ahead \/ <<y, x>> \in Ahead
    /\ \A x, y, z \in S : <<x, y>> \in Ahead /\ <<y, z>> \in Ahead => <<x, z>> \in Ahead

Earlier(S, Ahead, x) == {y \in S : <<y, x>> \in Ahead}

\* A finite ordered set has a last element.
LEMMA LastExists ==
    ASSUME NEW S, IsFiniteSet(S), S # {}, NEW Ahead, IsOrder(S, Ahead)
    PROVE  \E x \in S : \A y \in S \ {x} : <<y, x>> \in Ahead
<1> DEFINE G == {t \in SUBSET S : t # {} =>
                    \E x \in t : \A y \in t \ {x} : <<y, x>> \in Ahead}
<1>1. ASSUME NEW T \in SUBSET S, \A u \in SUBSET T : u # T => u \in G
      PROVE  T \in G
  <2> SUFFICES ASSUME T # {} PROVE \E x \in T : \A y \in T \ {x} : <<y, x>> \in Ahead
    OBVIOUS
  <2>1. PICK a \in T : TRUE
    OBVIOUS
  <2>2. CASE T = {a}
    BY <2>2
  <2>3. CASE T # {a}
    <3>1. T \ {a} \in G /\ T \ {a} # {}
      <4>1. T \ {a} \in SUBSET T /\ T \ {a} # T /\ T \ {a} # {}
        BY <2>1, <2>3
      <4> HIDE DEF G
      <4> QED BY <1>1, <4>1
    <3>2. PICK x \in T \ {a} : \A y \in (T \ {a}) \ {x} : <<y, x>> \in Ahead
      BY <3>1
    <3>3. CASE <<a, x>> \in Ahead
      BY <3>2, <3>3
    <3>4. CASE <<x, a>> \in Ahead
      <4>1. \A y \in T \ {a} : <<y, a>> \in Ahead
        BY <3>2, <3>4 DEF IsOrder
      <4> QED BY <4>1
    <3> QED BY <3>2, <3>3, <3>4 DEF IsOrder
  <2> QED BY <2>2, <2>3
<1> HIDE DEF G
<1>2. S \in G
  BY <1>1, FiniteInduction
<1> QED BY <1>2 DEF G

\* The terms filled up one after the other hold the whole amount, or are full.
LEMMA FilledInOrder ==
    ASSUME NEW S, IsFiniteSet(S), NEW Ahead, IsOrder(S, Ahead),
           NEW size, \A x \in S : size[x] \in Nat, NEW amount \in Nat,
           NEW fill,
           \A x \in S : fill[x] =
              Smaller(AtLeast0(amount -
                         SumFunctionOnSet(size, Earlier(S, Ahead, x))),
                      size[x])
    PROVE  SumFunctionOnSet(fill, S) = Smaller(amount, SumFunctionOnSet(size, S))
<1> DEFINE Prefix(t) == \A x \in t : \A y \in S : <<y, x>> \in Ahead => y \in t
           G == {t \in SUBSET S : Prefix(t) =>
                   SumFunctionOnSet(fill, t) = Smaller(amount, SumFunctionOnSet(size, t))}
<1>0. \A x \in S : fill[x] \in Nat
  <2> TAKE x \in S
  <2> DEFINE sum == SumFunctionOnSet(size, Earlier(S, Ahead, x))
  <2>1. sum \in Nat
    <3>1. IsFiniteSet(Earlier(S, Ahead, x)) /\ Earlier(S, Ahead, x) \subseteq S
      BY FS_Subset DEF Earlier
    <3> QED BY <3>1, SumNat
  <2>2. fill[x] = Smaller(AtLeast0(amount - sum), size[x])
    OBVIOUS
  <2> HIDE DEF sum
  <2> QED BY <2>1, <2>2 DEF Smaller, AtLeast0
<1>1. ASSUME NEW T \in SUBSET S, \A u \in SUBSET T : u # T => u \in G
      PROVE  T \in G
  <2> SUFFICES ASSUME Prefix(T)
               PROVE  SumFunctionOnSet(fill, T) = Smaller(amount, SumFunctionOnSet(size, T))
    OBVIOUS
  <2>1. IsFiniteSet(T)
    BY FS_Subset
  <2>2. CASE T = {}
    BY <2>2, SumEmpty DEF Smaller
  <2>3. CASE T # {}
    <3>1. PICK x \in T : \A y \in T \ {x} : <<y, x>> \in Ahead
      <4>1. IsOrder(T, Ahead)
        BY DEF IsOrder
      <4> HIDE DEF Prefix
      <4> QED BY <2>1, <2>3, <4>1, LastExists
    <3> DEFINE v == T \ {x}
               full == SumFunctionOnSet(size, v)
    <3>2. v = Earlier(S, Ahead, x)
      BY <3>1 DEF IsOrder, Earlier
    <3>3. v \in G /\ Prefix(v) /\ IsFiniteSet(v)
      <4>1. Prefix(v)
        BY <3>1, <3>2 DEF IsOrder, Earlier
      <4> QED BY <1>1, <2>1, <4>1, FS_Subset
    <3>4. SumFunctionOnSet(fill, v) = Smaller(amount, full)
      BY <3>3
    <3>5. fill[x] = Smaller(AtLeast0(amount - full), size[x])
      BY <3>2
    <3>6. /\ SumFunctionOnSet(fill, T) = fill[x] + SumFunctionOnSet(fill, v)
          /\ SumFunctionOnSet(size, T) = size[x] + full
      <4>1. \A y \in T : fill[y] \in Int /\ size[y] \in Int
        BY <1>0
      <4> HIDE DEF Prefix
      <4> QED BY <2>1, <4>1, SumRemove
    <3>7. full \in Nat /\ size[x] \in Nat
      <4>1. \A y \in v : size[y] \in Nat
        OBVIOUS
      <4> QED BY <3>3, <4>1, SumNat
    <3> HIDE DEF full, v, Prefix, G
    <3> QED BY <3>4, <3>5, <3>6, <3>7 DEF Smaller, AtLeast0
  <2> QED BY <2>2, <2>3
<1>2. Prefix(S)
  OBVIOUS
<1>3. S \in G
  <2> HIDE DEF G
  <2> QED BY <1>1, FiniteInduction
<1> QED BY <1>2, <1>3

-----------------------------------------------------------------------------
(* The two loops over invoices *)

LEMMA InvoicesFinite == IsFiniteSet(Invoice) /\ \A S \in SUBSET Invoice : IsFiniteSet(S)
<1>1. IsFiniteSet(Invoice)
  BY FS_Interval DEF Invoice
<1> QED BY <1>1, FS_Subset

LEMMA OutstandingType ==
    ASSUME NEW view \in [Invoice -> InvoiceRow]
    PROVE  Outstanding(view) \in [Invoice -> Nat]
<1> SUFFICES ASSUME NEW i \in Invoice
             PROVE  AtLeast0(view[i].total - view[i].paid) \in Nat
  BY DEF Outstanding
<1>1. view[i].total \in Int /\ view[i].paid \in Int
  BY DEF InvoiceRow
<1> QED BY <1>1 DEF AtLeast0

\* Due date, then number: a total order of the invoices of a view.
Dues(view) == {x \in Invoice \X Invoice : Before(view, x[1], x[2])}
NewestFirst(view) == {x \in Invoice \X Invoice : Before(view, x[2], x[1])}

LEMMA BeforeIsOrder ==
    ASSUME NEW view \in [Invoice -> InvoiceRow], NEW S \in SUBSET Invoice
    PROVE  IsOrder(S, Dues(view)) /\ IsOrder(S, NewestFirst(view))
<1>1. \A i \in S : view[i].due \in Int /\ i \in Int
  BY DEF InvoiceRow, Invoice
<1>2. \A i, j \in S : /\ <<i, j>> \in Dues(view) <=> Before(view, i, j)
                      /\ <<i, j>> \in NewestFirst(view) <=> Before(view, j, i)
  BY DEF Dues, NewestFirst
<1>3. \A i \in S : ~Before(view, i, i)
  BY <1>1 DEF Before
<1>4. \A i, j \in S : i = j \/ Before(view, i, j) \/ Before(view, j, i)
  BY <1>1 DEF Before
<1>5. \A i, j, k \in S : Before(view, i, j) /\ Before(view, j, k) => Before(view, i, k)
  BY <1>1 DEF Before
<1> QED BY <1>2, <1>3, <1>4, <1>5 DEF IsOrder

LEMMA AllocationType ==
    ASSUME NEW view \in [Invoice -> InvoiceRow], NEW open \in SUBSET Invoice,
           NEW amount \in Nat
    PROVE  Allocation(view, open, amount) \in [Invoice -> Nat]
<1> DEFINE out == Outstanding(view)
           left(i) == AtLeast0(amount -
                         SumFunctionOnSet(out, {j \in open : Before(view, j, i)}))
           rest == AtLeast0(amount - SumFunctionOnSet(out, open))
<1>1. out \in [Invoice -> Nat]
  BY OutstandingType
<1> HIDE DEF out
<1>2. \A S \in SUBSET Invoice : AtLeast0(amount - SumFunctionOnSet(out, S)) \in Nat
  <2> TAKE S \in SUBSET Invoice
  <2>1. SumFunctionOnSet(out, S) \in Nat
    BY <1>1, InvoicesFinite, SumNat
  <2> QED BY <2>1 DEF AtLeast0
<1>3. rest \in Nat /\ \A i \in Invoice : left(i) \in Nat
  BY <1>2
<1> HIDE DEF left, rest
<1>4. \A i \in Invoice : Smaller(left(i), out[i]) \in Nat
  BY <1>1, <1>3 DEF Smaller
<1>5. Allocation(view, open, amount) =
        [i \in Invoice |->
            IF i \notin open THEN 0
            ELSE Smaller(left(i), out[i])
                 + (IF \A j \in open \ {i} : Before(view, j, i) THEN rest ELSE 0)]
  BY DEF Allocation, left, rest, out
<1> QED BY <1>3, <1>4, <1>5

\* A refund takes nothing from an invoice the payment has no row on, and never
\* more from one than the payment gave to it.
LEMMA UnallocationType ==
    ASSUME NEW view, NEW rows \in SUBSET Invoice, NEW given \in [Invoice -> Nat],
           NEW amount \in Nat
    PROVE  /\ Unallocation(view, rows, given, amount) \in [Invoice -> Nat]
           /\ \A i \in Invoice : Unallocation(view, rows, given, amount)[i] <= given[i]
<1> DEFINE left(i) == AtLeast0(amount -
                         SumFunctionOnSet(given, {j \in rows : Before(view, i, j)}))
<1>1. \A i \in Invoice : left(i) \in Nat
  <2> TAKE i \in Invoice
  <2>1. SumFunctionOnSet(given, {j \in rows : Before(view, i, j)}) \in Nat
    <3>1. {j \in rows : Before(view, i, j)} \in SUBSET Invoice
      OBVIOUS
    <3> QED BY <3>1, InvoicesFinite, SumNat
  <2> QED BY <2>1 DEF AtLeast0
<1> HIDE DEF left
<1>2. \A i \in Invoice : /\ Smaller(left(i), given[i]) \in Nat
                         /\ Smaller(left(i), given[i]) <= given[i]
  BY <1>1 DEF Smaller
<1>3. Unallocation(view, rows, given, amount) =
        [i \in Invoice |-> IF i \in rows THEN Smaller(left(i), given[i]) ELSE 0]
  BY DEF Unallocation, left
<1>4. \A i \in Invoice : 0 <= given[i]
  OBVIOUS
<1> QED BY <1>2, <1>3, <1>4

\* A refund takes nothing from an invoice the payment has no row on.
LEMMA UnallocationOnlyRows ==
    ASSUME NEW view, NEW rows, NEW given, NEW amount, NEW i \in Invoice, i \notin rows
    PROVE  Unallocation(view, rows, given, amount)[i] = 0
BY DEF Unallocation

\* Each of the three statuses the engine computes is one of a live invoice.
LEMMA StatusesLive ==
    ASSUME NEW row \in InvoiceRow, NEW paid \in Int, row.status \in LiveStatus
    PROVE  /\ StatusAfterPayment(row, paid) \in LiveStatus
           /\ StatusAfterRefund(row, paid) \in LiveStatus
           /\ StatusAfterBounce(row, paid) \in LiveStatus
BY DEF StatusAfterPayment, StatusAfterRefund, StatusAfterBounce, LiveStatus,
       InvoiceStatus, DeadStatus, InvoiceRow

\* A step moves money on invoice i: paidAmount and the ledger account change by
\* opposite amounts, total stays, and only created invoices take part.
Moved(i) ==
    /\ inv'[i] \in InvoiceRow
    /\ inv'[i].total = inv[i].total
    /\ inv'[i].status \in LiveStatus \cup {"NONE"}
    /\ inv'[i].status = "NONE" <=> inv[i].status = "NONE"
    /\ inv[i].status = "NONE" => inv'[i].paid = inv[i].paid
    /\ ledger'[i] = ledger[i] + inv[i].paid - inv'[i].paid

LEMMA MovedUntouched ==
    ASSUME TypeOK, Live, NEW i \in Invoice, inv'[i] = inv[i], ledger'[i] = ledger[i]
    PROVE  Moved(i)
BY DEF TypeOK, Live, Moved, InvoiceRow

LEMMA MovedWritten ==
    ASSUME TypeOK, NEW i \in Invoice, inv[i].status # "NONE",
           NEW x \in Int, NEW st \in LiveStatus,
           inv'[i] = [inv[i] EXCEPT !.paid = x, !.status = st],
           ledger'[i] = ledger[i] + inv[i].paid - x
    PROVE  Moved(i)
<1>1. inv[i] \in InvoiceRow
  BY DEF TypeOK
<1>2. /\ inv'[i] \in InvoiceRow /\ inv'[i].total = inv[i].total
      /\ inv'[i].paid = x /\ inv'[i].status = st
  BY <1>1 DEF InvoiceRow, LiveStatus
<1> QED BY <1>2 DEF Moved, LiveStatus, DeadStatus

LEMMA MovedTie ==
    ASSUME TypeOK, Tie, Fresh, \A i \in Invoice : Moved(i)
    PROVE  Tie' /\ Fresh' /\ Live'
<1>0. Live'
  BY DEF Live, Moved
<1> SUFFICES ASSUME NEW i \in Invoice
             PROVE  /\ ledger'[i] = inv'[i].total - inv'[i].paid
                    /\ inv'[i].status = "NONE" => inv'[i].total = 0 /\ inv'[i].paid = 0
  BY <1>0 DEF Tie, Fresh
<1>1. /\ inv[i].total \in Int /\ inv[i].paid \in Int
      /\ inv'[i].total \in Int /\ inv'[i].paid \in Int
  BY DEF TypeOK, Moved, InvoiceRow
<1>2. Moved(i) /\ ledger[i] = inv[i].total - inv[i].paid
  BY DEF Tie
<1>3. inv[i].status = "NONE" => inv[i].total = 0 /\ inv[i].paid = 0
  BY DEF Fresh
<1> QED BY <1>1, <1>2, <1>3 DEF Moved

-----------------------------------------------------------------------------
LEMMA InitInv == Init => LedgerInv
<1> SUFFICES ASSUME Init PROVE LedgerInv
  OBVIOUS
<1>1. TypeOK
  <2>1. NoInvoice \in InvoiceRow
    BY DEF NoInvoice, InvoiceRow, InvoiceStatus
  <2>2. NoPayment \in PaymentRow
    BY DEF NoPayment, PaymentRow, PaymentStatus
  <2> QED BY <2>1, <2>2 DEF Init, TypeOK
<1>2. \A i \in Invoice : /\ ledger[i] = 0 /\ inv[i].total = 0 /\ inv[i].paid = 0
                           /\ inv[i].status = "NONE"
  BY DEF Init, NoInvoice
<1>3. \A p \in Payment : pay[p].rows = {} /\ pay[p].status = "NONE"
  BY DEF Init, NoPayment
<1>4. Tie /\ Fresh /\ Live
  BY <1>2 DEF Tie, Fresh, Live
<1>5. RowsCreated /\ Owned
  BY <1>3 DEF RowsCreated, Owned
<1> QED BY <1>1, <1>4, <1>5 DEF LedgerInv

LEMMA PostDemandInv ==
    ASSUME LedgerInv, NEW i \in Invoice, NEW s \in Student, NEW amount \in Amount,
           NEW due \in DueDate, PostDemand(i, s, amount, due)
    PROVE  LedgerInv'
<1> USE DEF LedgerInv, PostDemand
<1>0. amount \in Nat /\ due \in Int
  OBVIOUS
<1>1. TypeOK'
  BY <1>0 DEF TypeOK, InvoiceRow, InvoiceStatus
<1>2. Tie' /\ Fresh' /\ Live'
  BY <1>0 DEF TypeOK, Tie, Fresh, Live, LiveStatus, DeadStatus, InvoiceStatus, InvoiceRow
<1>3. RowsCreated' /\ Owned'
  BY DEF TypeOK, RowsCreated, Owned, InvoiceRow, PaymentRow
<1> QED BY <1>1, <1>2, <1>3

LEMMA PostPaymentInv ==
    ASSUME LedgerInv, NEW p \in Payment, NEW s \in Student, NEW amount \in Amount,
           NEW m \in Method, NEW k \in Key \cup {NoKey}, NEW scope \in Scope,
           PostPayment(p, s, amount, m, k, scope)
    PROVE  LedgerInv'
<1> DEFINE open == OpenInvoices(inv, s, scope)
           give == Allocation(inv, open, amount)
<1> USE DEF LedgerInv
<1>0. give \in [Invoice -> Nat]
  <2>1. amount \in Nat /\ open \in SUBSET Invoice /\ inv \in [Invoice -> InvoiceRow]
    BY DEF TypeOK, OpenInvoices
  <2> QED BY <2>1, AllocationType
<1>1. /\ give \in [Invoice -> Nat]
      /\ pay' = [pay EXCEPT ![p] =
                   [status |-> "SUCCESS", student |-> s, method |-> m, key |-> k,
                    amount |-> amount, refunded |-> 0,
                    rows |-> {i \in Invoice : give[i] > 0}]]
      /\ alloc' = [alloc EXCEPT ![p] = give]
      /\ inv' = InvoicesPaid(inv, give)
      /\ ledger' = Posted([i \in Invoice |-> -give[i]])
  BY <1>0 DEF PostPayment, RecordPayment
<1>2. \A i \in Invoice : give[i] > 0 => inv[i].status \in OpenStatus
  BY <1>1, AllocationOnlyOpen DEF OpenInvoices
<1> HIDE DEF give
<1>3. \A i \in Invoice : Moved(i)
  <2> TAKE i \in Invoice
  <2>0. /\ inv[i] \in InvoiceRow /\ ledger[i] \in Int /\ give[i] \in Nat
        /\ ledger'[i] = ledger[i] - give[i]
    BY <1>1 DEF TypeOK, Posted
  <2>1. CASE give[i] = 0
    <3>1. inv'[i] = inv[i]
      BY <1>1, <2>1 DEF InvoicesPaid
    <3>2. ledger'[i] = ledger[i]
      BY <2>0, <2>1
    <3> QED BY <3>1, <3>2, MovedUntouched
  <2>2. CASE give[i] # 0
    <3> DEFINE x  == inv[i].paid + give[i]
               st == StatusAfterPayment(inv[i], x)
    <3>1. inv[i].status # "NONE"
      BY <1>2, <2>0, <2>2 DEF OpenStatus
    <3>2. x \in Int /\ ledger'[i] = ledger[i] + inv[i].paid - x
      BY <2>0 DEF InvoiceRow
    <3>3. st \in LiveStatus
      BY <2>0, <3>1, <3>2, StatusesLive DEF Live
    <3>4. inv'[i] = [inv[i] EXCEPT !.paid = x, !.status = st]
      BY <1>1, <2>2 DEF InvoicesPaid
    <3> HIDE DEF x, st
    <3> QED BY <3>1, <3>2, <3>3, <3>4, MovedWritten
  <2> QED BY <2>1, <2>2
<1>4. TypeOK'
  <2>1. inv' \in [Invoice -> InvoiceRow]
    BY <1>1, <1>3 DEF InvoicesPaid, Moved
  <2>2. pay' \in [Payment -> PaymentRow]
    BY <1>1 DEF TypeOK, PaymentRow, PaymentStatus
  <2>3. alloc' \in [Payment -> [Invoice -> Nat]]
    BY <1>1 DEF TypeOK
  <2>4. ledger' \in [Account -> Int]
    BY <1>1 DEF TypeOK, Posted
  <2> QED BY <2>1, <2>2, <2>3, <2>4 DEF TypeOK
<1>5. Tie' /\ Fresh' /\ Live'
  BY <1>3, MovedTie
<1>6. RowsCreated'
  <2> SUFFICES ASSUME NEW q \in Payment, NEW i \in pay'[q].rows
               PROVE  inv'[i].status # "NONE"
    BY DEF RowsCreated
  <2>1. CASE q = p
    BY <1>1, <1>2, <1>3, <2>1 DEF TypeOK, OpenStatus, Moved
  <2>2. CASE q # p
    BY <1>1, <1>3, <2>2 DEF TypeOK, RowsCreated, Moved, PaymentRow
  <2> QED BY <2>1, <2>2
<1>7. Owned'
  BY <1>1 DEF Owned, TypeOK
<1> QED BY <1>4, <1>5, <1>6, <1>7

LEMMA RefundInv ==
    ASSUME LedgerInv, NEW p \in Payment, NEW amount \in Amount,
           RefundGatewayPayment(p, amount)
    PROVE  LedgerInv'
<1> DEFINE take == Unallocation(inv, pay[p].rows, alloc[p], amount)
<1> USE DEF LedgerInv
<1>0. amount \in Nat /\ pay[p] \in PaymentRow /\ pay[p].status = "SUCCESS"
  BY DEF TypeOK, RefundGatewayPayment, Refundable
<1>1. /\ take \in [Invoice -> Nat] /\ \A i \in Invoice : take[i] <= alloc[p][i]
      /\ alloc' = [alloc EXCEPT ![p] = [i \in Invoice |->
                     IF take[i] = 0 THEN alloc[p][i] ELSE alloc[p][i] - take[i]]]
      /\ inv' = InvoicesRefunded(inv, take)
      /\ ledger' = Posted(take)
  <2>1. pay[p].rows \in SUBSET Invoice /\ alloc[p] \in [Invoice -> Nat]
    BY <1>0 DEF TypeOK, PaymentRow
  <2>2. take \in [Invoice -> Nat] /\ \A i \in Invoice : take[i] <= alloc[p][i]
    BY <1>0, <2>1, UnallocationType
  <2> QED BY <2>2 DEF RefundGatewayPayment, RecordRefund, TypeOK
<1>2. \A i \in Invoice : take[i] > 0 => inv[i].status # "NONE"
  <2>1. \A i \in Invoice : take[i] > 0 => i \in pay[p].rows
    BY <1>1, UnallocationOnlyRows
  <2> QED BY <2>1 DEF RowsCreated
<1> HIDE DEF take
<1>3. \A i \in Invoice : Moved(i)
  <2> TAKE i \in Invoice
  <2>0. /\ inv[i] \in InvoiceRow /\ ledger[i] \in Int /\ take[i] \in Nat
        /\ ledger'[i] = ledger[i] + take[i]
    BY <1>1 DEF TypeOK, Posted
  <2>1. CASE take[i] = 0
    <3>1. inv'[i] = inv[i]
      BY <1>1, <2>1 DEF InvoicesRefunded
    <3>2. ledger'[i] = ledger[i]
      BY <2>0, <2>1
    <3> QED BY <3>1, <3>2, MovedUntouched
  <2>2. CASE take[i] # 0
    <3> DEFINE x  == inv[i].paid - take[i]
               st == StatusAfterRefund(inv[i], x)
    <3>1. inv[i].status # "NONE"
      BY <1>2, <2>0, <2>2
    <3>2. x \in Int /\ ledger'[i] = ledger[i] + inv[i].paid - x
      BY <2>0 DEF InvoiceRow
    <3>3. st \in LiveStatus
      BY <2>0, <3>1, <3>2, StatusesLive DEF Live
    <3>4. inv'[i] = [inv[i] EXCEPT !.paid = x, !.status = st]
      BY <1>1, <2>2 DEF InvoicesRefunded
    <3> HIDE DEF x, st
    <3> QED BY <3>1, <3>2, <3>3, <3>4, MovedWritten
  <2> QED BY <2>1, <2>2
<1>4. /\ pay' \in [Payment -> PaymentRow]
      /\ \A q \in Payment : /\ pay'[q].rows = pay[q].rows
                            /\ pay'[q].student = pay[q].student
                            /\ pay'[q].status # "NONE" => pay[q].status # "NONE"
  <2> DEFINE st == IF amount >= pay[p].amount THEN "REFUNDED" ELSE "SUCCESS"
             r  == pay[p].refunded + amount
  <2>1. pay' = [pay EXCEPT ![p].status = st, ![p].refunded = r]
    BY DEF RefundGatewayPayment, RecordRefund
  <2>2. st \in PaymentStatus /\ r \in Nat
    <3>1. st \in PaymentStatus
      BY DEF PaymentStatus
    <3>2. pay[p].refunded \in Nat
      BY <1>0 DEF PaymentRow
    <3> QED BY <1>0, <3>1, <3>2
  <2> HIDE DEF st, r
  <2>3. pay'[p] = [pay[p] EXCEPT !.status = st, !.refunded = r]
    BY <2>1 DEF TypeOK
  <2>4. /\ pay'[p] \in PaymentRow
        /\ pay'[p].rows = pay[p].rows /\ pay'[p].student = pay[p].student
    BY <1>0, <2>2, <2>3 DEF PaymentRow
  <2>5. \A q \in Payment \ {p} : pay'[q] = pay[q]
    BY <2>1 DEF TypeOK
  <2>6. pay' \in [Payment -> PaymentRow]
    BY <2>1, <2>4, <2>5 DEF TypeOK
  <2> QED BY <1>0, <2>4, <2>5, <2>6
<1>5. TypeOK'
  <2>1. inv' \in [Invoice -> InvoiceRow]
    BY <1>1, <1>3 DEF InvoicesRefunded, Moved
  <2>2. alloc' \in [Payment -> [Invoice -> Nat]]
    <3>1. \A i \in Invoice : alloc[p][i] \in Nat
      BY DEF TypeOK
    <3>2. [i \in Invoice |-> IF take[i] = 0 THEN alloc[p][i] ELSE alloc[p][i] - take[i]]
             \in [Invoice -> Nat]
      BY <1>1, <3>1
    <3> QED BY <1>1, <3>2 DEF TypeOK
  <2>3. ledger' \in [Account -> Int]
    BY <1>1 DEF TypeOK, Posted
  <2> QED BY <1>4, <2>1, <2>2, <2>3 DEF TypeOK
<1>6. Tie' /\ Fresh' /\ Live'
  BY <1>3, MovedTie
<1>7. RowsCreated' /\ Owned'
  BY <1>3, <1>4 DEF RowsCreated, Owned, Moved, TypeOK, PaymentRow
<1> QED BY <1>5, <1>6, <1>7

LEMMA BounceInv ==
    ASSUME LedgerInv, NEW p \in Payment, NEW penalty \in Penalty, BounceCheque(p, penalty)
    PROVE  LedgerInv'
<1> DEFINE rows == pay[p].rows
           give == alloc[p]
           s    == pay[p].student
           owed == [i \in Invoice |-> IF i \in rows THEN give[i] ELSE 0]
<1> USE DEF LedgerInv
<1>1. /\ inv' = InvoicesBounced(inv, rows, give)
      /\ ledger' = [Posted(owed) EXCEPT ![s] = @ + penalty]
      /\ pay' = [pay EXCEPT ![p].status = "DISPUTED"]
      /\ alloc' = alloc
  BY DEF BounceCheque, RecordBounce
<1>2. /\ penalty \in Nat /\ pay[p] \in PaymentRow /\ rows \subseteq Invoice
      /\ s \in Student /\ s \notin Invoice
      /\ give \in [Invoice -> Int] /\ pay[p].status # "NONE"
  <2>1. pay[p].status = "SUCCESS"
    BY DEF BounceCheque
  <2>2. pay[p] \in PaymentRow /\ give \in [Invoice -> Int]
    BY DEF TypeOK
  <2>3. s \in Student
    BY <2>1 DEF Owned
  <2>4. rows \subseteq Invoice
    BY <2>2 DEF PaymentRow
  <2> QED BY <2>1, <2>2, <2>3, <2>4
<1> HIDE DEF rows, give, s
<1>3. ledger' \in [Account -> Int] /\ \A i \in Invoice : ledger'[i] = ledger[i] + owed[i]
  <2>1. Posted(owed) \in [Account -> Int]
    BY <1>2 DEF Posted, TypeOK
  <2>2. \A i \in Invoice : Posted(owed)[i] = ledger[i] + owed[i]
    BY DEF Posted
  <2> QED BY <1>1, <1>2, <2>1, <2>2
<1>4. \A i \in Invoice : Moved(i)
  <2> TAKE i \in Invoice
  <2>0. inv[i] \in InvoiceRow /\ ledger[i] \in Int /\ give[i] \in Int
    BY <1>2 DEF TypeOK
  <2>1. CASE i \notin rows
    <3>1. inv'[i] = inv[i]
      BY <1>1, <2>1 DEF InvoicesBounced
    <3>2. ledger'[i] = ledger[i]
      BY <1>3, <2>0, <2>1
    <3> QED BY <3>1, <3>2, MovedUntouched
  <2>2. CASE i \in rows
    <3> DEFINE x  == inv[i].paid - give[i]
               st == StatusAfterBounce(inv[i], x)
    <3>1. inv[i].status # "NONE"
      BY <2>2 DEF RowsCreated, rows
    <3>2. x \in Int /\ ledger'[i] = ledger[i] + inv[i].paid - x
      BY <1>3, <2>0, <2>2 DEF InvoiceRow
    <3>3. st \in LiveStatus
      BY <2>0, <3>1, <3>2, StatusesLive DEF Live
    <3>4. inv'[i] = [inv[i] EXCEPT !.paid = x, !.status = st]
      BY <1>1, <2>2 DEF InvoicesBounced
    <3> HIDE DEF x, st
    <3> QED BY <3>1, <3>2, <3>3, <3>4, MovedWritten
  <2> QED BY <2>1, <2>2
<1>5. /\ pay' \in [Payment -> PaymentRow]
      /\ \A q \in Payment : /\ pay'[q].rows = pay[q].rows
                            /\ pay'[q].student = pay[q].student
                            /\ pay'[q].status # "NONE" => pay[q].status # "NONE"
  BY <1>1, <1>2 DEF TypeOK, PaymentRow, PaymentStatus
<1>6. TypeOK'
  <2>1. inv' \in [Invoice -> InvoiceRow]
    BY <1>1, <1>4 DEF InvoicesBounced, Moved
  <2> QED BY <1>1, <1>3, <1>5, <2>1 DEF TypeOK
<1>7. Tie' /\ Fresh' /\ Live'
  BY <1>4, MovedTie
<1>8. RowsCreated' /\ Owned'
  BY <1>4, <1>5 DEF RowsCreated, Owned, Moved, TypeOK, PaymentRow
<1> QED BY <1>6, <1>7, <1>8

\* Entries without an invoice touch a student account and nothing else.
LEMMA ManualInv ==
    ASSUME LedgerInv, NEW s \in Student, NEW amount \in Amount,
           ManualRefund(s, amount) \/ WriteOff(s, amount)
    PROVE  LedgerInv'
<1> USE DEF LedgerInv
<1>1. /\ inv' = inv /\ pay' = pay /\ alloc' = alloc
      /\ \E d \in Int : ledger' = [ledger EXCEPT ![s] = @ + d]
  <2>1. amount \in Int /\ -amount \in Int
    OBVIOUS
  <2>2. CASE ManualRefund(s, amount)
    BY <2>1, <2>2 DEF ManualRefund, RecordManualRefund
  <2>3. CASE WriteOff(s, amount)
    <3>1. ledger[s] - amount = ledger[s] + (-amount)
      BY <2>1 DEF TypeOK
    <3>2. ledger' = [ledger EXCEPT ![s] = ledger[s] + (-amount)]
      BY <2>3, <3>1 DEF WriteOff
    <3> QED BY <2>1, <2>3, <3>2 DEF WriteOff
  <2> QED BY <2>2, <2>3
<1>2. s \notin Invoice
  OBVIOUS
<1>3. TypeOK'
  BY <1>1 DEF TypeOK
<1>4. \A i \in Invoice : ledger'[i] = ledger[i]
  BY <1>1, <1>2 DEF TypeOK
<1>5. Tie' /\ Fresh' /\ RowsCreated' /\ Owned' /\ Live'
  BY <1>1, <1>4 DEF Tie, Fresh, RowsCreated, Owned, Live
<1> QED BY <1>3, <1>5

LEMMA NextInv ==
    ASSUME LedgerInv, [Next]_vars
    PROVE  LedgerInv'
<1>1. CASE Demands
  BY <1>1, PostDemandInv DEF Demands
<1>2. CASE Payments
  <2>1. PICK p \in Payment, s \in Student, a \in Amount, m \in Method, sc \in Scope,
             k \in Key \cup {NoKey} : PostPayment(p, s, a, m, k, sc)
    BY <1>2 DEF Payments
  <2> QED BY <2>1, PostPaymentInv
<1>3. CASE Refunds
  BY <1>3, RefundInv DEF Refunds
<1>4. CASE Bounces
  BY <1>4, BounceInv DEF Bounces
<1>5. CASE Manual
  BY <1>5, ManualInv DEF Manual
<1>6. CASE UNCHANGED vars
  BY <1>6 DEF vars, LedgerInv, TypeOK, Tie, Fresh, RowsCreated, Owned, Live
<1> QED BY <1>1, <1>2, <1>3, <1>4, <1>5, <1>6 DEF Next

\* LedgerInv is an invariant of the engine.
THEOREM LedgerInvariant == Spec => []LedgerInv
BY InitInv, NextInv, PTL DEF Spec

-----------------------------------------------------------------------------
\* The rows keep their types whatever the engine is asked to do.
THEOREM TypeCorrect == Spec => []TypeOK
<1>1. LedgerInv => TypeOK
  BY DEF LedgerInv
<1> QED BY <1>1, LedgerInvariant, PTL

\* Every invoice agrees with its ledger entries, whatever mix of demands,
\* payments, refunds, bounces and manual postings one request at a time makes.
THEOREM InvoiceTieHolds == Spec => []InvoiceTie
<1>1. LedgerInv => InvoiceTie
  BY DEF LedgerInv, Tie, InvoiceTie
<1> QED BY <1>1, LedgerInvariant, PTL

-----------------------------------------------------------------------------
(* Where the money of a payment is *)

\* The allocation loop and the rest on the last invoice place the whole amount.
LEMMA AllocationWhole ==
    ASSUME NEW view \in [Invoice -> InvoiceRow], NEW open \in SUBSET Invoice, open # {},
           NEW amount \in Nat
    PROVE  SumFunctionOnSet(Allocation(view, open, amount), Invoice) = amount
<1> DEFINE out   == Outstanding(view)
           give  == Allocation(view, open, amount)
           rest  == AtLeast0(amount - SumFunctionOnSet(out, open))
           fill  == [i \in open |-> Smaller(AtLeast0(amount -
                        SumFunctionOnSet(out, Earlier(open, Dues(view), i))), out[i])]
           extra == [i \in open |-> IF \A j \in open \ {i} : Before(view, j, i)
                                    THEN rest ELSE 0]
<1>1. out \in [Invoice -> Nat] /\ give \in [Invoice -> Nat]
  BY OutstandingType, AllocationType
<1>2. IsFiniteSet(open) /\ IsFiniteSet(Invoice) /\ IsOrder(open, Dues(view))
  BY InvoicesFinite, BeforeIsOrder
<1>3. SumFunctionOnSet(out, open) \in Nat
  BY <1>1, <1>2, SumNat
<1>4. \A i, j \in open : <<i, j>> \in Dues(view) <=> Before(view, i, j)
  BY DEF Dues
<1>5. \A i \in open : give[i] = fill[i] + extra[i]
  <2> TAKE i \in open
  <2>1. Earlier(open, Dues(view), i) = {j \in open : Before(view, j, i)}
    BY <1>4 DEF Earlier
  <2> QED BY <2>1 DEF Allocation
<1>6. \A i \in Invoice \ open : give[i] = 0
  BY AllocationOnlyOpen
<1> HIDE DEF out, give
<1>7. SumFunctionOnSet(fill, open) = Smaller(amount, SumFunctionOnSet(out, open))
  <2>1. \A i \in open : out[i] \in Nat
    BY <1>1
  <2>2. \A i \in open : fill[i] = Smaller(AtLeast0(amount -
            SumFunctionOnSet(out, Earlier(open, Dues(view), i))), out[i])
    OBVIOUS
  <2> HIDE DEF fill
  <2> QED BY <1>2, <2>1, <2>2, FilledInOrder
<1>8. rest \in Nat
  BY <1>3 DEF AtLeast0
<1>9. SumFunctionOnSet(extra, open) = rest
  <2>1. PICK x \in open : \A j \in open \ {x} : <<j, x>> \in Dues(view)
    BY <1>2, LastExists
  <2>2. extra[x] = rest
    BY <1>4, <2>1
  <2>3. \A i \in open \ {x} : extra[i] = 0
    BY <1>2, <1>4, <2>1 DEF IsOrder
  <2>4. \A i \in open : extra[i] \in Int
    BY <1>8, <2>2, <2>3
  <2> HIDE DEF extra, rest
  <2>5. IsFiniteSet(open \ {x})
    BY <1>2, FS_Subset
  <2>6. SumFunctionOnSet(extra, open \ {x}) = 0
    BY <2>3, <2>5, SumZero
  <2>7. SumFunctionOnSet(extra, open) = extra[x] + SumFunctionOnSet(extra, open \ {x})
    BY <1>2, <2>4, SumRemove
  <2> QED BY <1>8, <2>2, <2>6, <2>7
<1>10. \A i \in open : extra[i] \in Int /\ fill[i] \in Int
  <2>1. \A i \in open : SumFunctionOnSet(out, Earlier(open, Dues(view), i)) \in Int
    <3> TAKE i \in open
    <3>1. IsFiniteSet(Earlier(open, Dues(view), i))
      BY <1>2, FS_Subset DEF Earlier
    <3>2. \A x \in Earlier(open, Dues(view), i) : out[x] \in Int
      BY <1>1 DEF Earlier
    <3> QED BY <3>1, <3>2, SumType
  <2>2. \A i \in open : fill[i] \in Int
    BY <1>1, <2>1 DEF Smaller, AtLeast0
  <2> QED BY <1>8, <2>2
<1> HIDE DEF fill, extra
<1>11. SumFunctionOnSet(give, open) =
          SumFunctionOnSet(fill, open) + SumFunctionOnSet(extra, open)
  BY <1>2, <1>5, <1>10, SumPlus
<1>12. SumFunctionOnSet(give, Invoice) = SumFunctionOnSet(give, open)
  BY <1>1, <1>2, <1>6, SumSupport
<1>13. Smaller(amount, SumFunctionOnSet(out, open)) + rest = amount
  BY <1>3 DEF Smaller, AtLeast0
<1> QED BY <1>7, <1>9, <1>11, <1>12, <1>13 DEF give

\* The un-allocation loop takes the refunded amount, or all the payment gave.
LEMMA UnallocationWhole ==
    ASSUME NEW view \in [Invoice -> InvoiceRow], NEW rows \in SUBSET Invoice,
           NEW given \in [Invoice -> Nat], NEW amount \in Nat
    PROVE  SumFunctionOnSet(Unallocation(view, rows, given, amount), Invoice)
             = Smaller(amount, SumFunctionOnSet(given, rows))
<1> DEFINE take == Unallocation(view, rows, given, amount)
<1>1. take \in [Invoice -> Nat] /\ \A i \in Invoice \ rows : take[i] = 0
  BY UnallocationType, UnallocationOnlyRows
<1>2. IsFiniteSet(rows) /\ IsFiniteSet(Invoice) /\ IsOrder(rows, NewestFirst(view))
  BY InvoicesFinite, BeforeIsOrder
<1>3. \A i \in rows : take[i] = Smaller(AtLeast0(amount -
         SumFunctionOnSet(given, Earlier(rows, NewestFirst(view), i))), given[i])
  <2> TAKE i \in rows
  <2>1. Earlier(rows, NewestFirst(view), i) = {j \in rows : Before(view, i, j)}
    BY DEF NewestFirst, Earlier
  <2> QED BY <2>1 DEF Unallocation
<1> HIDE DEF take
<1>4. SumFunctionOnSet(take, rows) = Smaller(amount, SumFunctionOnSet(given, rows))
  <2>1. \A i \in rows : given[i] \in Nat
    OBVIOUS
  <2> QED BY <1>2, <1>3, <2>1, FilledInOrder
<1>5. SumFunctionOnSet(take, Invoice) = SumFunctionOnSet(take, rows)
  BY <1>1, <1>2, SumSupport
<1> QED BY <1>4, <1>5 DEF take

\* A payment has nothing on invoices it has no row on, and what it has on the
\* others and what was refunded of it is its amount.
Placed(p) ==
    /\ \A i \in Invoice \ pay[p].rows : alloc[p][i] = 0
    /\ pay[p].rows # {} =>
          SumFunctionOnSet(alloc[p], Invoice) + pay[p].refunded = pay[p].amount

AllPlaced == \A p \in Payment : Placed(p)

LEMMA PaymentPlaced ==
    ASSUME LedgerInv, AllPlaced, NEW p \in Payment, NEW s \in Student, NEW amount \in Amount,
           NEW m \in Method, NEW k \in Key \cup {NoKey}, NEW scope \in Scope,
           PostPayment(p, s, amount, m, k, scope)
    PROVE  AllPlaced'
<1> DEFINE open == OpenInvoices(inv, s, scope)
           give == Allocation(inv, open, amount)
<1>0. amount \in Nat /\ open \in SUBSET Invoice /\ inv \in [Invoice -> InvoiceRow]
  BY DEF LedgerInv, TypeOK, OpenInvoices
<1>1. give \in [Invoice -> Nat]
  BY <1>0, AllocationType
<1>2. /\ pay'[p].rows = {i \in Invoice : give[i] > 0}
      /\ pay'[p].amount = amount /\ pay'[p].refunded = 0 /\ alloc'[p] = give
      /\ \A q \in Payment \ {p} : pay'[q] = pay[q] /\ alloc'[q] = alloc[q]
  BY DEF PostPayment, RecordPayment, LedgerInv, TypeOK
<1>3. pay'[p].rows # {} => open # {}
  BY <1>1, <1>2, AllocationOnlyOpen
<1>4. open # {} => SumFunctionOnSet(give, Invoice) = amount
  BY <1>0, AllocationWhole
<1> HIDE DEF give, open
<1>5. Placed(p)'
  BY <1>0, <1>1, <1>2, <1>3, <1>4 DEF Placed
<1>6. \A q \in Payment \ {p} : Placed(q)'
  BY <1>2 DEF AllPlaced, Placed
<1> QED BY <1>5, <1>6 DEF AllPlaced

LEMMA RefundPlaced ==
    ASSUME LedgerInv, AllPlaced, NEW p \in Payment, NEW amount \in Amount,
           RefundGatewayPayment(p, amount)
    PROVE  AllPlaced'
<1> DEFINE rows == pay[p].rows
           take == Unallocation(inv, rows, alloc[p], amount)
<1>0. /\ amount \in Nat /\ rows \in SUBSET Invoice /\ alloc[p] \in [Invoice -> Nat]
      /\ inv \in [Invoice -> InvoiceRow] /\ pay[p] \in PaymentRow
      /\ pay[p].amount \in Nat /\ pay[p].refunded \in Nat
  BY DEF LedgerInv, TypeOK, PaymentRow
<1>1. /\ take \in [Invoice -> Nat] /\ \A i \in Invoice : take[i] <= alloc[p][i]
      /\ SumFunctionOnSet(take, Invoice) = Smaller(amount, SumFunctionOnSet(alloc[p], rows))
      /\ \A i \in Invoice \ rows : take[i] = 0
  <2> HIDE DEF rows
  <2>1. take \in [Invoice -> Nat] /\ \A i \in Invoice : take[i] <= alloc[p][i]
    BY <1>0, UnallocationType
  <2>2. SumFunctionOnSet(take, Invoice) = Smaller(amount, SumFunctionOnSet(alloc[p], rows))
    BY <1>0, UnallocationWhole
  <2>3. \A i \in Invoice \ rows : take[i] = 0
    BY UnallocationOnlyRows
  <2> QED BY <2>1, <2>2, <2>3
<1>2. /\ pay'[p].rows = rows /\ pay'[p].amount = pay[p].amount
      /\ pay'[p].refunded = pay[p].refunded + amount
      /\ amount <= pay[p].amount - pay[p].refunded
      /\ alloc'[p] = [i \in Invoice |-> IF take[i] = 0 THEN alloc[p][i]
                                        ELSE alloc[p][i] - take[i]]
      /\ \A q \in Payment \ {p} : pay'[q] = pay[q] /\ alloc'[q] = alloc[q]
  BY <1>0 DEF RefundGatewayPayment, Refundable, RecordRefund, LedgerInv, TypeOK, PaymentRow
<1> HIDE DEF rows, take
<1>3. \A i \in Invoice : /\ alloc'[p][i] \in Int /\ take[i] \in Int
                         /\ alloc[p][i] = alloc'[p][i] + take[i]
  BY <1>0, <1>1, <1>2
<1>4. SumFunctionOnSet(alloc[p], Invoice) =
         SumFunctionOnSet(alloc'[p], Invoice) + SumFunctionOnSet(take, Invoice)
  BY <1>3, InvoicesFinite, SumPlus
<1>5. rows # {} => SumFunctionOnSet(take, Invoice) = amount
  <2>1. rows # {} => SumFunctionOnSet(alloc[p], Invoice) + pay[p].refunded = pay[p].amount
    BY DEF AllPlaced, Placed, rows
  <2>2. SumFunctionOnSet(alloc[p], Invoice) = SumFunctionOnSet(alloc[p], rows)
    <3>1. \A i \in Invoice \ rows : alloc[p][i] = 0
      BY DEF AllPlaced, Placed, rows
    <3> QED BY <1>0, <3>1, InvoicesFinite, SumSupport
  <2>3. SumFunctionOnSet(alloc[p], rows) \in Nat
    BY <1>0, InvoicesFinite, SumNat
  <2> QED BY <1>0, <1>1, <1>2, <2>1, <2>2, <2>3 DEF Smaller
<1>6. SumFunctionOnSet(alloc'[p], Invoice) \in Int
  BY <1>3, InvoicesFinite, SumType
<1>7. Placed(p)'
  <2>1. \A i \in Invoice \ rows : alloc'[p][i] = 0
    BY <1>1, <1>2 DEF AllPlaced, Placed, rows
  <2>2. rows # {} => SumFunctionOnSet(alloc'[p], Invoice) + pay'[p].refunded = pay'[p].amount
    <3>1. rows # {} => SumFunctionOnSet(alloc[p], Invoice) + pay[p].refunded = pay[p].amount
      BY DEF AllPlaced, Placed, rows
    <3> QED BY <1>0, <1>2, <1>4, <1>5, <1>6, <3>1
  <2> QED BY <1>2, <2>1, <2>2 DEF Placed
<1>8. \A q \in Payment \ {p} : Placed(q)'
  BY <1>2 DEF AllPlaced, Placed
<1> QED BY <1>7, <1>8 DEF AllPlaced

LEMMA PlacedKept ==
    ASSUME LedgerInv, AllPlaced, [Next]_vars
    PROVE  AllPlaced'
<1>1. CASE Demands \/ Manual \/ UNCHANGED vars
  <2>1. pay' = pay /\ alloc' = alloc
    BY <1>1 DEF Demands, PostDemand, Manual, ManualRefund, RecordManualRefund, WriteOff, vars
  <2> QED BY <2>1 DEF AllPlaced, Placed
<1>2. CASE Payments
  <2>1. PICK p \in Payment, s \in Student, a \in Amount, m \in Method, sc \in Scope,
             k \in Key \cup {NoKey} : PostPayment(p, s, a, m, k, sc)
    BY <1>2 DEF Payments
  <2> QED BY <2>1, PaymentPlaced
<1>3. CASE Refunds
  BY <1>3, RefundPlaced DEF Refunds
<1>4. CASE Bounces
  <2>1. PICK p \in Payment : pay' = [pay EXCEPT ![p].status = "DISPUTED"] /\ alloc' = alloc
    BY <1>4 DEF Bounces, BounceCheque, RecordBounce
  <2>2. \A q \in Payment : /\ pay'[q].rows = pay[q].rows /\ pay'[q].amount = pay[q].amount
                           /\ pay'[q].refunded = pay[q].refunded
    <3>1. pay[p] \in PaymentRow /\ pay'[p] = [pay[p] EXCEPT !.status = "DISPUTED"]
      BY <2>1 DEF LedgerInv, TypeOK
    <3>2. \A q \in Payment \ {p} : pay'[q] = pay[q]
      BY <2>1 DEF LedgerInv, TypeOK
    <3>3. /\ pay'[p].rows = pay[p].rows /\ pay'[p].amount = pay[p].amount
          /\ pay'[p].refunded = pay[p].refunded
      BY <3>1 DEF PaymentRow
    <3> QED BY <3>2, <3>3
  <2> QED BY <2>1, <2>2 DEF AllPlaced, Placed
<1> QED BY <1>1, <1>2, <1>3, <1>4 DEF Next

\* The money of a payment that went to invoices is on invoices or refunded:
\* the oldest-due-first loop and its rest lose and invent nothing, nor does a
\* partial refund.
THEOREM MoneyAccountedHolds == Spec => []MoneyAccounted
<1>1. Init => AllPlaced
  <2> SUFFICES ASSUME Init, NEW p \in Payment PROVE Placed(p)
    BY DEF AllPlaced
  <2>1. pay[p].rows = {} /\ \A i \in Invoice : alloc[p][i] = 0
    BY DEF Init, NoPayment
  <2> QED BY <2>1 DEF Placed
<1>2. LedgerInv /\ AllPlaced => MoneyAccounted
  <2> SUFFICES ASSUME LedgerInv, AllPlaced, NEW p \in Payment, pay[p].rows # {}
               PROVE  SumFunction(alloc[p]) + pay[p].refunded = pay[p].amount
    BY DEF MoneyAccounted
  <2>1. DOMAIN alloc[p] = Invoice
    BY DEF LedgerInv, TypeOK
  <2> QED BY <2>1 DEF AllPlaced, Placed, SumFunction
<1>3. LedgerInv /\ AllPlaced /\ [Next]_vars => AllPlaced'
  BY PlacedKept
<1> QED BY <1>1, <1>2, <1>3, LedgerInvariant, PTL DEF Spec

\* An open invoice that gets money leaves no older open invoice short.
LEMMA AllocationOldestFirst ==
    ASSUME NEW view \in [Invoice -> InvoiceRow], NEW open \in SUBSET Invoice,
           NEW amount \in Nat, NEW i \in open, NEW j \in open, Before(view, j, i),
           Allocation(view, open, amount)[i] > 0
    PROVE  Allocation(view, open, amount)[j] >= Outstanding(view)[j]
<1> DEFINE out == Outstanding(view)
           earlier(x) == {y \in open : Before(view, y, x)}
           sum(S) == SumFunctionOnSet(out, S)
           left(x) == AtLeast0(amount - sum(earlier(x)))
           rest == AtLeast0(amount - sum(open))
           give(x) == Smaller(left(x), out[x])
                      + (IF \A y \in open \ {x} : Before(view, y, x) THEN rest ELSE 0)
<1>1. out \in [Invoice -> Nat]
  BY OutstandingType
<1>2. Allocation(view, open, amount)[i] = give(i) /\ Allocation(view, open, amount)[j] = give(j)
  BY DEF Allocation
<1>3. /\ earlier(j) \in SUBSET earlier(i) /\ j \in earlier(i) /\ j \notin earlier(j)
      /\ earlier(i) \in SUBSET open
  <2>1. IsOrder(open, Dues(view))
    BY BeforeIsOrder
  <2>2. \A x, y \in open : <<x, y>> \in Dues(view) <=> Before(view, x, y)
    BY DEF Dues
  <2> QED BY <2>1, <2>2 DEF IsOrder
<1> HIDE DEF out, earlier
<1>4. \A S \in SUBSET open : IsFiniteSet(S) /\ sum(S) \in Nat
  <2> TAKE S \in SUBSET open
  <2>1. IsFiniteSet(S)
    BY InvoicesFinite
  <2>2. \A x \in S : out[x] \in Nat
    BY <1>1
  <2> QED BY <2>1, <2>2, SumNat
<1>5. \A S, T \in SUBSET open : S \subseteq T => sum(S) <= sum(T)
  <2> SUFFICES ASSUME NEW T \in SUBSET open, NEW S \in SUBSET T PROVE sum(S) <= sum(T)
    OBVIOUS
  <2>1. IsFiniteSet(T) /\ \A x \in T : out[x] \in Int
    BY <1>1, <1>4
  <2>2. sum(T) = sum(S) + sum(T \ S)
    BY <2>1, SumSplit
  <2>3. sum(S) \in Nat /\ sum(T \ S) \in Nat
    BY <1>4
  <2> HIDE DEF sum
  <2> QED BY <2>2, <2>3
<1>6. sum(earlier(j)) + out[j] <= sum(earlier(i))
  <2> DEFINE upTo == earlier(j) \cup {j}
  <2>1. upTo \in SUBSET open /\ upTo \subseteq earlier(i) /\ upTo \ {j} = earlier(j)
    BY <1>3
  <2>2. IsFiniteSet(upTo) /\ j \in upTo /\ \A x \in upTo : out[x] \in Int
    BY <1>1, <1>4, <2>1
  <2> HIDE DEF upTo
  <2>3. sum(upTo) = out[j] + sum(upTo \ {j})
    BY <2>2, SumRemove
  <2>4. sum(upTo) <= sum(earlier(i))
    BY <1>3, <1>5, <2>1
  <2>5. sum(earlier(i)) \in Nat /\ sum(earlier(j)) \in Nat /\ out[j] \in Nat
    <3>1. earlier(i) \in SUBSET open /\ earlier(j) \in SUBSET open
      BY <1>3
    <3> QED BY <1>1, <1>4, <3>1
  <2>6. sum(upTo \ {j}) = sum(earlier(j))
    BY <2>1
  <2> HIDE DEF sum
  <2> QED BY <2>3, <2>4, <2>5, <2>6
<1>7. /\ sum(earlier(i)) \in Nat /\ sum(earlier(j)) \in Nat /\ sum(open) \in Nat
      /\ sum(earlier(i)) <= sum(open) /\ out[i] \in Nat /\ out[j] \in Nat
  <2>1. earlier(i) \in SUBSET open /\ earlier(j) \in SUBSET open /\ open \in SUBSET open
    BY <1>3
  <2> QED BY <1>1, <1>4, <1>5, <2>1
<1> HIDE DEF sum
<1>8. amount > sum(earlier(i))
  <2> SUFFICES ASSUME amount <= sum(earlier(i)) PROVE FALSE
    BY <1>7
  <2>1. left(i) = 0 /\ rest = 0
    BY <1>7 DEF AtLeast0
  <2>2. give(i) = 0
    BY <1>7, <2>1 DEF Smaller
  <2> QED BY <1>2, <2>2
<1>9. left(j) >= out[j] /\ left(j) \in Nat /\ rest \in Nat
  BY <1>6, <1>7, <1>8 DEF AtLeast0
<1> HIDE DEF left, rest
<1>10. give(j) >= out[j]
  BY <1>7, <1>9 DEF Smaller
<1> QED BY <1>2, <1>10 DEF out

OldestFirstStep ==
    \A p \in Payment, i, j \in Invoice :
       /\ pay[p].status = "NONE" /\ pay'[p].status = "SUCCESS"
       /\ alloc'[p][i] > 0
       /\ inv[j].status \in OpenStatus /\ inv[j].student = inv[i].student
       /\ Before(inv, j, i)
       /\ \A sc \in Scope : i \in sc => j \in sc
       => inv'[j].paid >= inv'[j].total

LEMMA OldestFirst ==
    ASSUME LedgerInv, Next
    PROVE  OldestFirstStep
<1> SUFFICES ASSUME NEW p \in Payment, NEW i \in Invoice, NEW j \in Invoice,
                    pay[p].status = "NONE", pay'[p].status = "SUCCESS", alloc'[p][i] > 0,
                    inv[j].status \in OpenStatus, inv[j].student = inv[i].student,
                    Before(inv, j, i), \A sc \in Scope : i \in sc => j \in sc
             PROVE  inv'[j].paid >= inv'[j].total
  BY DEF OldestFirstStep
<1>1. CASE Demands \/ Manual
  BY <1>1 DEF Demands, PostDemand, Manual, ManualRefund, RecordManualRefund, WriteOff
<1>2. CASE Payments
  <2>1. PICK q \in Payment, s \in Student, a \in Amount, m \in Method, sc \in Scope,
             k \in Key \cup {NoKey} : PostPayment(q, s, a, m, k, sc)
    BY <1>2 DEF Payments
  <2> DEFINE open == OpenInvoices(inv, s, sc)
             give == Allocation(inv, open, a)
  <2>2. q = p
    <3>1. \A r \in Payment \ {q} : pay'[r] = pay[r]
      BY <2>1 DEF PostPayment, RecordPayment, LedgerInv, TypeOK
    <3> QED BY <3>1
  <2>3. a \in Nat /\ open \in SUBSET Invoice /\ inv \in [Invoice -> InvoiceRow]
    BY DEF LedgerInv, TypeOK, OpenInvoices
  <2>4. alloc'[p] = give /\ inv' = InvoicesPaid(inv, give) /\ give \in [Invoice -> Nat]
    <3>1. give \in [Invoice -> Nat]
      BY <2>3, AllocationType
    <3> QED BY <2>1, <2>2, <3>1 DEF PostPayment, RecordPayment, LedgerInv, TypeOK
  <2>5. i \in open
    BY <2>4, AllocationOnlyOpen
  <2>6. j \in open
    BY <2>5 DEF OpenInvoices
  <2>7. give[j] >= Outstanding(inv)[j]
    BY <2>3, <2>4, <2>5, <2>6, AllocationOldestFirst
  <2> HIDE DEF give, open
  <2>8. inv[j] \in InvoiceRow /\ inv[j].total \in Int /\ inv[j].paid \in Int /\ give[j] \in Nat
    BY <2>3, <2>4 DEF InvoiceRow
  <2>9. Outstanding(inv)[j] >= inv[j].total - inv[j].paid
    BY <2>8 DEF Outstanding, AtLeast0
  <2>10. inv[j].paid + give[j] >= inv[j].total
    <3>1. Outstanding(inv)[j] \in Nat
      BY <2>3, OutstandingType
    <3> QED BY <2>7, <2>8, <2>9, <3>1
  <2>11. inv'[j].total = inv[j].total /\ inv'[j].paid = inv[j].paid + give[j]
    <3>1. CASE give[j] = 0
      <4>1. inv'[j] = inv[j]
        BY <2>4, <3>1 DEF InvoicesPaid
      <4> QED BY <2>8, <3>1, <4>1
    <3>2. CASE give[j] # 0
      <4> DEFINE x  == inv[j].paid + give[j]
                 st == StatusAfterPayment(inv[j], x)
      <4>1. inv'[j] = [inv[j] EXCEPT !.paid = x, !.status = st]
        BY <2>4, <3>2 DEF InvoicesPaid
      <4> HIDE DEF x, st
      <4>2. inv'[j].total = inv[j].total /\ inv'[j].paid = x
        BY <2>8, <4>1 DEF InvoiceRow
      <4> QED BY <4>2 DEF x
    <3> QED BY <3>1, <3>2
  <2> QED BY <2>10, <2>11
<1>3. CASE Refunds \/ Bounces
  <2>1. PICK q \in Payment : /\ pay[q].status = "SUCCESS"
                             /\ \A r \in Payment \ {q} : pay'[r] = pay[r]
    BY <1>3 DEF Refunds, RefundGatewayPayment, Refundable, RecordRefund,
                Bounces, BounceCheque, RecordBounce, LedgerInv, TypeOK
  <2> QED BY <2>1
<1> QED BY <1>1, <1>2, <1>3 DEF Next

\* Money goes to the oldest due first: no payment puts anything on an invoice
\* while an older open one that the request also covers is left short.
THEOREM OldestDueFirstHolds == Spec => OldestDueFirst
<1>1. LedgerInv /\ [Next]_vars => [OldestFirstStep]_vars
  BY OldestFirst
<1>2. OldestDueFirst <=> [][OldestFirstStep]_vars
  BY DEF OldestDueFirst, OldestFirstStep
<1> QED BY <1>1, <1>2, LedgerInvariant, PTL DEF Spec

-----------------------------------------------------------------------------
(* The GATE-2 tie-out of a branch that posts nothing without an invoice *)

NoLoosePosting == Desk = {} /\ Penalty \subseteq {0}

NothingLoose == \A s \in Student : ledger[s] = 0

\* When every account agrees, so do the two sums over a student's books.
LEMMA AccountsTieOut ==
    ASSUME LedgerInv, NothingLoose
    PROVE  TieOut
<1>1. \A a \in Account : ledger[a] = InvoiceView[a]
  <2> TAKE a \in Account
  <2>1. CASE a \in Invoice
    <3>1. inv[a].status \in DeadStatus => inv[a].total - inv[a].paid = 0
      BY <2>1 DEF LedgerInv, Live, LiveStatus, Fresh
    <3> QED BY <2>1, <3>1 DEF LedgerInv, Tie, InvoiceView
  <2>2. CASE a \notin Invoice
    BY <2>2 DEF NothingLoose, InvoiceView
  <2> QED BY <2>1, <2>2
<1>2. ledger = InvoiceView
  BY <1>1 DEF LedgerInv, TypeOK, InvoiceView
<1> QED BY <1>2 DEF TieOut, LedgerBalance, InvoiceBalance

LEMMA NothingLooseKept ==
    ASSUME LedgerInv, NothingLoose, NoLoosePosting, [Next]_vars
    PROVE  NothingLoose'
<1> SUFFICES ASSUME NEW s \in Student
             PROVE  ledger'[s] = 0
  BY DEF NothingLoose
<1>0. ledger[s] = 0 /\ s \notin Invoice /\ ledger \in [Account -> Int]
  BY DEF NothingLoose, LedgerInv, TypeOK
<1>1. CASE Demands
  BY <1>0, <1>1 DEF Demands, PostDemand
<1>2. CASE Payments
  BY <1>0, <1>2 DEF Payments, PostPayment, RecordPayment, Posted
<1>3. CASE Refunds
  BY <1>0, <1>3 DEF Refunds, RefundGatewayPayment, RecordRefund, Posted
<1>4. CASE Bounces
  <2>1. PICK p \in Payment, f \in Penalty : BounceCheque(p, f)
    BY <1>4 DEF Bounces
  <2>2. f = 0
    BY DEF NoLoosePosting
  <2>3. PICK give : ledger' = [Posted(give) EXCEPT ![pay[p].student] = @ + f]
    BY <2>1 DEF BounceCheque, RecordBounce
  <2>4. Posted(give)[s] = 0
    BY <1>0 DEF Posted
  <2> QED BY <1>0, <2>2, <2>3, <2>4 DEF Posted
<1>5. CASE Manual
  BY <1>5 DEF Manual, ManualRefund, RecordManualRefund, InCredit, WriteOff, NoLoosePosting
<1>6. CASE UNCHANGED vars
  BY <1>0, <1>6 DEF vars
<1> QED BY <1>1, <1>2, <1>3, <1>4, <1>5, <1>6 DEF Next

\* A branch that makes no manual postings and charges no bounce penalty ties
\* out for every student after every operation.
THEOREM TieOutHolds == NoLoosePosting => (Spec => []TieOut)
<1> SUFFICES ASSUME NoLoosePosting
             PROVE  Spec => []TieOut
  OBVIOUS
<1>1. Init => NothingLoose
  BY DEF Init, NothingLoose
<1>2. LedgerInv /\ NothingLoose => TieOut
  BY AccountsTieOut
<1>3. LedgerInv /\ NothingLoose /\ [Next]_vars => NothingLoose'
  BY NothingLooseKept
<1> QED BY <1>1, <1>2, <1>3, LedgerInvariant, PTL DEF Spec

-----------------------------------------------------------------------------
(* Types of the requests in flight *)

PaymentPc == {"cash", "cheque", "read", "number", "write"}
View == [Invoice -> InvoiceRow]

PaymentReq == [pc : PaymentPc, student : Student, amount : Amount, method : Method,
               key : Key \cup {NoKey}, scope : Scope, no : Nat, view : View]
RefundReq  == [pc : {"refund"}, pay : Payment, amount : Amount, row : PaymentRow,
               view : View, given : [Invoice -> Nat]]
CheckedReq == [pc : {"checked"}, pay : Payment, penalty : Penalty]
BounceReq  == [pc : {"bounce"}, pay : Payment, penalty : Penalty, view : View,
               rows : SUBSET Invoice, given : [Invoice -> Nat]]
CreditReq  == [pc : {"credit"}, student : Student, amount : Amount]

Request == {Idle} \cup PaymentReq \cup RefundReq \cup CheckedReq \cup BounceReq \cup CreditReq

RTypeOK ==
    /\ TypeOK
    /\ req \in [Worker -> Request]
    /\ receipt \in [Payment -> Nat]
    /\ seq \in Nat

\* A request about a payment holds one that exists.
AboutPayment == {"refund", "checked", "bounce"}
Existing == \A w \in Worker :
               req[w].pc \in AboutPayment => pay[req[w].pay].status # "NONE"

BooksInv == RTypeOK /\ Owned /\ Existing

-----------------------------------------------------------------------------
(* Keys and receipt numbers *)

KeysOnce == \A p, q \in Payment : pay[p].key # NoKey /\ pay[p].key = pay[q].key => p = q

\* Committed numbers: none above the sequence, none twice, none before its payment.
ReceiptsOnce ==
    /\ \A p \in Payment : receipt[p] <= seq /\ (pay[p].status = "NONE" => receipt[p] = 0)
    /\ \A p, q \in Payment : receipt[p] # 0 /\ receipt[p] = receipt[q] => p = q

\* A transaction that holds the sequence row has the next number, and is alone.
Holds(w) == req[w].pc = "write" /\ req[w].method # "CHEQUE"
RowLock ==
    /\ \A w \in Worker : Holds(w) => req[w].no = seq + 1
    /\ \A v, w \in Worker : Holds(v) /\ Holds(w) => v = w

\* A cheque has its number before it reads the invoices, and keeps it for itself.
HasNumber(w) == req[w].pc \in PaymentPc /\ req[w].no # 0 /\ req[w].method = "CHEQUE"
Numbered(w) ==
    /\ req[w].pc \in {"cash", "cheque", "number"} => req[w].no = 0
    /\ req[w].pc \in {"cash", "number"} => req[w].method # "CHEQUE"
    /\ req[w].pc = "cheque" => req[w].method = "CHEQUE"
    /\ req[w].pc = "read" => (req[w].no # 0 <=> req[w].method = "CHEQUE")
    /\ req[w].pc = "write" => req[w].no # 0
ChequeNumbers ==
    /\ \A w \in Worker :
          /\ Numbered(w)
          /\ HasNumber(w) => req[w].no <= seq /\ \A p \in Payment : receipt[p] # req[w].no
    /\ \A v, w \in Worker : HasNumber(v) /\ HasNumber(w) /\ req[v].no = req[w].no => v = w

\* Without cheques the committed numbers are 1, 2, ... up to the sequence.
NoGap == "CHEQUE" \in Method \/ {receipt[p] : p \in Payment} \ {0} = 1 .. seq

NumbersInv == KeysOnce /\ ReceiptsOnce /\ RowLock /\ ChequeNumbers /\ NoGap
-----------------------------------------------------------------------------
(* What the writes of a transaction make of typed copies *)

LEMMA RowWritten ==
    ASSUME NEW row \in InvoiceRow, NEW x \in Int, NEW st \in InvoiceStatus
    PROVE  [row EXCEPT !.paid = x, !.status = st] \in InvoiceRow
BY DEF InvoiceRow

LEMMA InvoicesTyped ==
    ASSUME inv \in View, NEW view \in View, NEW give \in [Invoice -> Nat], NEW rows
    PROVE  /\ InvoicesPaid(view, give) \in View
           /\ InvoicesRefunded(view, give) \in View
           /\ InvoicesBounced(view, rows, give) \in View
<1>1. ASSUME NEW i \in Invoice
      PROVE  /\ view[i].paid + give[i] \in Int /\ view[i].paid - give[i] \in Int
             /\ \A x \in Int : /\ StatusAfterPayment(view[i], x) \in InvoiceStatus
                               /\ StatusAfterRefund(view[i], x) \in InvoiceStatus
                               /\ StatusAfterBounce(view[i], x) \in InvoiceStatus
  <2>1. view[i].paid \in Int /\ give[i] \in Int /\ view[i].status \in InvoiceStatus
    BY DEF View, InvoiceRow
  <2>2. \A x \in Int : /\ StatusAfterPayment(view[i], x) \in InvoiceStatus
                       /\ StatusAfterRefund(view[i], x) \in InvoiceStatus
                       /\ StatusAfterBounce(view[i], x) \in InvoiceStatus
    BY <2>1 DEF StatusAfterPayment, StatusAfterRefund, StatusAfterBounce, InvoiceStatus
  <2> QED BY <2>1, <2>2
<1>2. ASSUME NEW i \in Invoice, NEW x \in Int, NEW st \in InvoiceStatus
      PROVE  [inv[i] EXCEPT !.paid = x, !.status = st] \in InvoiceRow
  BY RowWritten DEF View
<1>3. \A i \in Invoice : inv[i] \in InvoiceRow
  BY DEF View
<1>4. InvoicesPaid(view, give) \in View
  BY <1>1, <1>2, <1>3 DEF InvoicesPaid, View
<1>5. InvoicesRefunded(view, give) \in View
  BY <1>1, <1>2, <1>3 DEF InvoicesRefunded, View
<1>6. InvoicesBounced(view, rows, give) \in View
  BY <1>1, <1>2, <1>3 DEF InvoicesBounced, View
<1> QED BY <1>4, <1>5, <1>6

LEMMA PostedTyped ==
    ASSUME ledger \in [Account -> Int], NEW entry, \A i \in Invoice : entry[i] \in Int
    PROVE  Posted(entry) \in [Account -> Int]
BY DEF Posted

LEMMA PcTells ==
    ASSUME RTypeOK, NEW w \in Worker
    PROVE  /\ req[w].pc \in PaymentPc => req[w] \in PaymentReq
           /\ req[w].pc = "refund" => req[w] \in RefundReq
           /\ req[w].pc = "checked" => req[w] \in CheckedReq
           /\ req[w].pc = "bounce" => req[w] \in BounceReq
           /\ req[w].pc = "credit" => req[w] \in CreditReq
           /\ req[w] = Idle <=> req[w].pc = "idle"
<1>1. req[w] \in Request
  BY DEF RTypeOK
<1> QED BY <1>1 DEF Request, Idle, PaymentReq, RefundReq, CheckedReq, BounceReq, CreditReq,
                    PaymentPc

LEMMA IdleRequest == Idle \in Request /\ Idle.pc = "idle" /\ "idle" \notin AboutPayment
                     /\ "idle" \notin PaymentPc
BY DEF Request, Idle, AboutPayment, PaymentPc

LEMMA NoViewType == NoView \in View
BY DEF NoView, View, NoInvoice, InvoiceRow, InvoiceStatus

-----------------------------------------------------------------------------
(* Steps that only read *)

Reads(w) ==
    \/ \E s \in Student, a \in Amount, m \in Method, sc \in Scope :
          \E k \in IF m = "CHEQUE" THEN {NoKey} ELSE Key \cup {NoKey} :
             StartPayment(w, s, a, m, k, sc)
    \/ AggregateCash(w) \/ ReadOpenInvoices(w) \/ TakeReceiptNumber(w)
    \/ \E p \in Payment, a \in Amount : ReadRefund(w, p, a)
    \/ \E p \in Payment, f \in Penalty : CheckCheque(w, p, f)
    \/ ReadCheque(w)
    \/ \E s \in Student, a \in Amount : ReadBalance(w, s, a)
    \/ Abort(w)

LEMMA ReadsOnly ==
    ASSUME BooksInv, NEW w \in Worker, Reads(w)
    PROVE  /\ UNCHANGED <<books, numbers>>
           /\ req' = [req EXCEPT ![w] = req'[w]]
           /\ req'[w] \in Request
           /\ req'[w].pc \in AboutPayment => pay[req'[w].pay].status # "NONE"
<1> DEFINE Goal == /\ UNCHANGED <<books, numbers>>
                   /\ req' = [req EXCEPT ![w] = req'[w]]
                   /\ req'[w] \in Request
                   /\ req'[w].pc \in AboutPayment => pay[req'[w].pay].status # "NONE"
<1> SUFFICES Goal
  OBVIOUS
<1>0. req \in [Worker -> Request] /\ inv \in View /\ alloc \in [Payment -> [Invoice -> Nat]]
      /\ pay \in [Payment -> PaymentRow] /\ seq \in Nat
  BY DEF BooksInv, RTypeOK, TypeOK, View
<1>1. ASSUME NEW r \in Request, Becomes(w, r), UNCHANGED <<books, numbers>>,
             r.pc \in AboutPayment => pay[r.pay].status # "NONE"
      PROVE  Goal
  BY <1>0, <1>1 DEF Becomes
<1>2. ASSUME NEW r \in PaymentReq, Becomes(w, r), UNCHANGED <<books, numbers>>
      PROVE  Goal
  <2>1. r \in Request /\ r.pc \notin AboutPayment
    BY DEF Request, PaymentReq, PaymentPc, AboutPayment
  <2> QED BY <1>1, <1>2, <2>1
<1> HIDE DEF Goal
<1>3. ASSUME NEW s \in Student, NEW a \in Amount, NEW m \in Method, NEW sc \in Scope,
             NEW k \in Key \cup {NoKey}, StartPayment(w, s, a, m, k, sc)
      PROVE  Goal
  <2> DEFINE pc == CASE m = "CASH" -> "cash" [] m = "CHEQUE" -> "cheque" [] OTHER -> "read"
             r  == [pc |-> pc, student |-> s, amount |-> a, method |-> m, key |-> k,
                    scope |-> sc, no |-> 0, view |-> NoView]
  <2>1. pc \in PaymentPc
    BY DEF PaymentPc
  <2>2. Becomes(w, r) /\ UNCHANGED <<books, numbers>>
    BY <1>3 DEF StartPayment
  <2> HIDE DEF pc
  <2>3. r \in PaymentReq
    BY <2>1, NoViewType DEF PaymentReq
  <2> QED BY <1>2, <2>2, <2>3
<1>4. CASE AggregateCash(w)
  <2>1. req[w] \in PaymentReq
    BY <1>4, PcTells DEF AggregateCash, PaymentPc, BooksInv
  <2>2. [req[w] EXCEPT !.pc = "read"] \in PaymentReq
    BY <2>1 DEF PaymentReq, PaymentPc
  <2> QED BY <1>1, <1>2, <1>4, <2>2, IdleRequest DEF AggregateCash
<1>5. CASE ReadOpenInvoices(w)
  <2> DEFINE pc == IF req[w].no = 0 THEN "number" ELSE "write"
  <2>1. req[w] \in PaymentReq
    BY <1>5, PcTells DEF ReadOpenInvoices, PaymentPc, BooksInv
  <2>2. [req[w] EXCEPT !.pc = pc, !.view = inv] \in PaymentReq
    <3>1. pc \in PaymentPc
      BY DEF PaymentPc
    <3> HIDE DEF pc
    <3> QED BY <1>0, <2>1, <3>1 DEF PaymentReq
  <2> QED BY <1>2, <1>5, <2>2 DEF ReadOpenInvoices
<1>6. CASE TakeReceiptNumber(w)
  <2>1. req[w] \in PaymentReq
    BY <1>6, PcTells DEF TakeReceiptNumber, PaymentPc, BooksInv
  <2>2. [req[w] EXCEPT !.pc = "write", !.no = seq + 1] \in PaymentReq
    <3>1. seq + 1 \in Nat
      BY <1>0
    <3>2. \A n \in Nat : [req[w] EXCEPT !.pc = "write", !.no = n] \in PaymentReq
      BY <2>1 DEF PaymentReq, PaymentPc
    <3> QED BY <3>1, <3>2
  <2> QED BY <1>2, <1>6, <2>2 DEF TakeReceiptNumber
<1>7. ASSUME NEW p \in Payment, NEW a \in Amount, ReadRefund(w, p, a)
      PROVE  Goal
  <2> DEFINE r == [pc |-> "refund", pay |-> p, amount |-> a,
                   row |-> pay[p], view |-> inv, given |-> alloc[p]]
  <2>1. r \in RefundReq /\ r.pay = p
    BY <1>0 DEF RefundReq
  <2>2. Becomes(w, r) /\ UNCHANGED <<books, numbers>> /\ pay[p].status # "NONE"
    BY <1>7 DEF ReadRefund, Refundable
  <2> HIDE DEF r
  <2>3. r \in Request
    BY <2>1 DEF Request
  <2> QED BY <1>1, <2>1, <2>2, <2>3
<1>8. ASSUME NEW p \in Payment, NEW f \in Penalty, CheckCheque(w, p, f)
      PROVE  Goal
  <2> DEFINE r == [pc |-> "checked", pay |-> p, penalty |-> f]
  <2>1. r \in CheckedReq /\ r.pay = p
    BY DEF CheckedReq
  <2>2. Becomes(w, r) /\ UNCHANGED <<books, numbers>> /\ pay[p].status # "NONE"
    BY <1>8 DEF CheckCheque
  <2> HIDE DEF r
  <2>3. r \in Request
    BY <2>1 DEF Request
  <2> QED BY <1>1, <2>1, <2>2, <2>3
<1>9. CASE ReadCheque(w)
  <2> DEFINE c == req[w]
             r == [pc |-> "bounce", pay |-> c.pay, penalty |-> c.penalty,
                   view |-> inv, rows |-> pay[c.pay].rows, given |-> alloc[c.pay]]
  <2>1. c \in CheckedReq /\ c.pc = "checked"
    BY <1>9, PcTells DEF ReadCheque, BooksInv
  <2>2. c.pay \in Payment /\ c.penalty \in Penalty /\ pay[c.pay].status # "NONE"
    BY <2>1 DEF CheckedReq, BooksInv, Existing, AboutPayment
  <2>3. pay[c.pay].rows \in SUBSET Invoice /\ alloc[c.pay] \in [Invoice -> Nat]
    BY <1>0, <2>2 DEF PaymentRow
  <2>4. Becomes(w, r) /\ UNCHANGED <<books, numbers>>
    BY <1>9 DEF ReadCheque
  <2>5. r \in BounceReq /\ r.pay = c.pay
    BY <1>0, <2>2, <2>3 DEF BounceReq
  <2> HIDE DEF r
  <2>6. r \in Request
    BY <2>5 DEF Request
  <2> QED BY <1>1, <2>2, <2>4, <2>5, <2>6
<1>10. ASSUME NEW s \in Student, NEW a \in Amount, ReadBalance(w, s, a)
       PROVE  Goal
  <2> DEFINE r == [pc |-> "credit", student |-> s, amount |-> a]
  <2>1. r \in CreditReq /\ r.pc = "credit"
    BY DEF CreditReq
  <2>2. Becomes(w, r) /\ UNCHANGED <<books, numbers>>
    BY <1>10 DEF ReadBalance
  <2> HIDE DEF r
  <2>3. r \in Request /\ r.pc \notin AboutPayment
    BY <2>1 DEF Request, AboutPayment
  <2> QED BY <1>1, <2>2, <2>3
<1>11. CASE Abort(w)
  BY <1>1, <1>11, IdleRequest DEF Abort
<1> QED BY <1>3, <1>4, <1>5, <1>6, <1>7, <1>8, <1>9, <1>10, <1>11 DEF Reads
-----------------------------------------------------------------------------
(* Steps that write *)

\* A payment that exists keeps existing, so the requests about it may go on.
LEMMA ExistingKept ==
    ASSUME BooksInv, NEW w \in Worker, req' = [req EXCEPT ![w] = req'[w]],
           req'[w].pc \notin AboutPayment,
           \A q \in Payment : pay[q].status # "NONE" => pay'[q].status # "NONE"
    PROVE  Existing'
<1> SUFFICES ASSUME NEW v \in Worker, req'[v].pc \in AboutPayment
             PROVE  pay'[req'[v].pay].status # "NONE"
  BY DEF Existing
<1>1. req'[v] = req[v] /\ req[v].pc \in AboutPayment
  BY DEF BooksInv, RTypeOK
<1>2. req[v].pay \in Payment
  BY <1>1, PcTells DEF AboutPayment, RefundReq, CheckedReq, BounceReq, BooksInv
<1> QED BY <1>1, <1>2 DEF BooksInv, Existing

LEMMA CommitPaymentBooks ==
    ASSUME BooksInv, NEW w \in Worker, NEW p \in Payment, CommitPayment(w, p)
    PROVE  BooksInv'
<1> DEFINE r    == req[w]
           open == OpenInvoices(r.view, r.student, r.scope)
           give == Allocation(r.view, open, r.amount)
           row  == [status |-> "SUCCESS", student |-> r.student, method |-> r.method,
                    key |-> r.key, amount |-> r.amount, refunded |-> 0,
                    rows |-> {i \in Invoice : give[i] > 0}]
<1>1. r \in PaymentReq /\ TypeOK /\ receipt \in [Payment -> Nat] /\ seq \in Nat
      /\ req \in [Worker -> Request]
  BY PcTells DEF CommitPayment, BooksInv, RTypeOK, PaymentPc
<1>2. /\ r.student \in Student /\ r.amount \in Nat /\ r.method \in Method /\ r.no \in Nat
      /\ r.key \in Key \cup {NoKey} /\ r.scope \in Scope /\ r.view \in View
  <2>1. r.amount \in Amount /\ Amount \subseteq Nat
    BY <1>1 DEF PaymentReq
  <2> QED BY <1>1, <2>1 DEF PaymentReq
<1>3. give \in [Invoice -> Nat]
  <2>1. open \in SUBSET Invoice
    BY <1>2 DEF OpenInvoices
  <2> QED BY <1>2, <2>1, AllocationType DEF View
<1> HIDE DEF give, open, r
<1>4. /\ pay[p].status = "NONE" /\ pay' = [pay EXCEPT ![p] = row]
      /\ alloc' = [alloc EXCEPT ![p] = give]
      /\ inv' = InvoicesPaid(r.view, give)
      /\ ledger' = Posted([i \in Invoice |-> -give[i]])
      /\ seq' = IF r.method = "CHEQUE" THEN seq ELSE r.no
      /\ receipt' = [receipt EXCEPT ![p] = r.no]
      /\ req' = [req EXCEPT ![w] = Idle]
  BY DEF CommitPayment, RecordPayment, Becomes, r, give, open
<1>5. row \in PaymentRow
  BY <1>2 DEF PaymentRow, PaymentStatus
<1>6. inv' \in View
  BY <1>1, <1>2, <1>3, <1>4, InvoicesTyped DEF TypeOK, View
<1>7. ledger' \in [Account -> Int]
  <2>1. \A i \in Invoice : [j \in Invoice |-> -give[j]][i] \in Int
    BY <1>3
  <2> HIDE DEF row
  <2> QED BY <1>1, <1>4, <2>1, PostedTyped DEF TypeOK
<1>8. /\ pay' \in [Payment -> PaymentRow] /\ alloc' \in [Payment -> [Invoice -> Nat]]
      /\ seq' \in Nat /\ receipt' \in [Payment -> Nat] /\ req' \in [Worker -> Request]
  <2> HIDE DEF row
  <2> QED BY <1>1, <1>2, <1>3, <1>4, <1>5, IdleRequest DEF TypeOK
<1>9. RTypeOK'
  BY <1>6, <1>7, <1>8 DEF RTypeOK, TypeOK, View
<1>10. row.status = "SUCCESS" /\ row.student \in Student
  BY <1>2
<1> HIDE DEF row
<1>11. \A q \in Payment : pay'[q] = IF q = p THEN row ELSE pay[q]
  BY <1>1, <1>4 DEF TypeOK
<1>12. Owned'
  BY <1>10, <1>11 DEF Owned, BooksInv
<1>13. Existing'
  <2>1. \A q \in Payment : pay[q].status # "NONE" => pay'[q].status # "NONE"
    BY <1>10, <1>11
  <2>2. req' = [req EXCEPT ![w] = req'[w]] /\ req'[w] = Idle
    BY <1>1, <1>4
  <2> QED BY <2>1, <2>2, IdleRequest, ExistingKept
<1> QED BY <1>9, <1>12, <1>13 DEF BooksInv

LEMMA CommitRefundBooks ==
    ASSUME BooksInv, NEW w \in Worker, CommitRefund(w)
    PROVE  /\ BooksInv'
           /\ \A q \in Payment : pay'[q].key = pay[q].key
           /\ \A q \in Payment : pay'[q].status = "NONE" <=> pay[q].status = "NONE"
<1> DEFINE r == req[w]
           p == r.pay
           take == Unallocation(r.view, r.row.rows, r.given, r.amount)
           st == IF r.amount >= r.row.amount THEN "REFUNDED" ELSE "SUCCESS"
           back == r.row.refunded + r.amount
<1>1. r \in RefundReq /\ TypeOK /\ receipt \in [Payment -> Nat] /\ seq \in Nat
      /\ req \in [Worker -> Request] /\ r.pc = "refund"
  BY PcTells DEF CommitRefund, BooksInv, RTypeOK
<1>2. /\ p \in Payment /\ r.amount \in Nat /\ r.row \in PaymentRow /\ r.view \in View
      /\ r.given \in [Invoice -> Nat]
  <2>1. r.amount \in Amount /\ Amount \subseteq Nat
    BY <1>1 DEF RefundReq
  <2> QED BY <1>1, <2>1 DEF RefundReq
<1>3. take \in [Invoice -> Nat] /\ \A i \in Invoice : take[i] <= r.given[i]
  <2>1. r.row.rows \in SUBSET Invoice
    BY <1>2 DEF PaymentRow
  <2> QED BY <1>2, <2>1, UnallocationType
<1>4. pay[p].status # "NONE"
  BY <1>1 DEF BooksInv, Existing, AboutPayment
<1> HIDE DEF r
<1>5. /\ alloc' = [alloc EXCEPT ![p] = [i \in Invoice |->
                     IF take[i] = 0 THEN alloc[p][i] ELSE r.given[i] - take[i]]]
      /\ inv' = InvoicesRefunded(r.view, take) /\ ledger' = Posted(take)
      /\ pay' = [pay EXCEPT ![p].status = st, ![p].refunded = back]
      /\ req' = [req EXCEPT ![w] = Idle] /\ UNCHANGED numbers
  BY <1>1, <1>2 DEF CommitRefund, RecordRefund, Becomes, TypeOK, r
<1> HIDE DEF p, take
<1>6. st \in PaymentStatus \ {"NONE"} /\ back \in Nat
  <2>1. r.row.refunded \in Nat
    BY <1>2 DEF PaymentRow
  <2>2. st \in PaymentStatus \ {"NONE"}
    BY DEF PaymentStatus
  <2> QED BY <1>2, <2>1, <2>2
<1> HIDE DEF st, back
<1>7. pay'[p] = [pay[p] EXCEPT !.status = st, !.refunded = back] /\ pay[p] \in PaymentRow
  BY <1>1, <1>2, <1>5 DEF TypeOK
<1>8. /\ pay'[p] \in PaymentRow /\ pay'[p].status = st
      /\ pay'[p].student = pay[p].student /\ pay'[p].key = pay[p].key
  BY <1>6, <1>7 DEF PaymentRow
<1>9. \A q \in Payment \ {p} : pay'[q] = pay[q]
  BY <1>1, <1>5 DEF TypeOK
<1>10. pay' \in [Payment -> PaymentRow]
  BY <1>1, <1>5, <1>8, <1>9 DEF TypeOK
<1>11. alloc' \in [Payment -> [Invoice -> Nat]]
  <2>1. \A i \in Invoice : alloc[p][i] \in Nat
    BY <1>1, <1>2 DEF TypeOK
  <2>2. [i \in Invoice |-> IF take[i] = 0 THEN alloc[p][i] ELSE r.given[i] - take[i]]
           \in [Invoice -> Nat]
    BY <1>2, <1>3, <2>1
  <2> QED BY <1>1, <1>5, <2>2 DEF TypeOK
<1>12. inv' \in View /\ ledger' \in [Account -> Int]
  <2>1. inv' \in View
    BY <1>1, <1>2, <1>3, <1>5, InvoicesTyped DEF TypeOK, View
  <2>2. \A i \in Invoice : take[i] \in Int
    BY <1>3
  <2> QED BY <1>1, <1>5, <2>1, <2>2, PostedTyped DEF TypeOK
<1>13. RTypeOK'
  BY <1>1, <1>5, <1>10, <1>11, <1>12, IdleRequest DEF RTypeOK, TypeOK, View, numbers
<1>14. Owned' /\ \A q \in Payment : /\ pay'[q].key = pay[q].key
                                    /\ pay'[q].status = "NONE" <=> pay[q].status = "NONE"
  BY <1>2, <1>4, <1>6, <1>8, <1>9 DEF Owned, BooksInv
<1>15. Existing'
  <2>1. req' = [req EXCEPT ![w] = req'[w]] /\ req'[w] = Idle
    BY <1>1, <1>5
  <2> QED BY <1>14, <2>1, IdleRequest, ExistingKept
<1> QED BY <1>13, <1>14, <1>15 DEF BooksInv

LEMMA CommitBounceBooks ==
    ASSUME BooksInv, NEW w \in Worker, CommitBounce(w)
    PROVE  /\ BooksInv'
           /\ \A q \in Payment : pay'[q].key = pay[q].key
           /\ \A q \in Payment : pay'[q].status = "NONE" <=> pay[q].status = "NONE"
<1> DEFINE r == req[w]
           p == r.pay
           owed == [i \in Invoice |-> IF i \in r.rows THEN r.given[i] ELSE 0]
<1>1. r \in BounceReq /\ TypeOK /\ receipt \in [Payment -> Nat] /\ seq \in Nat
      /\ req \in [Worker -> Request] /\ r.pc = "bounce"
  BY PcTells DEF CommitBounce, BooksInv, RTypeOK
<1>2. /\ p \in Payment /\ r.penalty \in Nat /\ r.view \in View /\ r.given \in [Invoice -> Nat]
  <2>1. r.penalty \in Penalty /\ Penalty \subseteq Nat
    BY <1>1 DEF BounceReq
  <2> QED BY <1>1, <2>1 DEF BounceReq
<1>3. pay[p].status # "NONE" /\ pay[p].student \in Student
  BY <1>1, <1>2 DEF BooksInv, Existing, AboutPayment, Owned
<1> HIDE DEF r
<1>4. /\ inv' = InvoicesBounced(r.view, r.rows, r.given)
      /\ ledger' = [Posted(owed) EXCEPT ![pay[p].student] = @ + r.penalty]
      /\ pay' = [pay EXCEPT ![p].status = "DISPUTED"] /\ alloc' = alloc
      /\ req' = [req EXCEPT ![w] = Idle] /\ UNCHANGED numbers
  BY DEF CommitBounce, RecordBounce, Becomes, r
<1> HIDE DEF p
<1>5. pay'[p] = [pay[p] EXCEPT !.status = "DISPUTED"] /\ pay[p] \in PaymentRow
  BY <1>1, <1>2, <1>4 DEF TypeOK
<1>6. /\ pay'[p] \in PaymentRow /\ pay'[p].status = "DISPUTED"
      /\ pay'[p].student = pay[p].student /\ pay'[p].key = pay[p].key
  BY <1>5 DEF PaymentRow, PaymentStatus
<1>7. \A q \in Payment \ {p} : pay'[q] = pay[q]
  BY <1>1, <1>4 DEF TypeOK
<1>8. pay' \in [Payment -> PaymentRow]
  BY <1>1, <1>4, <1>6, <1>7 DEF TypeOK
<1>9. inv' \in View /\ ledger' \in [Account -> Int]
  <2>1. inv' \in View
    BY <1>1, <1>2, <1>4, InvoicesTyped DEF TypeOK, View
  <2>2. \A i \in Invoice : owed[i] \in Int
    BY <1>2
  <2> HIDE DEF owed
  <2>3. Posted(owed) \in [Account -> Int]
    BY <1>1, <2>2, PostedTyped DEF TypeOK
  <2> QED BY <1>2, <1>3, <1>4, <2>1, <2>3
<1>10. RTypeOK'
  BY <1>1, <1>4, <1>8, <1>9, IdleRequest DEF RTypeOK, TypeOK, View, numbers
<1>11. Owned' /\ \A q \in Payment : /\ pay'[q].key = pay[q].key
                                    /\ pay'[q].status = "NONE" <=> pay[q].status = "NONE"
  BY <1>2, <1>3, <1>6, <1>7 DEF Owned, BooksInv
<1>12. Existing'
  <2>1. req' = [req EXCEPT ![w] = req'[w]] /\ req'[w] = Idle
    BY <1>1, <1>4
  <2> QED BY <1>11, <2>1, IdleRequest, ExistingKept
<1> QED BY <1>10, <1>11, <1>12 DEF BooksInv

LEMMA DeskBooks ==
    ASSUME BooksInv, NEW w \in Worker, CommitManualRefund(w) \/ OneStepRequest(w)
    PROVE  /\ BooksInv'
           /\ pay' = pay /\ UNCHANGED numbers
           /\ req' = [req EXCEPT ![w] = Idle] /\ req[w].pc \notin PaymentPc
<1>1. RTypeOK /\ TypeOK /\ receipt \in [Payment -> Nat] /\ seq \in Nat
      /\ req \in [Worker -> Request]
  BY DEF BooksInv, RTypeOK
<1>2. /\ pay' = pay /\ alloc' = alloc /\ UNCHANGED numbers
      /\ req' = [req EXCEPT ![w] = Idle] /\ req[w].pc \notin PaymentPc
  <2>1. CASE CommitManualRefund(w)
    BY <2>1 DEF CommitManualRefund, RecordManualRefund, Becomes, PaymentPc
  <2>2. CASE OneStepRequest(w)
    <3>1. req[w] = Idle /\ req' = req /\ UNCHANGED numbers
      BY <2>2 DEF OneStepRequest, IsIdle
    <3>2. pay' = pay /\ alloc' = alloc
      BY <2>2 DEF OneStepRequest, Demands, PostDemand, WriteOff
    <3>3. req' = [req EXCEPT ![w] = Idle]
      BY <1>1, <3>1
    <3> QED BY <3>1, <3>2, <3>3, IdleRequest
  <2> QED BY <2>1, <2>2
<1>3. inv' \in View /\ ledger' \in [Account -> Int]
  <2>1. CASE CommitManualRefund(w)
    <3>1. req[w] \in CreditReq
      BY <1>1, <2>1, PcTells DEF CommitManualRefund
    <3>2. req[w].student \in Student /\ req[w].amount \in Int
      <4>1. \A a \in Amount : a \in Int
        OBVIOUS
      <4>2. req[w].amount \in Amount /\ req[w].student \in Student
        BY <3>1 DEF CreditReq
      <4> QED BY <4>1, <4>2
    <3> QED BY <1>1, <2>1, <3>2 DEF CommitManualRefund, RecordManualRefund, TypeOK, View
  <2>2. ASSUME NEW i \in Invoice, NEW s \in Student, NEW a \in Amount, NEW d \in DueDate,
               PostDemand(i, s, a, d)
        PROVE  inv' \in View /\ ledger' \in [Account -> Int]
    <3>1. a \in Nat /\ d \in Int
      OBVIOUS
    <3>2. [status |-> "ISSUED", student |-> s, due |-> d, total |-> a, paid |-> 0] \in InvoiceRow
      BY <3>1 DEF InvoiceRow, InvoiceStatus
    <3> QED BY <1>1, <2>2, <3>1, <3>2 DEF PostDemand, TypeOK, View
  <2>3. ASSUME NEW s \in Student, NEW a \in Amount, WriteOff(s, a)
        PROVE  inv' \in View /\ ledger' \in [Account -> Int]
    <3>1. a \in Int
      OBVIOUS
    <3> QED BY <1>1, <2>3, <3>1 DEF WriteOff, TypeOK, View
  <2> QED BY <2>1, <2>2, <2>3 DEF OneStepRequest, Demands
<1>4. RTypeOK'
  BY <1>1, <1>2, <1>3, IdleRequest DEF RTypeOK, TypeOK, View, numbers
<1>5. Owned' /\ Existing'
  <2>1. req' = [req EXCEPT ![w] = req'[w]] /\ req'[w] = Idle
    BY <1>1, <1>2
  <2>2. \A q \in Payment : pay[q].status # "NONE" => pay'[q].status # "NONE"
    BY <1>2
  <2>3. req'[w].pc \notin AboutPayment
    BY <2>1, IdleRequest
  <2>4. Existing'
    BY <2>1, <2>2, <2>3, ExistingKept
  <2> QED BY <1>2, <2>4 DEF BooksInv, Owned
<1> QED BY <1>2, <1>4, <1>5 DEF BooksInv

LEMMA ChequeNumberBooks ==
    ASSUME BooksInv, NEW w \in Worker, TakeChequeNumber(w)
    PROVE  BooksInv'
<1>1. RTypeOK /\ req[w] \in PaymentReq /\ seq + 1 \in Nat /\ req \in [Worker -> Request]
  BY PcTells DEF TakeChequeNumber, BooksInv, RTypeOK, PaymentPc
<1>2. \A n \in Nat : [req[w] EXCEPT !.pc = "read", !.no = n] \in PaymentReq
  BY <1>1 DEF PaymentReq, PaymentPc
<1>3. req' = [req EXCEPT ![w] = [req[w] EXCEPT !.pc = "read", !.no = seq + 1]]
  BY DEF TakeChequeNumber, Becomes
<1>4. req'[w] \in PaymentReq
  BY <1>1, <1>2, <1>3
<1>5. req'[w] \in Request /\ req'[w].pc \notin AboutPayment
  BY <1>4 DEF Request, PaymentReq, PaymentPc, AboutPayment
<1>6. req' = [req EXCEPT ![w] = req'[w]]
  BY <1>1, <1>3
<1>7. UNCHANGED <<books, receipt>> /\ seq' = seq + 1
  BY DEF TakeChequeNumber
<1>8. RTypeOK'
  BY <1>1, <1>5, <1>6, <1>7 DEF RTypeOK, TypeOK, books
<1>9. Existing'
  BY <1>5, <1>6, <1>7, ExistingKept DEF books
<1> QED BY <1>7, <1>8, <1>9 DEF BooksInv, Owned, books

LEMMA ReadsBooks ==
    ASSUME BooksInv, NEW w \in Worker, Reads(w)
    PROVE  BooksInv'
<1>1. /\ UNCHANGED <<books, numbers>> /\ req' = [req EXCEPT ![w] = req'[w]]
      /\ req'[w] \in Request
      /\ req'[w].pc \in AboutPayment => pay[req'[w].pay].status # "NONE"
  BY ReadsOnly
<1>2. RTypeOK'
  BY <1>1 DEF BooksInv, RTypeOK, TypeOK, books, numbers
<1>3. \A v \in Worker \ {w} : req'[v] = req[v]
  BY <1>1 DEF BooksInv, RTypeOK
<1>4. Existing'
  BY <1>1, <1>3 DEF BooksInv, Existing, books
<1> QED BY <1>1, <1>2, <1>4 DEF BooksInv, Owned, books

\* The actions of RNext by what they do.
LEMMA StepsByKind ==
    ASSUME RNext
    PROVE  \E w \in Worker :
              \/ Reads(w) \/ TakeChequeNumber(w)
              \/ \E p \in Payment : CommitPayment(w, p)
              \/ CommitRefund(w) \/ CommitBounce(w)
              \/ CommitManualRefund(w) \/ OneStepRequest(w)
BY DEF RNext, PayRequest, RefundRequest, BounceRequest, DeskRequest, Reads

LEMMA BooksInit == RInit => BooksInv
<1> SUFFICES ASSUME RInit PROVE BooksInv
  OBVIOUS
<1>1. LedgerInv
  BY InitInv DEF RInit
<1>2. \A w \in Worker : req[w] = Idle
  BY DEF RInit
<1>3. Existing
  BY <1>2, IdleRequest DEF Existing
<1>4. RTypeOK
  BY <1>1, IdleRequest DEF LedgerInv, RTypeOK, RInit
<1> QED BY <1>1, <1>3, <1>4 DEF LedgerInv, BooksInv

LEMMA BooksStep == BooksInv /\ [RNext]_rvars => BooksInv'
<1> SUFFICES ASSUME BooksInv, [RNext]_rvars PROVE BooksInv'
  OBVIOUS
<1>1. CASE RNext
  BY <1>1, StepsByKind, ReadsBooks, ChequeNumberBooks, CommitPaymentBooks, CommitRefundBooks,
     CommitBounceBooks, DeskBooks
<1>2. CASE UNCHANGED rvars
  BY <1>2 DEF rvars, BooksInv, RTypeOK, TypeOK, Owned, Existing
<1> QED BY <1>1, <1>2
-----------------------------------------------------------------------------
(* Keys and numbers *)

\* A step of w that leaves keys, receipts and the sequence alone.
LEMMA NumbersKept ==
    ASSUME BooksInv, NumbersInv, NEW w \in Worker,
           req' = [req EXCEPT ![w] = req'[w]], UNCHANGED numbers,
           \A q \in Payment : /\ pay'[q].key = pay[q].key
                              /\ pay'[q].status = "NONE" <=> pay[q].status = "NONE",
           Numbered(w)',
           HasNumber(w)' => HasNumber(w) /\ req'[w].no = req[w].no,
           Holds(w)' => req'[w].no = seq + 1 /\ \A v \in Worker : ~Holds(v)
    PROVE  NumbersInv'
<1>1. \A v \in Worker \ {w} : req'[v] = req[v]
  BY DEF BooksInv, RTypeOK
<1>2. receipt' = receipt /\ seq' = seq
  BY DEF numbers
<1>3. KeysOnce' /\ ReceiptsOnce' /\ NoGap'
  BY <1>2 DEF NumbersInv, KeysOnce, ReceiptsOnce, NoGap
<1>4. RowLock'
  BY <1>1, <1>2 DEF NumbersInv, RowLock, Holds
<1>5. ChequeNumbers'
  <2>1. \A v \in Worker : Numbered(v)'
    BY <1>1 DEF NumbersInv, ChequeNumbers, Numbered
  <2>2. \A v \in Worker : HasNumber(v)' => HasNumber(v) /\ req'[v].no = req[v].no
    BY <1>1 DEF HasNumber
  <2> QED BY <1>2, <2>1, <2>2 DEF NumbersInv, ChequeNumbers
<1> QED BY <1>3, <1>4, <1>5 DEF NumbersInv

\* A request that is no payment needs no number.
LEMMA NotAPayment ==
    ASSUME NEW w \in Worker, req'[w].pc \notin PaymentPc
    PROVE  Numbered(w)' /\ ~HasNumber(w)' /\ ~Holds(w)'
BY DEF Numbered, HasNumber, Holds, PaymentPc

LEMMA ReadsNumbers ==
    ASSUME BooksInv, NumbersInv, NEW w \in Worker, Reads(w)
    PROVE  NumbersInv'
<1>1. UNCHANGED <<books, numbers>> /\ req' = [req EXCEPT ![w] = req'[w]]
  BY ReadsOnly
<1>2. req \in [Worker -> Request] /\ seq \in Nat /\ Numbered(w)
  BY DEF BooksInv, RTypeOK, NumbersInv, ChequeNumbers
<1>3. \A r : Becomes(w, r) => req'[w] = r
  BY <1>2 DEF Becomes
<1>4. CASE req'[w].pc \notin PaymentPc
  BY <1>1, <1>4, NotAPayment, NumbersKept DEF books
<1>5. CASE req'[w].pc \in PaymentPc
  <2> DEFINE Kept == /\ Numbered(w)'
                     /\ HasNumber(w)' => HasNumber(w) /\ req'[w].no = req[w].no
                     /\ Holds(w)' => req'[w].no = seq + 1 /\ \A v \in Worker : ~Holds(v)
  <2> SUFFICES Kept
    BY <1>1, NumbersKept DEF books
  <2>1. ASSUME NEW s \in Student, NEW a \in Amount, NEW m \in Method, NEW sc \in Scope,
               NEW k \in Key \cup {NoKey}, StartPayment(w, s, a, m, k, sc)
        PROVE  Kept
    <3> DEFINE pc == CASE m = "CASH" -> "cash" [] m = "CHEQUE" -> "cheque" [] OTHER -> "read"
    <3>1. req'[w].pc = pc /\ req'[w].no = 0 /\ req'[w].method = m
      BY <1>3, <2>1 DEF StartPayment
    <3> QED BY <3>1 DEF Numbered, HasNumber, Holds
  <2>2. CASE AggregateCash(w)
    <3>1. req[w] \in PaymentReq /\ req[w].pc = "cash"
      BY <2>2, PcTells DEF AggregateCash, PaymentPc, BooksInv
    <3>2. req'[w] = [req[w] EXCEPT !.pc = "read"]
      BY <1>3, <1>5, <2>2, IdleRequest DEF AggregateCash
    <3>3. req'[w].pc = "read" /\ req'[w].no = req[w].no /\ req'[w].method = req[w].method
      BY <3>1, <3>2 DEF PaymentReq
    <3> QED BY <1>2, <3>1, <3>3 DEF Numbered, HasNumber, Holds
  <2>3. CASE ReadOpenInvoices(w)
    <3> DEFINE pc == IF req[w].no = 0 THEN "number" ELSE "write"
    <3>1. req[w] \in PaymentReq /\ req[w].pc = "read"
      BY <2>3, PcTells DEF ReadOpenInvoices, PaymentPc, BooksInv
    <3>2. req'[w] = [req[w] EXCEPT !.pc = pc, !.view = inv]
      BY <1>3, <2>3 DEF ReadOpenInvoices
    <3> HIDE DEF pc
    <3>3. req'[w].pc = pc /\ req'[w].no = req[w].no /\ req'[w].method = req[w].method
      BY <3>1, <3>2 DEF PaymentReq
    <3> QED BY <1>2, <3>1, <3>3 DEF Numbered, HasNumber, Holds, PaymentPc, pc
  <2>4. CASE TakeReceiptNumber(w)
    <3>1. req[w] \in PaymentReq /\ req[w].pc = "number"
      BY <2>4, PcTells DEF TakeReceiptNumber, PaymentPc, BooksInv
    <3>2. req'[w] = [req[w] EXCEPT !.pc = "write", !.no = seq + 1]
      BY <1>3, <2>4 DEF TakeReceiptNumber
    <3>3. req'[w].pc = "write" /\ req'[w].no = seq + 1 /\ req'[w].method = req[w].method
      BY <3>1, <3>2 DEF PaymentReq
    <3>4. \A v \in Worker : ~Holds(v)
      BY <2>4 DEF TakeReceiptNumber, SequenceLocked, Holds
    <3> QED BY <1>2, <3>1, <3>3, <3>4 DEF Numbered, HasNumber, Holds
  <2>5. ASSUME \/ \E p \in Payment, a \in Amount : ReadRefund(w, p, a)
               \/ \E p \in Payment, f \in Penalty : CheckCheque(w, p, f)
               \/ ReadCheque(w)
               \/ \E s \in Student, a \in Amount : ReadBalance(w, s, a)
               \/ Abort(w)
        PROVE  FALSE
    <3> DEFINE Other == {"refund", "checked", "bounce", "credit", "idle"}
    <3>1. ASSUME NEW p \in Payment, NEW a \in Amount, ReadRefund(w, p, a)
          PROVE  req'[w].pc \in Other
      BY <1>3, <3>1 DEF ReadRefund
    <3>2. ASSUME NEW p \in Payment, NEW f \in Penalty, CheckCheque(w, p, f)
          PROVE  req'[w].pc \in Other
      BY <1>3, <3>2 DEF CheckCheque
    <3>3. ASSUME ReadCheque(w) PROVE req'[w].pc \in Other
      BY <1>3, <3>3 DEF ReadCheque
    <3>4. ASSUME NEW s \in Student, NEW a \in Amount, ReadBalance(w, s, a)
          PROVE  req'[w].pc \in Other
      BY <1>3, <3>4 DEF ReadBalance
    <3>5. ASSUME Abort(w) PROVE req'[w].pc \in Other
      BY <1>3, <3>5, IdleRequest DEF Abort
    <3>6. req'[w].pc \in Other
      <4> HIDE DEF Other
      <4> QED BY <2>5, <3>1, <3>2, <3>3, <3>4, <3>5
    <3> QED BY <1>5, <3>6 DEF PaymentPc
  <2> HIDE DEF Kept
  <2> QED BY <2>1, <2>2, <2>3, <2>4, <2>5 DEF Reads
<1> QED BY <1>4, <1>5

LEMMA ChequeNumberNumbers ==
    ASSUME BooksInv, NumbersInv, NEW w \in Worker, TakeChequeNumber(w)
    PROVE  NumbersInv'
<1>1. /\ req \in [Worker -> Request] /\ seq \in Nat /\ receipt \in [Payment -> Nat]
      /\ Numbered(w) /\ req[w] \in PaymentReq /\ req[w].pc = "cheque"
  BY PcTells DEF BooksInv, RTypeOK, NumbersInv, ChequeNumbers, TakeChequeNumber, PaymentPc
<1>2. req[w].method = "CHEQUE" /\ "CHEQUE" \in Method
  BY <1>1 DEF Numbered, PaymentReq
<1>3. /\ req' = [req EXCEPT ![w] = [req[w] EXCEPT !.pc = "read", !.no = seq + 1]]
      /\ UNCHANGED <<books, receipt>> /\ seq' = seq + 1
      /\ \A v \in Worker : ~Holds(v)
  BY DEF TakeChequeNumber, Becomes, SequenceLocked, Holds
<1>4. req'[w].pc = "read" /\ req'[w].no = seq + 1 /\ req'[w].method = "CHEQUE"
  BY <1>1, <1>2, <1>3 DEF PaymentReq
<1>5. \A v \in Worker \ {w} : req'[v] = req[v]
  BY <1>1, <1>3
<1>6. KeysOnce' /\ ReceiptsOnce' /\ NoGap'
  BY <1>1, <1>2, <1>3 DEF NumbersInv, KeysOnce, ReceiptsOnce, NoGap, books
<1>7. RowLock'
  BY <1>3, <1>4, <1>5 DEF RowLock, Holds
<1>8. ChequeNumbers'
  <2>1. \A v \in Worker : Numbered(v)'
    BY <1>1, <1>4, <1>5 DEF NumbersInv, ChequeNumbers, Numbered
  <2>2. \A v \in Worker \ {w} : HasNumber(v)' => /\ HasNumber(v) /\ req'[v].no = req[v].no
                                                 /\ req[v].no <= seq /\ req[v].no \in Nat
    <3> TAKE v \in Worker \ {w}
    <3>1. HasNumber(v)' => HasNumber(v)
      BY <1>5 DEF HasNumber
    <3>2. HasNumber(v) => req[v].no \in Nat
      BY PcTells DEF HasNumber, PaymentReq, BooksInv
    <3> QED BY <1>5, <3>1, <3>2 DEF NumbersInv, ChequeNumbers
  <2>3. \A p \in Payment : receipt[p] <= seq /\ receipt[p] \in Nat
    BY <1>1 DEF NumbersInv, ReceiptsOnce
  <2>4. \A v \in Worker : HasNumber(v)' =>
           req'[v].no <= seq' /\ \A p \in Payment : receipt'[p] # req'[v].no
    BY <1>1, <1>3, <1>4, <2>2, <2>3 DEF NumbersInv, ChequeNumbers
  <2>5. \A v, u \in Worker : HasNumber(v)' /\ HasNumber(u)' /\ req'[v].no = req'[u].no => v = u
    BY <1>1, <1>4, <2>2 DEF NumbersInv, ChequeNumbers
  <2> QED BY <2>1, <2>4, <2>5 DEF ChequeNumbers
<1> QED BY <1>6, <1>7, <1>8 DEF NumbersInv
LEMMA CommitPaymentNumbers ==
    ASSUME BooksInv, NumbersInv, BooksInv', NEW w \in Worker, NEW p \in Payment,
           CommitPayment(w, p)
    PROVE  NumbersInv'
<1> DEFINE no == req[w].no
           byCheque == req[w].method = "CHEQUE"
<1>1. /\ req \in [Worker -> Request] /\ seq \in Nat /\ receipt \in [Payment -> Nat]
      /\ pay \in [Payment -> PaymentRow]
      /\ Numbered(w) /\ req[w] \in PaymentReq /\ req[w].pc = "write" /\ pay[p].status = "NONE"
  BY PcTells DEF BooksInv, RTypeOK, TypeOK, NumbersInv, ChequeNumbers, CommitPayment,
                 RecordPayment, PaymentPc
<1>2. /\ receipt' = [receipt EXCEPT ![p] = no] /\ req' = [req EXCEPT ![w] = Idle]
      /\ seq' = IF byCheque THEN seq ELSE no
      /\ ~KeySeen(req[w].key)
      /\ \A q \in Payment \ {p} : pay'[q] = pay[q]
      /\ pay'[p].key = req[w].key /\ pay'[p].status = "SUCCESS"
  BY <1>1 DEF CommitPayment, RecordPayment, Becomes
<1>3. no \in Nat /\ no # 0 /\ req[w].method \in Method
  BY <1>1 DEF Numbered, PaymentReq
<1>4. \/ byCheque /\ HasNumber(w) /\ ~Holds(w) /\ seq' = seq
      \/ ~byCheque /\ Holds(w) /\ ~HasNumber(w) /\ no = seq + 1 /\ seq' = seq + 1
  BY <1>1, <1>2, <1>3 DEF HasNumber, Holds, PaymentPc, NumbersInv, RowLock
<1>5. \A q \in Payment : receipt[q] # no /\ receipt[q] \in Nat
  <2>1. \A q \in Payment : receipt[q] <= seq /\ receipt[q] \in Nat
    BY <1>1 DEF NumbersInv, ReceiptsOnce
  <2> QED BY <1>1, <1>4, <2>1 DEF NumbersInv, ChequeNumbers
<1>6. \A v \in Worker \ {w} : req'[v] = req[v]
  BY <1>1, <1>2
<1>7. ~HasNumber(w)' /\ ~Holds(w)' /\ Numbered(w)'
  BY <1>1, <1>2, IdleRequest DEF HasNumber, Holds, Numbered
<1>8. \A q \in Payment : receipt'[q] = IF q = p THEN no ELSE receipt[q]
  BY <1>1, <1>2
<1> HIDE DEF no, byCheque
<1>9. KeysOnce'
  BY <1>2 DEF NumbersInv, KeysOnce, KeySeen
<1>10. ReceiptsOnce'
  <2>1. \A q \in Payment : receipt'[q] <= seq'
    <3>1. no <= seq'
      BY <1>1, <1>3, <1>4 DEF NumbersInv, ChequeNumbers, no
    <3>2. seq <= seq'
      BY <1>1, <1>4
    <3>3. seq' \in Nat
      BY <1>1, <1>4
    <3> QED BY <1>1, <1>3, <1>8, <3>1, <3>2, <3>3 DEF NumbersInv, ReceiptsOnce
  <2> QED BY <1>2, <1>5, <1>8, <2>1 DEF NumbersInv, ReceiptsOnce
<1>11. RowLock'
  BY <1>4, <1>6, <1>7 DEF NumbersInv, RowLock, Holds
<1>12. ChequeNumbers'
  <2>1. \A v \in Worker : Numbered(v)'
    BY <1>6, <1>7 DEF NumbersInv, ChequeNumbers, Numbered
  <2>2. \A v \in Worker : HasNumber(v)' => v # w /\ HasNumber(v) /\ req'[v].no = req[v].no
    BY <1>6, <1>7 DEF HasNumber
  <2>3. \A v \in Worker : HasNumber(v) => req[v].no \in Nat
    BY PcTells DEF HasNumber, PaymentReq, BooksInv
  <2>4. \A v \in Worker : HasNumber(v)' => req'[v].no # no
    BY <1>1, <1>4, <2>2, <2>3 DEF NumbersInv, ChequeNumbers, no
  <2>5. seq' \in Nat /\ seq <= seq'
    BY <1>1, <1>4
  <2> QED BY <1>1, <1>8, <2>1, <2>2, <2>3, <2>4, <2>5 DEF NumbersInv, ChequeNumbers
<1>13. NoGap'
  <2> SUFFICES ASSUME "CHEQUE" \notin Method
               PROVE  {receipt'[q] : q \in Payment} \ {0} = 1 .. seq'
    BY DEF NoGap
  <2>1. seq' = seq + 1 /\ no = seq + 1
    BY <1>3, <1>4 DEF byCheque
  <2>2. receipt[p] = 0 /\ {receipt[q] : q \in Payment} \ {0} = 1 .. seq
    BY <1>1 DEF NumbersInv, ReceiptsOnce, NoGap
  <2>3. {receipt'[q] : q \in Payment} \ {0} = ({receipt[q] : q \in Payment} \ {0}) \cup {seq + 1}
    <3>1. ASSUME NEW n, n \in {receipt'[q] : q \in Payment} \ {0}
          PROVE  n \in ({receipt[q] : q \in Payment} \ {0}) \cup {seq + 1}
      BY <1>8, <2>1, <3>1
    <3>2. ASSUME NEW n, n \in {receipt[q] : q \in Payment} \ {0}
          PROVE  n \in {receipt'[q] : q \in Payment} \ {0}
      BY <1>8, <2>2, <3>2
    <3>3. seq + 1 \in {receipt'[q] : q \in Payment} \ {0}
      BY <1>1, <1>8, <2>1
    <3> QED BY <3>1, <3>2, <3>3
  <2>4. (1 .. seq) \cup {seq + 1} = 1 .. seq + 1
    BY <1>1
  <2> QED BY <2>1, <2>2, <2>3, <2>4
<1> QED BY <1>9, <1>10, <1>11, <1>12, <1>13 DEF NumbersInv

LEMMA NumbersInit == RInit => NumbersInv
<1> SUFFICES ASSUME RInit PROVE NumbersInv
  OBVIOUS
<1>1. /\ \A w \in Worker : req[w].pc = "idle"
      /\ \A p \in Payment : receipt[p] = 0 /\ pay[p].key = NoKey
      /\ seq = 0
  BY IdleRequest DEF RInit, Init, NoPayment
<1>2. KeysOnce /\ ReceiptsOnce
  BY <1>1 DEF KeysOnce, ReceiptsOnce
<1>3. RowLock /\ ChequeNumbers
  BY <1>1 DEF RowLock, ChequeNumbers, Holds, HasNumber, Numbered, PaymentPc
<1>4. NoGap
  <2>1. {receipt[p] : p \in Payment} \ {0} = {} /\ 1 .. 0 = {}
    BY <1>1
  <2> QED BY <1>1, <2>1 DEF NoGap
<1> QED BY <1>2, <1>3, <1>4 DEF NumbersInv

LEMMA NumbersStep == BooksInv /\ NumbersInv /\ [RNext]_rvars => NumbersInv'
<1> SUFFICES ASSUME BooksInv, NumbersInv, [RNext]_rvars PROVE NumbersInv'
  OBVIOUS
<1>1. BooksInv'
  BY BooksStep
<1>2. ASSUME NEW w \in Worker, CommitRefund(w) \/ CommitBounce(w) PROVE NumbersInv'
  <2>1. UNCHANGED numbers /\ req' = [req EXCEPT ![w] = Idle]
    BY <1>2 DEF CommitRefund, CommitBounce, Becomes
  <2>2. req'[w] = Idle /\ req' = [req EXCEPT ![w] = req'[w]]
    BY <2>1 DEF BooksInv, RTypeOK
  <2>3. \A q \in Payment : /\ pay'[q].key = pay[q].key
                           /\ pay'[q].status = "NONE" <=> pay[q].status = "NONE"
    BY <1>2, CommitRefundBooks, CommitBounceBooks
  <2>4. Numbered(w)' /\ ~HasNumber(w)' /\ ~Holds(w)'
    BY <2>2, IdleRequest, NotAPayment
  <2> QED BY <2>1, <2>2, <2>3, <2>4, NumbersKept
<1>3. ASSUME NEW w \in Worker, CommitManualRefund(w) \/ OneStepRequest(w) PROVE NumbersInv'
  <2>1. UNCHANGED numbers /\ pay' = pay /\ req' = [req EXCEPT ![w] = Idle]
    BY <1>3, DeskBooks
  <2>2. req'[w] = Idle /\ req' = [req EXCEPT ![w] = req'[w]]
    BY <2>1 DEF BooksInv, RTypeOK
  <2>3. Numbered(w)' /\ ~HasNumber(w)' /\ ~Holds(w)'
    BY <2>2, IdleRequest, NotAPayment
  <2> QED BY <2>1, <2>2, <2>3, NumbersKept
<1>4. CASE UNCHANGED rvars
  BY <1>4 DEF rvars, NumbersInv, KeysOnce, ReceiptsOnce, RowLock, ChequeNumbers, NoGap,
              Holds, HasNumber, Numbered
<1>5. CASE RNext
  BY <1>1, <1>2, <1>3, <1>5, StepsByKind, ReadsNumbers, ChequeNumberNumbers, CommitPaymentNumbers
<1> QED BY <1>4, <1>5

\* However many requests are in flight and wherever they are rolled back, an
\* idempotency key and a receipt number belong to one payment, and without
\* cheques the receipts have no gap.
THEOREM KeysAndReceiptsOnceHolds == RSpec => []KeysAndReceiptsOnce
<1>1. RInit => BooksInv /\ NumbersInv
  BY BooksInit, NumbersInit
<1>2. BooksInv /\ NumbersInv /\ [RNext]_rvars => (BooksInv /\ NumbersInv)'
  BY BooksStep, NumbersStep
<1>3. BooksInv /\ NumbersInv => KeysAndReceiptsOnce
  BY DEF NumbersInv, KeysOnce, ReceiptsOnce, NoGap, KeysAndReceiptsOnce
<1> QED BY <1>1, <1>2, <1>3, PTL DEF RSpec
-----------------------------------------------------------------------------
(* The ledger and the allocations *)

\* The branch raises demands, takes payments and posts at the desk; nothing is
\* refunded through the gateway and no cheque bounces.
OnlyPayments == Calls \cap {"refund", "bounce"} = {} /\ IsFiniteSet(Payment)

NoDispute ==
    /\ \A p \in Payment : pay[p].status # "DISPUTED"
    /\ \A w \in Worker : req[w].pc \notin AboutPayment

Unallocated == \A p \in Payment, i \in Invoice : pay[p].status = "NONE" => alloc[p][i] = 0

NoTotal == \A i \in Invoice : inv[i].status = "NONE" => inv[i].total = 0

Entries == \A i \in Invoice : ledger[i] = inv[i].total - Received(i)

\* Neither an invoice nor the copy of it that a transaction will write back
\* counts more as paid than came in.
HasView(w) == req[w].pc \in {"number", "write"}
NothingInvented ==
    \A i \in Invoice :
        /\ inv[i].paid <= Received(i)
        /\ \A w \in Worker : HasView(w) => req[w].view[i].paid <= Received(i)

EntriesInv == NoDispute /\ Unallocated /\ NoTotal /\ Entries /\ NothingInvented

LEMMA SumOfAllocations ==
    ASSUME NEW P, NEW A \in [Payment -> [Invoice -> Nat]], IsFiniteSet(Payment),
           \A p \in Payment : P[p].status # "DISPUTED", NEW i \in Invoice
    PROVE  LET f == [p \in Payment |-> A[p][i]]
               S == {p \in Payment : P[p].status # "DISPUTED"}
           IN  /\ SumFunctionOnSet(f, S) = SumFunctionOnSet(f, Payment)
               /\ SumFunctionOnSet(f, Payment) \in Nat
<1> DEFINE f == [p \in Payment |-> A[p][i]]
           S == {p \in Payment : P[p].status # "DISPUTED"}
<1>1. S = Payment
  OBVIOUS
<1>2. \A p \in Payment : f[p] \in Nat
  OBVIOUS
<1> HIDE DEF f
<1>3. SumFunctionOnSet(f, Payment) \in Nat
  BY <1>2, SumNat
<1> HIDE DEF S
<1>4. SumFunctionOnSet(f, S) = SumFunctionOnSet(f, Payment)
  BY <1>1
<1> QED BY <1>3, <1>4 DEF f, S

\* What is received stays while no allocation changes.
LEMMA ReceivedKept ==
    ASSUME BooksInv, NoDispute, NoDispute', OnlyPayments, alloc' = alloc, NEW i \in Invoice
    PROVE  Received(i)' = Received(i) /\ Received(i) \in Nat
<1>1. alloc \in [Payment -> [Invoice -> Nat]] /\ IsFiniteSet(Payment)
  BY DEF BooksInv, RTypeOK, TypeOK, OnlyPayments
<1> DEFINE sum == SumFunctionOnSet([p \in Payment |-> alloc[p][i]], Payment)
<1>2. Received(i) = sum /\ sum \in Nat
  BY <1>1, SumOfAllocations DEF NoDispute, Received
<1>3. Received(i)' = sum
  BY <1>1, SumOfAllocations DEF NoDispute, Received
<1> QED BY <1>2, <1>3

\* A step of w that leaves the allocations and the rows' amounts alone.
LEMMA EntriesKept ==
    ASSUME BooksInv, EntriesInv, OnlyPayments, UNCHANGED books,
           NEW w \in Worker, req' = [req EXCEPT ![w] = req'[w]],
           req'[w].pc \notin AboutPayment,
           \/ ~HasView(w)'
           \/ req'[w].view = inv
           \/ HasView(w) /\ req'[w].view = req[w].view
    PROVE  EntriesInv'
<1>1. /\ inv' = inv /\ pay' = pay /\ alloc' = alloc /\ ledger' = ledger
      /\ \A v \in Worker \ {w} : req'[v] = req[v]
  BY DEF books, BooksInv, RTypeOK
<1>2. NoDispute'
  BY <1>1 DEF EntriesInv, NoDispute
<1>3. \A i \in Invoice : Received(i)' = Received(i)
  BY <1>1, <1>2, ReceivedKept DEF EntriesInv
<1>4. Entries' /\ Unallocated' /\ NoTotal'
  BY <1>1, <1>3 DEF EntriesInv, Entries, Unallocated, NoTotal
<1>5. NothingInvented'
  <2> SUFFICES ASSUME NEW i \in Invoice
               PROVE  /\ inv'[i].paid <= Received(i)'
                      /\ \A v \in Worker : HasView(v)' => req'[v].view[i].paid <= Received(i)'
    BY DEF NothingInvented
  <2>1. inv'[i].paid <= Received(i)'
    BY <1>1, <1>3 DEF EntriesInv, NothingInvented
  <2>2. ASSUME NEW v \in Worker, HasView(v)' PROVE req'[v].view[i].paid <= Received(i)'
    <3>1. CASE v = w
      BY <1>3, <2>2, <3>1 DEF EntriesInv, NothingInvented
    <3>2. CASE v # w
      BY <1>1, <1>3, <2>2, <3>2 DEF EntriesInv, NothingInvented, HasView
    <3> QED BY <3>1, <3>2
  <2> QED BY <2>1, <2>2
<1> QED BY <1>2, <1>4, <1>5 DEF EntriesInv

\* The only read that takes a copy takes a fresh one.
LEMMA ReadsEntries ==
    ASSUME BooksInv, EntriesInv, OnlyPayments, NEW w \in Worker, Reads(w),
           req'[w].pc \notin AboutPayment
    PROVE  EntriesInv'
<1>1. UNCHANGED <<books, numbers>> /\ req' = [req EXCEPT ![w] = req'[w]]
  BY ReadsOnly
<1> DEFINE Goal == \/ ~HasView(w)'
                   \/ req'[w].view = inv
                   \/ HasView(w) /\ req'[w].view = req[w].view
<1> SUFFICES Goal
  <2>1. UNCHANGED books
    BY <1>1
  <2> QED BY <1>1, <2>1, EntriesKept
<1>2. req \in [Worker -> Request]
  BY DEF BooksInv, RTypeOK
<1>3. ASSUME NEW s \in Student, NEW a \in Amount, NEW m \in Method, NEW sc \in Scope,
             NEW k \in Key \cup {NoKey}, StartPayment(w, s, a, m, k, sc)
      PROVE  Goal
  <2> DEFINE pc == CASE m = "CASH" -> "cash" [] m = "CHEQUE" -> "cheque" [] OTHER -> "read"
  <2>1. req'[w].pc = pc
    BY <1>2, <1>3 DEF StartPayment, Becomes
  <2>2. pc \notin {"number", "write"}
    OBVIOUS
  <2> QED BY <2>1, <2>2 DEF HasView
<1>4. CASE AggregateCash(w) \/ Abort(w)
  <2>1. req[w] \in PaymentReq \/ req' = [req EXCEPT ![w] = Idle]
    BY <1>4, PcTells DEF AggregateCash, Abort, Becomes, PaymentPc, BooksInv
  <2>2. req'[w] = Idle \/ (req'[w] = [req[w] EXCEPT !.pc = "read"] /\ req[w] \in PaymentReq)
    BY <1>2, <1>4, <2>1 DEF AggregateCash, Abort, Becomes
  <2> QED BY <2>2, IdleRequest DEF HasView, PaymentReq, PaymentPc
<1>5. CASE ReadOpenInvoices(w)
  <2>1. req[w] \in PaymentReq
    BY <1>5, PcTells DEF ReadOpenInvoices, PaymentPc, BooksInv
  <2>2. req'[w].view = inv
    BY <1>2, <1>5, <2>1 DEF ReadOpenInvoices, Becomes, PaymentReq
  <2> QED BY <2>2
<1>6. CASE TakeReceiptNumber(w)
  <2>1. req[w] \in PaymentReq /\ HasView(w)
    BY <1>6, PcTells DEF TakeReceiptNumber, PaymentPc, BooksInv, HasView
  <2>2. req'[w].view = req[w].view
    BY <1>2, <1>6, <2>1 DEF TakeReceiptNumber, Becomes, PaymentReq
  <2> QED BY <2>1, <2>2
<1>7. CASE \/ \E p \in Payment, a \in Amount : ReadRefund(w, p, a)
           \/ \E p \in Payment, f \in Penalty : CheckCheque(w, p, f)
           \/ ReadCheque(w)
           \/ \E s \in Student, a \in Amount : ReadBalance(w, s, a)
  <2>1. req'[w].pc \notin {"number", "write"}
    BY <1>2, <1>7 DEF ReadRefund, CheckCheque, ReadCheque, ReadBalance, Becomes
  <2> QED BY <2>1 DEF HasView
<1> HIDE DEF Goal
<1> QED BY <1>3, <1>4, <1>5, <1>6, <1>7 DEF Reads

LEMMA ChequeNumberEntries ==
    ASSUME BooksInv, EntriesInv, OnlyPayments, NEW w \in Worker, TakeChequeNumber(w)
    PROVE  EntriesInv'
<1>1. req[w] \in PaymentReq /\ req \in [Worker -> Request]
  BY PcTells DEF TakeChequeNumber, BooksInv, RTypeOK, PaymentPc
<1>2. req' = [req EXCEPT ![w] = req'[w]] /\ req'[w].pc = "read" /\ UNCHANGED books
  BY <1>1 DEF TakeChequeNumber, Becomes, PaymentReq
<1> QED BY <1>2, EntriesKept DEF HasView, AboutPayment

\* The new allocations are what the payment adds to the entries, and the copy
\* they are added to was not ahead of the allocations.
LEMMA CommitPaymentEntries ==
    ASSUME BooksInv, BooksInv', EntriesInv, OnlyPayments, NEW w \in Worker,
           NEW p \in Payment, CommitPayment(w, p)
    PROVE  EntriesInv'
<1> DEFINE r    == req[w]
           open == OpenInvoices(r.view, r.student, r.scope)
           give == Allocation(r.view, open, r.amount)
           rows == {i \in Invoice : give[i] > 0}
           row  == [status |-> "SUCCESS", student |-> r.student, method |-> r.method,
                    key |-> r.key, amount |-> r.amount, refunded |-> 0, rows |-> rows]
<1>1. r \in PaymentReq /\ TypeOK /\ req \in [Worker -> Request] /\ HasView(w)
  BY PcTells DEF CommitPayment, BooksInv, RTypeOK, PaymentPc, HasView
<1>2. r.view \in View
  BY <1>1 DEF PaymentReq
<1>3. give \in [Invoice -> Nat]
  <2>1. open \in SUBSET Invoice
    BY <1>1 DEF OpenInvoices, PaymentReq
  <2>2. r.amount \in Nat
    <3>1. r.amount \in Amount /\ Amount \subseteq Nat
      BY <1>1 DEF PaymentReq
    <3> QED BY <3>1
  <2> QED BY <1>2, <2>1, <2>2, AllocationType DEF View
<1> HIDE DEF give, open, r, rows
<1>4. /\ pay[p].status = "NONE" /\ pay' = [pay EXCEPT ![p] = row]
      /\ alloc' = [alloc EXCEPT ![p] = give]
      /\ inv' = InvoicesPaid(r.view, give)
      /\ ledger' = Posted([i \in Invoice |-> -give[i]])
      /\ req' = [req EXCEPT ![w] = Idle]
  BY DEF CommitPayment, RecordPayment, Becomes, r, give, open, rows
<1>5. \A q \in Payment : /\ pay'[q].status = IF q = p THEN "SUCCESS" ELSE pay[q].status
                         /\ alloc'[q] = IF q = p THEN give ELSE alloc[q]
  BY <1>1, <1>4 DEF TypeOK
<1>6. NoDispute'
  BY <1>1, <1>4, <1>5, IdleRequest DEF NoDispute, EntriesInv
<1>7. Unallocated'
  BY <1>5 DEF EntriesInv, Unallocated
<1>8. ASSUME NEW i \in Invoice
      PROVE  Received(i)' = Received(i) + give[i] /\ Received(i) \in Nat /\ give[i] \in Nat
  <2> DEFINE f == [q \in Payment |-> alloc[q][i]]
             g == [q \in Payment |-> alloc'[q][i]]
  <2>1. Received(i) = SumFunctionOnSet(f, Payment) /\ Received(i) \in Nat
    <3>1. alloc \in [Payment -> [Invoice -> Nat]] /\ NoDispute
      BY <1>1 DEF TypeOK, EntriesInv
    <3> QED BY <3>1, SumOfAllocations DEF NoDispute, Received, OnlyPayments
  <2>2. Received(i)' = SumFunctionOnSet(g, Payment)
    <3>1. alloc' \in [Payment -> [Invoice -> Nat]]
      BY DEF BooksInv, RTypeOK, TypeOK
    <3> QED BY <1>6, <3>1, SumOfAllocations DEF NoDispute, Received, OnlyPayments
  <2>3. /\ \A q \in Payment : f[q] \in Int /\ g[q] \in Int
        /\ \A q \in Payment \ {p} : f[q] = g[q]
        /\ f[p] = 0 /\ g[p] = give[i]
    <3>1. alloc[p][i] = 0
      BY <1>4 DEF EntriesInv, Unallocated
    <3>2. \A q \in Payment : alloc[q][i] \in Nat
      BY <1>1 DEF TypeOK
    <3> QED BY <1>3, <1>5, <3>1, <3>2
  <2> HIDE DEF f, g
  <2>4. SumFunctionOnSet(g, Payment) = SumFunctionOnSet(f, Payment) + g[p] - f[p]
    BY <2>3, SumChange DEF OnlyPayments
  <2>5. give[i] \in Nat
    BY <1>3
  <2> QED BY <2>1, <2>2, <2>3, <2>4, <2>5
<1>9. ASSUME NEW i \in Invoice
      PROVE  /\ inv'[i].total = inv[i].total
             /\ inv'[i].status = "NONE" => inv[i].status = "NONE"
             /\ inv'[i].paid = IF give[i] = 0 THEN inv[i].paid ELSE r.view[i].paid + give[i]
             /\ ledger'[i] = ledger[i] - give[i]
  <2>1. inv[i] \in InvoiceRow /\ ledger[i] \in Int /\ give[i] \in Int
    BY <1>1, <1>3 DEF TypeOK
  <2>2. ledger'[i] = ledger[i] - give[i]
    BY <1>1, <1>3, <1>4, <2>1 DEF Posted
  <2> DEFINE x  == r.view[i].paid + give[i]
             st == StatusAfterPayment(r.view[i], x)
  <2>3. inv'[i] = IF give[i] = 0 THEN inv[i] ELSE [inv[i] EXCEPT !.paid = x, !.status = st]
    BY <1>4 DEF InvoicesPaid
  <2>4. st # "NONE"
    BY DEF StatusAfterPayment
  <2> HIDE DEF st, x
  <2>5. /\ inv'[i].total = inv[i].total
        /\ inv'[i].status = "NONE" => inv[i].status = "NONE"
        /\ inv'[i].paid = IF give[i] = 0 THEN inv[i].paid ELSE x
    BY <2>1, <2>3, <2>4 DEF InvoiceRow
  <2> QED BY <2>2, <2>5 DEF x
<1>10. NoTotal'
  BY <1>9 DEF EntriesInv, NoTotal
<1>11. Entries'
  <2> SUFFICES ASSUME NEW i \in Invoice PROVE ledger'[i] = inv'[i].total - Received(i)'
    BY DEF Entries
  <2>1. ledger[i] = inv[i].total - Received(i) /\ inv[i].total \in Int
    BY <1>1 DEF EntriesInv, Entries, TypeOK, InvoiceRow
  <2>2. ledger'[i] = ledger[i] - give[i] /\ inv'[i].total = inv[i].total
    BY <1>9
  <2>3. Received(i)' = Received(i) + give[i] /\ Received(i) \in Nat /\ give[i] \in Nat
    BY <1>8
  <2> QED BY <2>1, <2>2, <2>3
<1>12. NothingInvented'
  <2> SUFFICES ASSUME NEW i \in Invoice
               PROVE  /\ inv'[i].paid <= Received(i)'
                      /\ \A v \in Worker : HasView(v)' => req'[v].view[i].paid <= Received(i)'
    BY DEF NothingInvented
  <2>1. Received(i)' = Received(i) + give[i] /\ Received(i) \in Nat /\ give[i] \in Nat
    BY <1>8
  <2>2. inv[i].paid \in Int /\ r.view[i].paid \in Int
    BY <1>1, <1>2 DEF TypeOK, View, InvoiceRow
  <2>3. inv[i].paid <= Received(i) /\ r.view[i].paid <= Received(i)
    BY <1>1 DEF EntriesInv, NothingInvented, r
  <2>4. inv'[i].paid = IF give[i] = 0 THEN inv[i].paid ELSE r.view[i].paid + give[i]
    BY <1>9
  <2>5. inv'[i].paid <= Received(i)'
    BY <2>1, <2>2, <2>3, <2>4
  <2>6. ASSUME NEW v \in Worker, HasView(v)' PROVE req'[v].view[i].paid <= Received(i)'
    <3>1. v # w /\ req'[v] = req[v] /\ HasView(v)
      BY <1>1, <1>4, <2>6, IdleRequest DEF HasView, PaymentPc
    <3>2. req[v].view \in View
      BY <3>1, PcTells DEF HasView, PaymentPc, PaymentReq, BooksInv
    <3>3. req[v].view[i].paid \in Int /\ req[v].view[i].paid <= Received(i)
      BY <3>1, <3>2 DEF View, InvoiceRow, EntriesInv, NothingInvented
    <3> QED BY <2>1, <3>1, <3>3
  <2> QED BY <2>5, <2>6
<1> QED BY <1>6, <1>7, <1>10, <1>11, <1>12 DEF EntriesInv

\* A demand adds one entry to an invoice nothing is allocated to; the desk's
\* postings carry no invoice.
LEMMA DeskEntries ==
    ASSUME BooksInv, EntriesInv, OnlyPayments, NEW w \in Worker,
           CommitManualRefund(w) \/ OneStepRequest(w)
    PROVE  EntriesInv'
<1>1. TypeOK /\ req \in [Worker -> Request]
  BY DEF BooksInv, RTypeOK
<1>2. pay' = pay /\ alloc' = alloc
  BY DEF CommitManualRefund, RecordManualRefund, OneStepRequest, Demands, PostDemand, WriteOff
<1>3. req' = [req EXCEPT ![w] = Idle]
  BY DeskBooks
<1>4. NoDispute' /\ Unallocated'
  BY <1>1, <1>2, <1>3, IdleRequest DEF NoDispute, Unallocated, EntriesInv
<1>5. \A i \in Invoice : Received(i)' = Received(i) /\ Received(i) \in Nat
  BY <1>2, <1>4, ReceivedKept DEF EntriesInv
<1>6. \A v \in Worker : HasView(v)' => HasView(v) /\ req'[v] = req[v]
  BY <1>1, <1>3, IdleRequest DEF HasView, PaymentPc
<1>7. ASSUME NEW i \in Invoice
      PROVE  /\ inv'[i].status = "NONE" => inv'[i].total = 0
             /\ ledger'[i] = inv'[i].total - Received(i)
             /\ inv'[i].paid <= Received(i)
  <2> DEFINE Goal == /\ inv'[i].status = "NONE" => inv'[i].total = 0
                     /\ ledger'[i] = inv'[i].total - Received(i)
                     /\ inv'[i].paid <= Received(i)
  <2> SUFFICES Goal
    OBVIOUS
  <2>1. /\ inv[i].status = "NONE" => inv[i].total = 0
        /\ ledger[i] = inv[i].total - Received(i)
        /\ inv[i].paid <= Received(i)
    BY DEF EntriesInv, NoTotal, Entries, NothingInvented
  <2>2. Received(i) \in Nat
    BY <1>5
  <2>3. ASSUME NEW j \in Invoice, NEW s \in Student, NEW a \in Amount, NEW d \in DueDate,
               PostDemand(j, s, a, d)
        PROVE  Goal
    <3>1. \A b \in Amount : b \in Nat
      OBVIOUS
    <3>2. CASE i = j
      <4>1. inv'[i].status = "ISSUED" /\ inv'[i].total = a /\ inv'[i].paid = 0
        BY <1>1, <2>3, <3>2 DEF PostDemand, TypeOK
      <4>2. ledger'[i] = ledger[i] + a /\ inv[i].status = "NONE"
        BY <1>1, <2>3, <3>2 DEF PostDemand, TypeOK
      <4> QED BY <2>1, <2>2, <3>1, <4>1, <4>2
    <3>3. CASE i # j
      <4>1. inv'[i] = inv[i] /\ ledger'[i] = ledger[i]
        BY <1>1, <2>3, <3>3 DEF PostDemand, TypeOK
      <4> QED BY <2>1, <4>1
    <3> QED BY <3>2, <3>3
  <2>4. ASSUME NEW s \in Student, inv' = inv, NEW x, ledger' = [ledger EXCEPT ![s] = x]
        PROVE  Goal
    <3>1. s # i
      OBVIOUS
    <3>2. ledger'[i] = ledger[i]
      BY <1>1, <2>4, <3>1 DEF TypeOK
    <3> QED BY <2>1, <2>4, <3>2
  <2> HIDE DEF Goal
  <2>5. CASE CommitManualRefund(w)
    <3>1. req[w].student \in Student
      BY <2>5, PcTells DEF CommitManualRefund, CreditReq, BooksInv
    <3> QED BY <2>4, <2>5, <3>1 DEF CommitManualRefund, RecordManualRefund
  <2>6. CASE \E s \in Student, a \in Amount : WriteOff(s, a)
    BY <2>4, <2>6 DEF WriteOff
  <2> QED BY <2>3, <2>5, <2>6 DEF OneStepRequest, Demands
<1>8. NoTotal' /\ Entries'
  BY <1>5, <1>7 DEF NoTotal, Entries
<1>9. NothingInvented'
  BY <1>5, <1>6, <1>7 DEF NothingInvented, EntriesInv
<1> QED BY <1>4, <1>8, <1>9 DEF EntriesInv

LEMMA EntriesInit == RInit /\ OnlyPayments => EntriesInv
<1> SUFFICES ASSUME RInit, OnlyPayments PROVE EntriesInv
  OBVIOUS
<1>1. /\ \A w \in Worker : req[w] = Idle
      /\ \A p \in Payment : pay[p] = NoPayment
      /\ \A i \in Invoice : inv[i] = NoInvoice /\ ledger[i] = 0
      /\ alloc = [p \in Payment |-> [i \in Invoice |-> 0]]
  BY DEF RInit, Init
<1>2. NoDispute /\ Unallocated /\ NoTotal
  <2>1. NoDispute
    <3>1. \A p \in Payment : pay[p].status = "NONE"
      <4>1. NoPayment.status = "NONE"
        BY DEF NoPayment
      <4> QED BY <1>1, <4>1
    <3>2. \A w \in Worker : req[w].pc \notin AboutPayment
      BY <1>1, IdleRequest
    <3> QED BY <3>1, <3>2 DEF NoDispute
  <2>2. Unallocated
    BY <1>1 DEF Unallocated
  <2>3. NoTotal
    BY <1>1 DEF NoTotal, NoInvoice
  <2> QED BY <2>1, <2>2, <2>3
<1>3. ASSUME NEW i \in Invoice PROVE Received(i) = 0
  <2> DEFINE f == [p \in Payment |-> alloc[p][i]]
  <2>1. Received(i) = SumFunctionOnSet(f, Payment)
    <3>1. alloc \in [Payment -> [Invoice -> Nat]]
      BY <1>1
    <3> QED BY <1>2, <3>1, SumOfAllocations DEF NoDispute, Received, OnlyPayments
  <2>2. \A p \in Payment : f[p] = 0
    BY <1>1
  <2> HIDE DEF f
  <2> QED BY <2>1, <2>2, SumZero DEF OnlyPayments
<1>4. Entries /\ NothingInvented
  BY <1>1, <1>3, IdleRequest DEF Entries, NothingInvented, HasView, NoInvoice, PaymentPc
<1> QED BY <1>2, <1>4 DEF EntriesInv

LEMMA EntriesStep == OnlyPayments /\ BooksInv /\ EntriesInv /\ [RNext]_rvars => EntriesInv'
<1> SUFFICES ASSUME OnlyPayments, BooksInv, EntriesInv, [RNext]_rvars PROVE EntriesInv'
  OBVIOUS
<1>1. BooksInv'
  BY BooksStep
<1>2. CASE UNCHANGED rvars
  BY <1>2 DEF rvars, EntriesInv, NoDispute, Unallocated, NoTotal, Entries, NothingInvented,
              Received, HasView
<1>3. CASE RNext
  <2>1. PICK w \in Worker : \/ PayRequest(w) \/ RefundRequest(w) \/ BounceRequest(w)
                            \/ DeskRequest(w) \/ OneStepRequest(w) \/ Abort(w)
    BY <1>3 DEF RNext
  <2>2. req[w].pc \notin AboutPayment /\ req \in [Worker -> Request]
    BY DEF EntriesInv, NoDispute, BooksInv, RTypeOK
  <2>3. CASE PayRequest(w)
    <3>1. CASE Reads(w)
      <4>1. ASSUME NEW s \in Student, NEW a \in Amount, NEW m \in Method, NEW sc \in Scope,
                   NEW k \in Key \cup {NoKey}, StartPayment(w, s, a, m, k, sc)
            PROVE  req'[w].pc \in PaymentPc
        <5> DEFINE pc == CASE m = "CASH" -> "cash" [] m = "CHEQUE" -> "cheque"
                           [] OTHER -> "read"
        <5>1. req'[w].pc = pc
          BY <2>2, <4>1 DEF StartPayment, Becomes
        <5> QED BY <5>1 DEF PaymentPc
      <4>2. ASSUME AggregateCash(w) \/ ReadOpenInvoices(w) \/ TakeReceiptNumber(w)
                   \/ TakeChequeNumber(w) \/ \E p \in Payment : CommitPayment(w, p)
            PROVE  req'[w].pc \in PaymentPc \cup {"idle"}
        <5>1. req[w] \in PaymentReq
          BY <4>2, PcTells DEF AggregateCash, ReadOpenInvoices, TakeReceiptNumber,
                TakeChequeNumber, CommitPayment, PaymentPc, BooksInv
        <5>2. req'[w].pc \in {"read", "number", "write", "idle"}
          <6>1. CASE AggregateCash(w)
            BY <2>2, <5>1, <6>1, IdleRequest DEF AggregateCash, Becomes, PaymentReq
          <6>2. CASE ReadOpenInvoices(w)
            BY <2>2, <5>1, <6>2 DEF ReadOpenInvoices, Becomes, PaymentReq
          <6>3. CASE TakeReceiptNumber(w) \/ TakeChequeNumber(w)
            <7>1. \A n : /\ [req[w] EXCEPT !.pc = "write", !.no = n].pc = "write"
                         /\ [req[w] EXCEPT !.pc = "read", !.no = n].pc = "read"
              BY <5>1 DEF PaymentReq
            <7> QED BY <2>2, <6>3, <7>1 DEF TakeReceiptNumber, TakeChequeNumber, Becomes
          <6>4. CASE \E p \in Payment : CommitPayment(w, p)
            BY <2>2, <6>4, IdleRequest DEF CommitPayment, Becomes
          <6> QED BY <4>2, <6>1, <6>2, <6>3, <6>4
        <5> QED BY <5>2 DEF PaymentPc
      <4>3. req'[w].pc \notin AboutPayment
        BY <2>3, <4>1, <4>2 DEF PayRequest, PaymentPc, AboutPayment
      <4> QED BY <3>1, <4>3, ReadsEntries
    <3> QED BY <1>1, <2>3, <3>1, ChequeNumberEntries, CommitPaymentEntries DEF PayRequest, Reads
  <2>4. ~RefundRequest(w) /\ ~BounceRequest(w)
    BY <2>2 DEF RefundRequest, BounceRequest, OnlyPayments, CommitRefund, ReadCheque,
                CommitBounce, AboutPayment
  <2>5. CASE DeskRequest(w)
    <3>1. CASE \E s \in Student, a \in Amount : ReadBalance(w, s, a)
      <4>1. Reads(w) /\ req'[w].pc \notin AboutPayment
        <5>1. req'[w].pc = "credit"
          BY <2>2, <3>1 DEF ReadBalance, Becomes
        <5> QED BY <3>1, <5>1 DEF Reads, AboutPayment
      <4> QED BY <4>1, ReadsEntries
    <3> QED BY <2>5, <3>1, DeskEntries DEF DeskRequest
  <2>6. CASE Abort(w)
    <3>1. Reads(w) /\ req'[w].pc \notin AboutPayment
      BY <2>2, <2>6, IdleRequest DEF Reads, Abort, Becomes
    <3> QED BY <3>1, ReadsEntries
  <2> QED BY <2>1, <2>3, <2>4, <2>5, <2>6, DeskEntries
<1> QED BY <1>2, <1>3

\* While nothing is refunded through the gateway and no cheque bounces, the
\* ledger is the demands less the allocations and no invoice looks more paid than
\* it is, although payments overwrite each other's paidAmount: see CommitPayment.
THEOREM LedgerIsAllocationsHolds == OnlyPayments => (RSpec => []LedgerIsAllocations)
<1> SUFFICES ASSUME OnlyPayments PROVE RSpec => []LedgerIsAllocations
  OBVIOUS
<1>1. RInit => BooksInv /\ EntriesInv
  BY BooksInit, EntriesInit
<1>2. BooksInv /\ EntriesInv /\ [RNext]_rvars => (BooksInv /\ EntriesInv)'
  BY BooksStep, EntriesStep
<1>3. EntriesInv => LedgerIsAllocations
  BY DEF EntriesInv, Entries, NothingInvented, LedgerIsAllocations
<1> QED BY <1>1, <1>2, <1>3, PTL DEF RSpec
-----------------------------------------------------------------------------
(* One request at a time: the transactions are the calls of FeeLedger *)

OneWorker == \A v, w \in Worker : v = w

\* What request r has read is what FeeLedger's call reads when r commits.
ReadyFor(r) ==
    /\ r.pc \in PaymentPc => ~KeySeen(r.key) /\ (r.method = "CHEQUE" => r.key = NoKey)
    /\ r.pc \in PaymentPc \ {"cash"} /\ r.method = "CASH" => CashAllowed(r.amount, CashToday)
    /\ r.pc \in {"number", "write"} => r.view = inv
    /\ r.pc = "refund" => /\ Refundable(pay[r.pay], r.amount)
                          /\ r.row = pay[r.pay] /\ r.view = inv /\ r.given = alloc[r.pay]
    /\ r.pc \in {"checked", "bounce"} =>
          pay[r.pay].status = "SUCCESS" /\ pay[r.pay].method = "CHEQUE"
    /\ r.pc = "bounce" =>
          r.view = inv /\ r.rows = pay[r.pay].rows /\ r.given = alloc[r.pay]
    /\ r.pc = "credit" => InCredit(r.student, r.amount)

Serial == \A w \in Worker : ReadyFor(req[w])

LEMMA IdleIsReady == ReadyFor(Idle)
BY DEF ReadyFor, Idle, PaymentPc

\* Nothing but the one request has moved, and the tables it read have not.
LEMMA SerialKept ==
    ASSUME BooksInv, OneWorker, UNCHANGED books, NEW w \in Worker, ReadyFor(req'[w])
    PROVE  Serial'
<1>1. inv' = inv /\ pay' = pay /\ alloc' = alloc /\ ledger' = ledger
  BY DEF books
<1>2. CashToday' = CashToday /\ \A s, a : InCredit(s, a)' <=> InCredit(s, a)
  BY <1>1 DEF CashToday, InCredit, LedgerBalance, StudentBooks
<1>3. \A k : KeySeen(k)' <=> KeySeen(k)
  BY <1>1 DEF KeySeen
<1>4. ASSUME NEW v \in Worker PROVE ReadyFor(req[v])'
  <2>1. v = w
    BY DEF OneWorker
  <2> QED BY <1>1, <1>2, <1>3, <2>1 DEF ReadyFor
<1> QED BY <1>4 DEF Serial

LEMMA SerialIdle ==
    ASSUME OneWorker, NEW w \in Worker, req'[w] = Idle
    PROVE  Serial'
BY IdleRequest DEF Serial, ReadyFor, OneWorker, Idle, PaymentPc

LEMMA SerialReads ==
    ASSUME BooksInv, OneWorker, Serial, NEW w \in Worker, Reads(w) \/ TakeChequeNumber(w)
    PROVE  Serial'
<1> DEFINE Goal == ReadyFor(req'[w])
<1>0. UNCHANGED books /\ req \in [Worker -> Request]
  BY ReadsOnly DEF TakeChequeNumber, BooksInv, RTypeOK
<1> SUFFICES Goal
  BY <1>0, SerialKept
<1>1. ReadyFor(req[w])
  BY DEF Serial
<1>2. \A r : Becomes(w, r) => req'[w] = r
  BY <1>0 DEF Becomes
<1>3. ASSUME NEW s \in Student, NEW a \in Amount, NEW m \in Method, NEW sc \in Scope,
             NEW k \in IF m = "CHEQUE" THEN {NoKey} ELSE Key \cup {NoKey},
             StartPayment(w, s, a, m, k, sc)
      PROVE  Goal
  <2> DEFINE pc == CASE m = "CASH" -> "cash" [] m = "CHEQUE" -> "cheque" [] OTHER -> "read"
             r  == [pc |-> pc, student |-> s, amount |-> a, method |-> m, key |-> k,
                    scope |-> sc, no |-> 0, view |-> NoView]
  <2>1. req'[w] = r /\ ~KeySeen(k)
    BY <1>2, <1>3 DEF StartPayment
  <2>2. /\ pc \in {"cash", "cheque", "read"} /\ (m = "CASH" => pc = "cash")
        /\ m = "CHEQUE" => k = NoKey
    OBVIOUS
  <2> HIDE DEF pc
  <2>3. ReadyFor(r)
    BY <2>1, <2>2 DEF ReadyFor
  <2> QED BY <2>1, <2>3
<1>4. CASE AggregateCash(w)
  <2>1. req[w] \in PaymentReq /\ req[w].pc = "cash"
    BY <1>4, PcTells DEF AggregateCash, PaymentPc, BooksInv
  <2> DEFINE r == [req[w] EXCEPT !.pc = "read"]
  <2>2. /\ r.pc = "read" /\ r.key = req[w].key /\ r.method = req[w].method
        /\ r.amount = req[w].amount
    BY <2>1 DEF PaymentReq
  <2>3. req'[w] = IF CashAllowed(req[w].amount, CashToday) THEN r ELSE Idle
    BY <1>2, <1>4 DEF AggregateCash
  <2> HIDE DEF r
  <2>4. CashAllowed(req[w].amount, CashToday) => ReadyFor(r)
    BY <1>1, <2>1, <2>2 DEF ReadyFor, PaymentPc
  <2> QED BY <2>3, <2>4, IdleIsReady
<1>5. CASE ReadOpenInvoices(w)
  <2> DEFINE pc == IF req[w].no = 0 THEN "number" ELSE "write"
             r  == [req[w] EXCEPT !.pc = pc, !.view = inv]
  <2>1. req[w] \in PaymentReq /\ req[w].pc = "read"
    BY <1>5, PcTells DEF ReadOpenInvoices, PaymentPc, BooksInv
  <2>2. pc \in {"number", "write"}
    OBVIOUS
  <2>3. req'[w] = r
    BY <1>2, <1>5 DEF ReadOpenInvoices
  <2> HIDE DEF pc
  <2>4. /\ r.pc = pc /\ r.key = req[w].key /\ r.method = req[w].method
        /\ r.amount = req[w].amount /\ r.view = inv
    BY <2>1 DEF PaymentReq
  <2> HIDE DEF r
  <2>5. ReadyFor(r)
    BY <1>1, <2>1, <2>2, <2>4 DEF ReadyFor, PaymentPc
  <2> QED BY <2>3, <2>5
<1>6. CASE TakeReceiptNumber(w)
  <2>1. req[w] \in PaymentReq /\ req[w].pc = "number"
    BY <1>6, PcTells DEF TakeReceiptNumber, PaymentPc, BooksInv
  <2>2. PICK n : req'[w] = [req[w] EXCEPT !.pc = "write", !.no = n]
    BY <1>2, <1>6 DEF TakeReceiptNumber
  <2> DEFINE r == req'[w]
  <2>3. /\ r.pc = "write" /\ r.key = req[w].key /\ r.method = req[w].method
        /\ r.amount = req[w].amount /\ r.view = req[w].view
    BY <2>1, <2>2 DEF PaymentReq
  <2> HIDE DEF r
  <2>4. ReadyFor(r)
    BY <1>1, <2>1, <2>3 DEF ReadyFor, PaymentPc
  <2> QED BY <2>4 DEF r
<1>7. CASE TakeChequeNumber(w)
  <2>1. req[w] \in PaymentReq /\ req[w].pc = "cheque"
    BY <1>7, PcTells DEF TakeChequeNumber, PaymentPc, BooksInv
  <2>2. PICK n : req'[w] = [req[w] EXCEPT !.pc = "read", !.no = n]
    BY <1>2, <1>7 DEF TakeChequeNumber
  <2> DEFINE r == req'[w]
  <2>3. /\ r.pc = "read" /\ r.key = req[w].key /\ r.method = req[w].method
        /\ r.amount = req[w].amount
    BY <2>1, <2>2 DEF PaymentReq
  <2> HIDE DEF r
  <2>4. ReadyFor(r)
    BY <1>1, <2>1, <2>3 DEF ReadyFor, PaymentPc
  <2> QED BY <2>4 DEF r
<1>8. ASSUME NEW p \in Payment, NEW a \in Amount, ReadRefund(w, p, a) PROVE Goal
  <2> DEFINE r == [pc |-> "refund", pay |-> p, amount |-> a,
                   row |-> pay[p], view |-> inv, given |-> alloc[p]]
  <2>1. req'[w] = r /\ Refundable(pay[p], a)
    BY <1>2, <1>8 DEF ReadRefund
  <2>2. ReadyFor(r)
    BY <2>1 DEF ReadyFor, PaymentPc
  <2> QED BY <2>1, <2>2
<1>9. ASSUME NEW p \in Payment, NEW f \in Penalty, CheckCheque(w, p, f) PROVE Goal
  <2> DEFINE r == [pc |-> "checked", pay |-> p, penalty |-> f]
  <2>1. req'[w] = r /\ pay[p].status = "SUCCESS" /\ pay[p].method = "CHEQUE"
    BY <1>2, <1>9 DEF CheckCheque
  <2>2. ReadyFor(r)
    BY <2>1 DEF ReadyFor, PaymentPc
  <2> QED BY <2>1, <2>2
<1>10. CASE ReadCheque(w)
  <2> DEFINE c == req[w]
             r == [pc |-> "bounce", pay |-> c.pay, penalty |-> c.penalty,
                   view |-> inv, rows |-> pay[c.pay].rows, given |-> alloc[c.pay]]
  <2>1. req'[w] = r /\ c.pc = "checked"
    BY <1>2, <1>10 DEF ReadCheque
  <2>2. pay[c.pay].status = "SUCCESS" /\ pay[c.pay].method = "CHEQUE"
    BY <1>1, <2>1 DEF ReadyFor
  <2>3. ReadyFor(r)
    BY <2>2 DEF ReadyFor, PaymentPc
  <2> QED BY <2>1, <2>3
<1>11. ASSUME NEW s \in Student, NEW a \in Amount, ReadBalance(w, s, a) PROVE Goal
  <2> DEFINE r == [pc |-> "credit", student |-> s, amount |-> a]
  <2>1. req'[w] = r /\ InCredit(s, a)
    BY <1>2, <1>11 DEF ReadBalance
  <2>2. ReadyFor(r)
    BY <2>1 DEF ReadyFor, PaymentPc
  <2> QED BY <2>1, <2>2
<1>12. CASE Abort(w)
  BY <1>2, <1>12, IdleIsReady DEF Abort
<1> HIDE DEF Goal
<1> QED BY <1>3, <1>4, <1>5, <1>6, <1>7, <1>8, <1>9, <1>10, <1>11, <1>12 DEF Reads

\* Each commit is the whole call.
LEMMA CommitsAreCalls ==
    ASSUME BooksInv, Serial, NEW w \in Worker,
           \/ \E p \in Payment : CommitPayment(w, p)
           \/ CommitRefund(w) \/ CommitBounce(w)
           \/ CommitManualRefund(w) \/ OneStepRequest(w)
    PROVE  Next /\ req'[w] = Idle
<1> DEFINE r == req[w]
<1>0. ReadyFor(r) /\ req \in [Worker -> Request]
  BY DEF Serial, BooksInv, RTypeOK
<1>1. ASSUME NEW p \in Payment, CommitPayment(w, p) PROVE Payments /\ req'[w] = Idle
  <2>1. r \in PaymentReq /\ r.pc = "write"
    BY <1>1, PcTells DEF CommitPayment, PaymentPc, BooksInv
  <2>2. /\ r.student \in Student /\ r.amount \in Amount /\ r.method \in Method
        /\ r.scope \in Scope /\ r.key \in Key \cup {NoKey}
    BY <2>1 DEF PaymentReq
  <2>3. /\ r.view = inv /\ ~KeySeen(r.key) /\ (r.method = "CHEQUE" => r.key = NoKey)
        /\ r.method = "CASH" => CashAllowed(r.amount, CashToday)
    BY <1>0, <2>1 DEF ReadyFor, PaymentPc
  <2>4. PostPayment(p, r.student, r.amount, r.method, r.key, r.scope)
    BY <1>1, <2>3 DEF CommitPayment, PostPayment
  <2>5. req'[w] = Idle
    BY <1>0, <1>1 DEF CommitPayment, Becomes
  <2> HIDE DEF r
  <2>6. r.key \in IF r.method = "CHEQUE" THEN {NoKey} ELSE Key \cup {NoKey}
    BY <2>2, <2>3
  <2>7. \E k \in IF r.method = "CHEQUE" THEN {NoKey} ELSE Key \cup {NoKey} :
           PostPayment(p, r.student, r.amount, r.method, k, r.scope)
    BY <2>4, <2>6
  <2> QED BY <2>2, <2>5, <2>7, Zenon DEF Payments, r
<1>2. ASSUME CommitRefund(w) PROVE Refunds /\ req'[w] = Idle
  <2>1. r \in RefundReq /\ r.pc = "refund"
    BY <1>2, PcTells DEF CommitRefund, BooksInv
  <2>2. r.pay \in Payment /\ r.amount \in Amount
    BY <2>1 DEF RefundReq
  <2>3. RefundGatewayPayment(r.pay, r.amount)
    BY <1>0, <1>2, <2>1 DEF ReadyFor, CommitRefund, RefundGatewayPayment
  <2>4. req'[w] = Idle
    BY <1>0, <1>2 DEF CommitRefund, Becomes
  <2> QED BY <2>2, <2>3, <2>4 DEF Refunds
<1>3. ASSUME CommitBounce(w) PROVE Bounces /\ req'[w] = Idle
  <2>1. r \in BounceReq /\ r.pc = "bounce"
    BY <1>3, PcTells DEF CommitBounce, BooksInv
  <2>2. r.pay \in Payment /\ r.penalty \in Penalty
    BY <2>1 DEF BounceReq
  <2>3. BounceCheque(r.pay, r.penalty)
    BY <1>0, <1>3, <2>1 DEF ReadyFor, CommitBounce, BounceCheque
  <2>4. req'[w] = Idle
    BY <1>0, <1>3 DEF CommitBounce, Becomes
  <2> QED BY <2>2, <2>3, <2>4 DEF Bounces
<1>4. ASSUME CommitManualRefund(w) PROVE Manual /\ req'[w] = Idle
  <2>1. r \in CreditReq /\ r.pc = "credit"
    BY <1>4, PcTells DEF CommitManualRefund, BooksInv
  <2>2. r.student \in Student /\ r.amount \in Amount
    BY <2>1 DEF CreditReq
  <2>3. ManualRefund(r.student, r.amount)
    BY <1>0, <1>4, <2>1 DEF ReadyFor, CommitManualRefund, ManualRefund
  <2>4. req'[w] = Idle
    BY <1>0, <1>4 DEF CommitManualRefund, Becomes
  <2> QED BY <2>2, <2>3, <2>4 DEF Manual
<1>5. ASSUME OneStepRequest(w) PROVE (Demands \/ Manual) /\ req'[w] = Idle
  BY <1>5 DEF OneStepRequest, IsIdle, Manual
<1> QED BY <1>1, <1>2, <1>3, <1>4, <1>5 DEF Next

\* With one handler the service is the fee engine: every commit is one of the
\* engine's calls on the books as they are, and no other step touches the books.
THEOREM ImplementsLedgerHolds == OneWorker => (RSpec => ImplementsLedger)
<1> SUFFICES ASSUME OneWorker PROVE RSpec => Spec
  BY DEF ImplementsLedger
<1>1. RInit => Init /\ BooksInv /\ Serial
  BY BooksInit, IdleIsReady DEF RInit, Serial
<1>2. BooksInv /\ Serial /\ [RNext]_rvars => (BooksInv /\ Serial)' /\ [Next]_vars
  <2> SUFFICES ASSUME BooksInv, Serial, [RNext]_rvars PROVE BooksInv' /\ Serial' /\ [Next]_vars
    OBVIOUS
  <2>1. BooksInv'
    BY BooksStep
  <2>2. CASE UNCHANGED rvars
    <3>1. UNCHANGED books /\ UNCHANGED vars /\ req' = req
      BY <2>2 DEF rvars, books, vars
    <3>2. \A w \in Worker : ReadyFor(req'[w])
      BY <3>1 DEF Serial
    <3>3. Serial'
      <4>1. CASE Worker = {}
        BY <4>1 DEF Serial
      <4>2. CASE Worker # {}
        BY <3>1, <3>2, <4>2, SerialKept
      <4> QED BY <4>1, <4>2
    <3> QED BY <2>1, <3>1, <3>3
  <2>3. CASE RNext
    <3>1. PICK w \in Worker :
             \/ Reads(w) \/ TakeChequeNumber(w)
             \/ \E p \in Payment : CommitPayment(w, p)
             \/ CommitRefund(w) \/ CommitBounce(w)
             \/ CommitManualRefund(w) \/ OneStepRequest(w)
      BY <2>3, StepsByKind
    <3>2. CASE Reads(w) \/ TakeChequeNumber(w)
      <4>1. UNCHANGED vars
        BY <3>2, ReadsOnly DEF TakeChequeNumber, books, vars
      <4> QED BY <2>1, <3>2, <4>1, SerialReads
    <3>3. CASE ~(Reads(w) \/ TakeChequeNumber(w))
      <4>1. Next /\ req'[w] = Idle
        BY <3>1, <3>3, CommitsAreCalls
      <4> QED BY <2>1, <4>1, SerialIdle
    <3> QED BY <3>2, <3>3
  <2> QED BY <2>2, <2>3
<1> QED BY <1>1, <1>2, PTL DEF RSpec, Spec

-----------------------------------------------------------------------------
(* FeeDesk: the invoices of a class and the cheques at the desk *)

Concession ==
    {NoConcession} \cup
    [status : {"PENDING", "APPROVED"}, head : Head \cup {"all"}, off : Off]
ChequeRow ==
    [status : {"none", "RECEIVED", "DEPOSITED", "CREDITED", "BOUNCED"},
     payment : {"none", "SUCCESS", "DISPUTED"}, slip : Slip \cup {"none"}, penalties : Nat]
SlipRow == [status : {"none", "PREPARED", "CREDITED"}, counted : SUBSET Cheque]

Listing ==
    {r \in [pc : {"concessions"}, job : {"generate"}, todo : SUBSET Pupil,
            pupils : SUBSET Pupil, period : Period, skipped : {{}}, failed : {{}}] :
        r.todo = r.pupils}
Generating ==
    [pc : {"bill"}, job : {"generate"}, todo : SUBSET Pupil, pupils : SUBSET Pupil,
     period : Period, granted : [Pupil -> Concession], skipped : SUBSET Pupil,
     failed : SUBSET Pupil]
Carrying == [pc : {"bill"}, job : {"carry"}, todo : SUBSET Pupil]
AtCheque ==
    [pc : {"write"}, job : {"deposit", "credit", "bounce"}, cheques : SUBSET Cheque]
AtSlip ==
    [pc : {"write"}, job : {"slip", "confirm"}, slip : Slip, cheques : SUBSET Cheque]
DeskWork == {NoDesk} \cup Listing \cup Generating \cup Carrying \cup AtCheque \cup AtSlip

DeskTypes ==
    /\ enrolled \subseteq Pupil
    /\ concession \in [Pupil -> Concession]
    /\ invoice \in [Pupil -> [Period -> Nat]]
    /\ demanded \in [Pupil -> [Period -> Nat]]
    /\ cheque \in [Cheque -> ChequeRow]
    /\ slip \in [Slip -> SlipRow]
    /\ desk \in [Clerk -> DeskWork]

\* What a request found a cheque to be, and nobody else has changed since.
Ready(job, c) ==
    /\ job \in {"deposit", "slip"} => cheque[c].status = "RECEIVED"
    /\ job \in {"credit", "confirm"} => cheque[c].status = "DEPOSITED"
    /\ job = "bounce" => cheque[c].status # "none" /\ cheque[c].payment = "SUCCESS"

InOneHand(c) ==
    \A v, w \in Clerk : c \in Touches(desk[v]) /\ c \in Touches(desk[w]) => v = w

ChequeKept(c) ==
    /\ InOneHand(c)
    /\ \A w \in Clerk : c \in Touches(desk[w]) => Ready(desk[w].job, c)
    /\ cheque[c].status = "BOUNCED" <=> cheque[c].payment = "DISPUTED"
    /\ cheque[c].penalties = IF cheque[c].status = "BOUNCED" THEN 1 ELSE 0
    /\ \A d \in Slip : c \in slip[d].counted =>
          cheque[c].status \in {"DEPOSITED", "CREDITED", "BOUNCED"}
    /\ \A d, e \in Slip : c \in slip[d].counted /\ c \in slip[e].counted => d = e

DeskInv == DeskTypes /\ BilledOnce /\ \A c \in Cheque \ crossed : ChequeKept(c)

\* What also holds of the cheques that requests crossed at.
Penalised(c) ==
    /\ cheque[c].payment = "DISPUTED" <=> cheque[c].penalties > 0
    /\ cheque[c].status = "BOUNCED" => cheque[c].payment = "DISPUTED"

\* No step of a request undoes it.
PenaltiesKept == \A e \in Cheque : Penalised(e) => Penalised(e)'

LEMMA TotalIsNat ==
    ASSUME DeskAssumption, NEW c \in Concession
    PROVE  TotalFor(c) \in Nat
  <1>1. ASSUME NEW head \in Head PROVE LineTotal(c, head) \in Nat
    <2>1. Price[head] \in Nat
      BY DEF DeskAssumption
    <2>2. CASE c.status = "APPROVED" /\ c.head \in {"all", head}
      <3>1. c.off \in Nat
        <4>1. c # NoConcession
        BY <2>2 DEF NoConcession
      <4> QED BY <4>1 DEF Concession, DeskAssumption
      <3>2. PICK least \in {c.off, Price[head]} :
              \A y \in {c.off, Price[head]} : least <= y
        BY <2>1, <3>1
      <3>3. Min({c.off, Price[head]}) \in {c.off, Price[head]}
            /\ Min({c.off, Price[head]}) <= Price[head]
        BY <3>2 DEF Min
      <3> QED BY <2>1, <2>2, <3>1, <3>3 DEF LineTotal
    <2> QED BY <2>1, <2>2 DEF LineTotal
  <1> DEFINE line == [head \in Head |-> LineTotal(c, head)]
  <1>2. DOMAIN line = Head /\ \A head \in Head : line[head] \in Nat
    BY <1>1
  <1> HIDE DEF line
  <1>3. SumFunctionOnSet(line, Head) \in Nat
    BY <1>2, SumNat DEF DeskAssumption
  <1>4. TotalFor(c) = SumFunctionOnSet(line, Head)
    BY <1>2 DEF TotalFor, SumFunction, line
  <1> QED BY <1>3, <1>4

LEMMA RequestKinds ==
    ASSUME NEW r \in DeskWork
    PROVE  /\ r.pc = "idle" => r = NoDesk
           /\ r.pc = "concessions" => r \in Listing
           /\ r.pc = "bill" /\ r.job = "generate" => r \in Generating
           /\ r.pc = "bill" /\ r.job = "carry" => r \in Carrying
           /\ r.pc = "bill" => r.job \in {"generate", "carry"}
           /\ r.pc = "write" /\ r.job \in {"deposit", "credit", "bounce"} => r \in AtCheque
           /\ r.pc = "write" /\ r.job \in {"slip", "confirm"} => r \in AtSlip
           /\ Touches(r) \subseteq Cheque
  <1>1. CASE r = NoDesk
    BY <1>1 DEF NoDesk, Touches
  <1>2. CASE r \in Listing
    BY <1>2 DEF Listing, Touches
  <1>3. CASE r \in Generating
    BY <1>3 DEF Generating, Touches
  <1>4. CASE r \in Carrying
    BY <1>4 DEF Carrying, Touches
  <1>5. CASE r \in AtCheque
    BY <1>5 DEF AtCheque, Touches
  <1>6. CASE r \in AtSlip
    BY <1>6 DEF AtSlip, Touches
  <1> QED BY <1>1, <1>2, <1>3, <1>4, <1>5, <1>6 DEF DeskWork

\* What one request's step does to the requests under way.
LEMMA DeskStep ==
    ASSUME desk \in [Clerk -> DeskWork], NEW w \in Clerk, NEW d \in DeskWork,
           DeskBecomes(w, d)
    PROVE  /\ desk' \in [Clerk -> DeskWork] /\ desk'[w] = d
           /\ \A v \in Clerk \ {w} : desk'[v] = desk[v]
  BY DEF DeskBecomes

\* A cheque nobody new has read, and that is not written, is as it was.
LEMMA ChequeStays ==
    ASSUME NEW c \in Cheque, ChequeKept(c), cheque'[c] = cheque[c],
           \A d \in Slip : c \in slip'[d].counted => c \in slip[d].counted,
           \A v \in Clerk : c \in Touches(desk'[v]) =>
              c \in Touches(desk[v]) /\ desk'[v].job = desk[v].job
    PROVE  ChequeKept(c)'
  <1>1. InOneHand(c)'
    <2>1. InOneHand(c)
      BY DEF ChequeKept
    <2>2. \A v \in Clerk : c \in Touches(desk'[v]) => c \in Touches(desk[v])
      OBVIOUS
    <2>3. \A v, w \in Clerk : c \in Touches(desk'[v]) /\ c \in Touches(desk'[w]) => v = w
      BY <2>1, <2>2 DEF InOneHand
    <2> QED BY <2>3 DEF InOneHand, Touches
  <1>2. (\A w \in Clerk : c \in Touches(desk[w]) => Ready(desk[w].job, c))'
    <2>1. ASSUME NEW w \in Clerk, c \in Touches(desk'[w])
          PROVE  Ready(desk[w].job, c)'
      <3>1. Ready(desk[w].job, c) /\ desk'[w].job = desk[w].job
        BY <2>1 DEF ChequeKept
      <3> QED BY <3>1 DEF Ready
    <2> QED BY <2>1 DEF Touches
  <1> QED BY <1>1, <1>2 DEF ChequeKept

\* A request that reads cheques takes them in hand, unless they cross.
LEMMA ChequeRead ==
    ASSUME NEW c \in Cheque, NEW w \in Clerk, NEW cs \in SUBSET Cheque,
           desk[w].pc = "idle", Touches(desk'[w]) = cs,
           \A v \in Clerk \ {w} : desk'[v] = desk[v],
           crossed' = Crossing(w, cs), c \notin crossed', ChequeKept(c),
           c \in cs => Ready(desk'[w].job, c),
           cheque' = cheque, slip' = slip
    PROVE  ChequeKept(c)'
  <1>1. CASE c \notin cs
    <2>1. \A v \in Clerk : c \in Touches(desk'[v]) =>
             c \in Touches(desk[v]) /\ desk'[v].job = desk[v].job
      BY <1>1
    <2> QED BY <2>1, ChequeStays
  <1>2. CASE c \in cs
    <2>1. \A v \in Clerk \ {w} : c \notin Touches(desk'[v])
      BY <1>2 DEF Crossing
    <2>2. InOneHand(c)'
      BY <2>1 DEF InOneHand, Touches
    <2>3. (\A v \in Clerk : c \in Touches(desk[v]) => Ready(desk[v].job, c))'
      <3>1. ASSUME NEW v \in Clerk, c \in Touches(desk'[v])
            PROVE  Ready(desk[v].job, c)'
        BY <1>2, <2>1, <3>1 DEF Ready
      <3> QED BY <3>1 DEF Touches
    <2> QED BY <2>2, <2>3 DEF ChequeKept
  <1> QED BY <1>1, <1>2

\* A cheque its only holder writes is in nobody's hand after it.
LEMMA ChequeWritten ==
    ASSUME NEW c \in Cheque, NEW w \in Clerk, c \in Touches(desk[w]), ChequeKept(c),
           Touches(desk'[w]) = {}, \A v \in Clerk \ {w} : desk'[v] = desk[v]
    PROVE  /\ InOneHand(c)'
           /\ (\A v \in Clerk : c \in Touches(desk[v]) => Ready(desk[v].job, c))'
  <1>1. ASSUME NEW v \in Clerk PROVE c \notin Touches(desk'[v])
    <2>1. InOneHand(c)
      BY DEF ChequeKept
    <2>2. CASE v = w
      BY <2>2
    <2>3. CASE v # w
      BY <2>1, <2>3 DEF InOneHand
    <2> QED BY <2>2, <2>3
  <1>2. InOneHand(c)'
    BY <1>1 DEF InOneHand, Touches
  <1>3. (\A v \in Clerk : c \in Touches(desk[v]) => Ready(desk[v].job, c))'
    BY <1>1 DEF Touches
  <1> QED BY <1>2, <1>3

\* Requests of the class billing hold no cheque.
LEMMA BanksNothing ==
    ASSUME NEW w \in Clerk, \A v \in Clerk \ {w} : desk'[v] = desk[v],
           Touches(desk'[w]) = {}, UNCHANGED banking,
           \A c \in Cheque \ crossed : ChequeKept(c)
    PROVE  (\A c \in Cheque \ crossed : ChequeKept(c))'
  <1>1. ASSUME NEW c \in Cheque \ crossed PROVE ChequeKept(c)'
    <2>1. cheque' = cheque /\ slip' = slip
      BY DEF banking
    <2>2. \A v \in Clerk : c \in Touches(desk'[v]) =>
             c \in Touches(desk[v]) /\ desk'[v].job = desk[v].job
      OBVIOUS
    <2> QED BY <2>1, <2>2, ChequeStays
  <1> QED BY <1>1 DEF banking

\* The parts of BilledOnce, about one pupil of a request, a request, and the bills, as
\* they are for given invoices.
Taken(bills, p, t) == \E q \in Pupil : Tail[q] = Tail[p] /\ bills[q][t] # NotBilled
Accounted(bills, r, p) ==
    /\ p \notin r.skipped => bills[p][r.period] # NotBilled
    /\ p \in r.skipped \ r.failed => TotalFor(r.granted[p]) = 0 \/ Taken(bills, p, r.period)
PastIsBilled(bills, r) ==
    r.pc = "bill" /\ r.job = "generate" => \A p \in r.pupils \ r.todo : Accounted(bills, r, p)
OneOfATail(bills) ==
    \A p, q \in Pupil, t \in Period :
        p # q /\ Tail[p] = Tail[q] /\ bills[p][t] # NotBilled => bills[q][t] = NotBilled
DemandsAgree(bills, dem) ==
    \A p \in Pupil, t \in Period : dem[p][t] = IF bills[p][t] = NotBilled THEN 0 ELSE 1

LEMMA BilledParts ==
    BilledOnce <=> /\ DemandsAgree(invoice, demanded)
                   /\ OneOfATail(invoice)
                   /\ \A w \in Clerk : PastIsBilled(invoice, desk[w])
  BY DEF BilledOnce, PastIsBilled, Accounted, Taken, OneOfATail, DemandsAgree, NumberFree, At

LEMMA BilledPartsNext ==
    ASSUME DemandsAgree(invoice', demanded'), OneOfATail(invoice'),
           \A w \in Clerk : PastIsBilled(invoice', desk'[w])
    PROVE  BilledOnce'
  <1>1. (\A p \in Pupil, t \in Period :
            demanded[p][t] = IF invoice[p][t] = NotBilled THEN 0 ELSE 1)'
    BY DEF DemandsAgree
  <1>2. (\A p, q \in Pupil, t \in Period :
            p # q /\ Tail[p] = Tail[q] /\ invoice[p][t] # NotBilled
            => invoice[q][t] = NotBilled)'
    BY DEF OneOfATail
  <1>3. ASSUME NEW w \in Clerk, desk'[w].pc = "bill", desk'[w].job = "generate",
               NEW p \in desk'[w].pupils \ desk'[w].todo
        PROVE  /\ p \notin desk'[w].skipped => invoice'[p][desk'[w].period] # NotBilled
               /\ p \in desk'[w].skipped \ desk'[w].failed =>
                     (TotalFor(desk[w].granted[p]) = 0 \/ ~NumberFree(p, desk[w].period))'
    <2>1. Accounted(invoice', desk'[w], p)
      BY <1>3 DEF PastIsBilled
    <2>2. (TotalFor(desk[w].granted[p]))' = TotalFor(desk'[w].granted[p])
      BY DEF TotalFor, LineTotal
    <2>3. Taken(invoice', p, desk'[w].period) => (~NumberFree(p, desk[w].period))'
      BY DEF Taken, NumberFree
    <2> QED BY <2>1, <2>2, <2>3 DEF Accounted
  <1> QED BY <1>1, <1>2, <1>3 DEF BilledOnce, At, NumberFree, TotalFor, LineTotal

LEMMA BillsNothing ==
    ASSUME NEW w \in Clerk, \A v \in Clerk \ {w} : desk'[v] = desk[v],
           desk'[w].pc # "bill" \/ desk'[w].job # "generate" \/ desk'[w].pupils = desk'[w].todo,
           invoice' = invoice, demanded' = demanded, BilledOnce
    PROVE  BilledOnce'
  <1>1. ASSUME NEW v \in Clerk PROVE PastIsBilled(invoice', desk'[v])
    <2>1. PastIsBilled(invoice, desk[v])
      BY BilledParts
    <2>2. CASE v = w
      BY <2>2 DEF PastIsBilled
    <2>3. CASE v # w
      BY <2>1, <2>3
    <2> QED BY <2>2, <2>3
  <1> QED BY <1>1, BilledParts, BilledPartsNext

LEMMA NobodyAtTheDesk ==
    NoDesk \in DeskWork /\ NoDesk.pc = "idle" /\ Touches(NoDesk) = {}
  BY DEF NoDesk, DeskWork, Touches

LEMMA StartGenerationKeeps ==
    ASSUME DeskInv, NEW w \in Clerk, NEW t \in Period, StartGeneration(w, t)
    PROVE  DeskInv'
  <1>1. PICK r \in Listing : r.pc = "concessions" /\ DeskBecomes(w, r)
    <2> DEFINE r == [pc |-> "concessions", job |-> "generate", todo |-> enrolled,
                     pupils |-> enrolled, period |-> t, skipped |-> {}, failed |-> {}]
    <2>1. r \in Listing
      BY DEF Listing, DeskInv, DeskTypes
    <2>2. DeskBecomes(w, r)
      BY DEF StartGeneration, Begins
    <2> QED BY <2>1, <2>2
  <1>2. UNCHANGED <<billing, banking>>
    BY DEF StartGeneration
  <1>3. /\ desk' \in [Clerk -> DeskWork] /\ desk'[w] = r
        /\ \A v \in Clerk \ {w} : desk'[v] = desk[v]
    BY <1>1, DeskStep DEF DeskInv, DeskTypes, DeskWork
  <1>4. DeskTypes'
    BY <1>2, <1>3 DEF DeskInv, DeskTypes, billing, banking
  <1>5. BilledOnce'
    BY <1>1, <1>2, <1>3, BillsNothing DEF DeskInv, billing
  <1>6. Touches(r) = {}
    BY <1>1 DEF Touches
  <1>7. (\A c \in Cheque \ crossed : ChequeKept(c))'
    BY <1>2, <1>3, <1>6, BanksNothing DEF DeskInv
  <1> QED BY <1>4, <1>5, <1>7 DEF DeskInv

LEMMA ReadConcessionsKeeps ==
    ASSUME DeskInv, NEW w \in Clerk, ReadConcessions(w)
    PROVE  DeskInv'
  <1>0. desk[w] \in Listing
    BY RequestKinds DEF ReadConcessions, At, DeskInv, DeskTypes
  <1>1. PICK r \in Generating :
          r.pc = "bill" /\ r.pupils = desk[w].pupils /\ r.todo = desk[w].todo
          /\ DeskBecomes(w, r)
    <2> DEFINE r == [pc |-> "bill", job |-> "generate", todo |-> desk[w].todo,
                     pupils |-> desk[w].pupils, period |-> desk[w].period,
                     granted |-> concession, skipped |-> {}, failed |-> {}]
    <2>1. r \in Generating
      BY <1>0 DEF Generating, Listing, DeskInv, DeskTypes
    <2>2. DeskBecomes(w, r)
      BY DEF ReadConcessions
    <2> QED BY <2>1, <2>2
  <1>2. UNCHANGED <<billing, banking>>
    BY DEF ReadConcessions
  <1>3. /\ desk' \in [Clerk -> DeskWork] /\ desk'[w] = r
        /\ \A v \in Clerk \ {w} : desk'[v] = desk[v]
    BY <1>1, DeskStep DEF DeskInv, DeskTypes, DeskWork
  <1>4. DeskTypes'
    BY <1>2, <1>3 DEF DeskInv, DeskTypes, billing, banking
  <1>5. BilledOnce'
    <2>1. desk[w].pupils = desk[w].todo
      BY <1>0 DEF Listing
    <2> QED BY <1>1, <1>2, <1>3, <2>1, BillsNothing DEF DeskInv, billing
  <1>6. Touches(r) = {}
    BY <1>1 DEF Touches
  <1>7. (\A c \in Cheque \ crossed : ChequeKept(c))'
    BY <1>2, <1>3, <1>6, BanksNothing DEF DeskInv
  <1> QED BY <1>4, <1>5, <1>7 DEF DeskInv

LEMMA StartCarryingKeeps ==
    ASSUME DeskInv, NEW w \in Clerk, StartCarrying(w)
    PROVE  DeskInv'
  <1>1. PICK r \in Carrying : r.pc = "bill" /\ r.job = "carry" /\ DeskBecomes(w, r)
    <2> DEFINE r == [pc |-> "bill", job |-> "carry", todo |-> Pupil]
    <2>1. r \in Carrying
      BY DEF Carrying
    <2>2. DeskBecomes(w, r)
      BY DEF StartCarrying, Begins
    <2> QED BY <2>1, <2>2
  <1>2. UNCHANGED <<enrolled, concession, invoice, demanded, banking>>
    BY DEF StartCarrying, billing
  <1>3. /\ desk' \in [Clerk -> DeskWork] /\ desk'[w] = r
        /\ \A v \in Clerk \ {w} : desk'[v] = desk[v]
    BY <1>1, DeskStep, NobodyAtTheDesk DEF DeskInv, DeskTypes, DeskWork
  <1>4. DeskTypes'
    BY <1>2, <1>3 DEF DeskInv, DeskTypes, banking
  <1>5. BilledOnce'
    BY <1>1, <1>2, <1>3, NobodyAtTheDesk, BillsNothing DEF DeskInv
  <1>6. Touches(r) = {}
    BY <1>1, NobodyAtTheDesk DEF Touches
  <1>7. (\A c \in Cheque \ crossed : ChequeKept(c))'
    BY <1>2, <1>3, <1>6, BanksNothing DEF DeskInv
  <1> QED BY <1>4, <1>5, <1>7 DEF DeskInv

LEMMA CarryDuesKeeps ==
    ASSUME DeskInv, NEW w \in Clerk, NEW p \in Pupil, CarryDues(w, p)
    PROVE  DeskInv'
  <1>0. desk[w] \in Carrying
    BY RequestKinds DEF CarryDues, At, DeskInv, DeskTypes
  <1>1. PICK r \in Carrying : r.pc = "bill" /\ r.job = "carry" /\ DeskBecomes(w, r)
    <2> DEFINE r == [desk[w] EXCEPT !.todo = @ \ {p}]
    <2>1. r \in Carrying /\ r.pc = "bill" /\ r.job = "carry"
      BY <1>0 DEF Carrying
    <2>2. DeskBecomes(w, r)
      BY DEF CarryDues
    <2> QED BY <2>1, <2>2
  <1>2. UNCHANGED <<enrolled, concession, invoice, demanded, banking>>
    BY DEF CarryDues
  <1>3. /\ desk' \in [Clerk -> DeskWork] /\ desk'[w] = r
        /\ \A v \in Clerk \ {w} : desk'[v] = desk[v]
    BY <1>1, DeskStep, NobodyAtTheDesk DEF DeskInv, DeskTypes, DeskWork
  <1>4. DeskTypes'
    BY <1>2, <1>3 DEF DeskInv, DeskTypes, banking
  <1>5. BilledOnce'
    BY <1>1, <1>2, <1>3, NobodyAtTheDesk, BillsNothing DEF DeskInv
  <1>6. Touches(r) = {}
    BY <1>1, NobodyAtTheDesk DEF Touches
  <1>7. (\A c \in Cheque \ crossed : ChequeKept(c))'
    BY <1>2, <1>3, <1>6, BanksNothing DEF DeskInv
  <1> QED BY <1>4, <1>5, <1>7 DEF DeskInv

LEMMA DropRequestKeeps ==
    ASSUME DeskInv, NEW w \in Clerk, DropRequest(w)
    PROVE  DeskInv'
  <1>1. DeskBecomes(w, NoDesk)
    BY DEF DropRequest, Done
  <1>2. UNCHANGED <<enrolled, concession, invoice, demanded, banking>>
    BY DEF DropRequest, billing
  <1>3. /\ desk' \in [Clerk -> DeskWork] /\ desk'[w] = NoDesk
        /\ \A v \in Clerk \ {w} : desk'[v] = desk[v]
    BY <1>1, DeskStep, NobodyAtTheDesk DEF DeskInv, DeskTypes, DeskWork
  <1>4. DeskTypes'
    BY <1>2, <1>3 DEF DeskInv, DeskTypes, banking
  <1>5. BilledOnce'
    BY <1>1, <1>2, <1>3, NobodyAtTheDesk, BillsNothing DEF DeskInv
  <1>6. Touches(NoDesk) = {}
    BY <1>1, NobodyAtTheDesk DEF Touches
  <1>7. (\A c \in Cheque \ crossed : ChequeKept(c))'
    BY <1>2, <1>3, <1>6, BanksNothing DEF DeskInv
  <1> QED BY <1>4, <1>5, <1>7 DEF DeskInv

LEMMA FinishJobKeeps ==
    ASSUME DeskInv, NEW w \in Clerk, FinishJob(w)
    PROVE  DeskInv'
  <1>1. DeskBecomes(w, NoDesk)
    BY DEF FinishJob, Done
  <1>2. UNCHANGED <<enrolled, concession, invoice, demanded, banking>>
    BY DEF FinishJob, billing
  <1>3. /\ desk' \in [Clerk -> DeskWork] /\ desk'[w] = NoDesk
        /\ \A v \in Clerk \ {w} : desk'[v] = desk[v]
    BY <1>1, DeskStep, NobodyAtTheDesk DEF DeskInv, DeskTypes, DeskWork
  <1>4. DeskTypes'
    BY <1>2, <1>3 DEF DeskInv, DeskTypes, banking
  <1>5. BilledOnce'
    BY <1>1, <1>2, <1>3, NobodyAtTheDesk, BillsNothing DEF DeskInv
  <1>6. Touches(NoDesk) = {}
    BY <1>1, NobodyAtTheDesk DEF Touches
  <1>7. (\A c \in Cheque \ crossed : ChequeKept(c))'
    BY <1>2, <1>3, <1>6, BanksNothing DEF DeskInv
  <1> QED BY <1>4, <1>5, <1>7 DEF DeskInv

LEMMA RestsAtTheDesk ==
    ASSUME BilledOnce, \A c \in Cheque \ crossed : ChequeKept(c),
           UNCHANGED <<invoice, demanded, banking, desk>>
    PROVE  BilledOnce' /\ (\A c \in Cheque \ crossed : ChequeKept(c))'
  <1>1. BilledOnce'
    BY DEF BilledOnce, NumberFree, At, TotalFor, LineTotal
  <1>2. (\A c \in Cheque \ crossed : ChequeKept(c))'
    BY DEF banking, ChequeKept, InOneHand, Ready, Touches
  <1> QED BY <1>1, <1>2

LEMMA AskConcessionKeeps ==
    ASSUME DeskInv, NEW p \in Pupil, NEW head \in Head \cup {"all"}, NEW off \in Off,
           AskConcession(p, head, off)
    PROVE  DeskInv'
  <1>1. UNCHANGED <<invoice, demanded, banking, desk>>
    BY DEF AskConcession
  <1>2. enrolled' = enrolled /\ concession' \in [Pupil -> Concession]
    <2>1. [status |-> "PENDING", head |-> head, off |-> off] \in Concession
      BY DEF Concession
    <2> QED BY <2>1 DEF AskConcession, DeskInv, DeskTypes
  <1>3. DeskTypes'
    BY <1>1, <1>2 DEF DeskInv, DeskTypes, banking
  <1> QED BY <1>1, <1>3, RestsAtTheDesk DEF DeskInv

LEMMA ApproveConcessionKeeps ==
    ASSUME DeskInv, NEW p \in Pupil, ApproveConcession(p)
    PROVE  DeskInv'
  <1>1. UNCHANGED <<invoice, demanded, banking, desk>>
    BY DEF ApproveConcession
  <1>2. enrolled' = enrolled /\ concession' \in [Pupil -> Concession]
    <2>1. concession[p] \in Concession /\ concession[p].status = "PENDING"
      BY DEF ApproveConcession, DeskInv, DeskTypes
    <2>2. concession[p] # NoConcession
      BY <2>1 DEF NoConcession
    <2>3. [concession[p] EXCEPT !.status = "APPROVED"] \in Concession
      BY <2>1, <2>2 DEF Concession
    <2>4. concession' = [concession EXCEPT ![p] = [concession[p] EXCEPT !.status = "APPROVED"]]
      BY DEF ApproveConcession
    <2> QED BY <2>3, <2>4 DEF ApproveConcession, DeskInv, DeskTypes
  <1>3. DeskTypes'
    BY <1>1, <1>2 DEF DeskInv, DeskTypes, banking
  <1> QED BY <1>1, <1>3, RestsAtTheDesk DEF DeskInv

LEMMA EnrolPupilKeeps ==
    ASSUME DeskInv, NEW p \in Pupil, EnrolPupil(p)
    PROVE  DeskInv'
  <1>1. UNCHANGED <<invoice, demanded, banking, desk>>
    BY DEF EnrolPupil
  <1>2. enrolled' \subseteq Pupil /\ concession' = concession
    BY DEF EnrolPupil, DeskInv, DeskTypes
  <1>3. DeskTypes'
    BY <1>1, <1>2 DEF DeskInv, DeskTypes, banking
  <1> QED BY <1>1, <1>3, RestsAtTheDesk DEF DeskInv

LEMMA EnsureVirtualAccountKeeps ==
    ASSUME DeskInv, NEW p \in Pupil, EnsureVirtualAccount(p)
    PROVE  DeskInv'
  <1>1. UNCHANGED <<invoice, demanded, banking, desk>>
    BY DEF EnsureVirtualAccount
  <1>2. enrolled' = enrolled /\ concession' = concession
    BY DEF EnsureVirtualAccount
  <1>3. DeskTypes'
    BY <1>1, <1>2 DEF DeskInv, DeskTypes, banking
  <1> QED BY <1>1, <1>3, RestsAtTheDesk DEF DeskInv

LEMMA BillPupilKeeps ==
    ASSUME DeskAssumption, DeskInv, NEW w \in Clerk, NEW p \in Pupil, BillPupil(w, p)
    PROVE  DeskInv'
  <1>0. desk[w] \in Generating /\ p \in desk[w].todo
    BY RequestKinds DEF BillPupil, At, DeskInv, DeskTypes
  <1> DEFINE t == desk[w].period
             total == TotalFor(desk[w].granted[p])
             Bills == /\ total > 0 /\ NumberFree(p, t)
                      /\ invoice' = [invoice EXCEPT ![p][t] = total]
                      /\ demanded' = [demanded EXCEPT ![p][t] = @ + 1]
  <1>0a. PICK sk \in SUBSET {p}, fl \in SUBSET {p} :
           /\ DeskBecomes(w, [desk[w] EXCEPT !.todo = @ \ {p}, !.skipped = @ \cup sk,
                                             !.failed = @ \cup fl])
           /\ \/ Bills /\ sk = {}
              \/ /\ UNCHANGED <<invoice, demanded>> /\ sk = {p}
                 /\ fl = {p} \/ total = 0 \/ ~NumberFree(p, t)
    <2>1. {} \in SUBSET {p} /\ {p} \in SUBSET {p}
      OBVIOUS
    <2> QED BY <2>1, Zenon DEF BillPupil
  <1>1. PICK r \in Generating :
          /\ r.pc = "bill" /\ r.job = "generate" /\ r.pupils = desk[w].pupils
          /\ r.todo = desk[w].todo \ {p} /\ r.period = desk[w].period
          /\ r.skipped = desk[w].skipped \cup sk /\ r.failed = desk[w].failed \cup fl
          /\ r.granted = desk[w].granted /\ DeskBecomes(w, r)
    <2>1. PICK q \in Generating : q = desk[w]
      BY <1>0
    <2> DEFINE r == [q EXCEPT !.todo = @ \ {p}, !.skipped = @ \cup sk, !.failed = @ \cup fl]
    <2>2. r \in Generating
      BY DEF Generating
    <2>3. r.pc = "bill" /\ r.job = "generate"
      BY DEF Generating
    <2>4. r.pupils = q.pupils /\ r.period = q.period /\ r.granted = q.granted
      BY DEF Generating
    <2>5. r.todo = q.todo \ {p}
      BY DEF Generating
    <2>7. r.skipped = q.skipped \cup sk /\ r.failed = q.failed \cup fl
      BY DEF Generating
    <2>6. DeskBecomes(w, r)
      BY <1>0a, <2>1
    <2> HIDE DEF r
    <2> QED BY <2>1, <2>2, <2>3, <2>4, <2>5, <2>6, <2>7
  <1>2. UNCHANGED <<enrolled, concession, banking>>
    BY DEF BillPupil
  <1>8. t \in Period /\ total \in Nat
    <2>1. desk[w].granted[p] \in Concession /\ desk[w].period \in Period
      BY <1>0 DEF Generating
    <2> QED BY <2>1, TotalIsNat
  <1>9. \/ Bills /\ sk = {}
        \/ /\ UNCHANGED <<invoice, demanded>> /\ sk = {p}
           /\ fl = {p} \/ total = 0 \/ ~NumberFree(p, t)
    BY <1>0a
  <1> HIDE DEF t, total
  <1>10. invoice \in [Pupil -> [Period -> Nat]] /\ demanded \in [Pupil -> [Period -> Nat]]
    BY DEF DeskInv, DeskTypes
  <1>11. /\ invoice' \in [Pupil -> [Period -> Nat]] /\ demanded' \in [Pupil -> [Period -> Nat]]
         /\ \A q \in Pupil, u \in Period : q # p \/ u # t =>
               invoice'[q][u] = invoice[q][u] /\ demanded'[q][u] = demanded[q][u]
         /\ \/ /\ invoice'[p][t] = invoice[p][t] /\ demanded'[p][t] = demanded[p][t]
               /\ sk = {p}
               /\ fl = {p} \/ total = 0 \/ ~NumberFree(p, t)
            \/ /\ total > 0 /\ invoice[p][t] = NotBilled /\ sk = {} /\ NumberFree(p, t)
               /\ invoice'[p][t] = total /\ demanded'[p][t] = demanded[p][t] + 1
    <2>1. CASE Bills /\ sk = {}
      <3>1. PICK row \in [Period -> Nat] : row = [invoice[p] EXCEPT ![t] = total]
        BY <1>8, <1>10
      <3>2. PICK tally \in [Period -> Nat] :
              tally = [demanded[p] EXCEPT ![t] = demanded[p][t] + 1]
        <4>1. demanded[p] \in [Period -> Nat]
          BY <1>10
        <4>2. demanded[p][t] + 1 \in Nat
          BY <1>8, <4>1
        <4> QED BY <1>8, <4>1, <4>2
      <3>3. invoice' = [invoice EXCEPT ![p] = row]
        BY <2>1, <3>1
      <3>4. demanded' = [demanded EXCEPT ![p] = tally]
        BY <2>1, <3>2
      <3>5. invoice' \in [Pupil -> [Period -> Nat]] /\ invoice'[p] = row
            /\ \A q \in Pupil \ {p} : invoice'[q] = invoice[q]
        BY <1>10, <3>3
      <3>6. demanded' \in [Pupil -> [Period -> Nat]] /\ demanded'[p] = tally
            /\ \A q \in Pupil \ {p} : demanded'[q] = demanded[q]
        BY <1>10, <3>4
      <3>7. row[t] = total /\ \A u \in Period \ {t} : row[u] = invoice[p][u]
        BY <1>8, <1>10, <3>1
      <3>8. tally[t] = demanded[p][t] + 1 /\ \A u \in Period \ {t} : tally[u] = demanded[p][u]
        BY <1>8, <1>10, <3>2
      <3> QED BY <2>1, <3>5, <3>6, <3>7, <3>8 DEF NumberFree
    <2>2. CASE UNCHANGED <<invoice, demanded>> /\ sk = {p}
               /\ (fl = {p} \/ total = 0 \/ ~NumberFree(p, t))
      BY <1>10, <2>2
    <2> QED BY <1>9, <2>1, <2>2
  <1>3. /\ desk' \in [Clerk -> DeskWork] /\ desk'[w] = r
        /\ \A v \in Clerk \ {w} : desk'[v] = desk[v]
    BY <1>1, DeskStep, NobodyAtTheDesk DEF DeskInv, DeskTypes, DeskWork
  <1>4. DeskTypes'
    BY <1>2, <1>3, <1>11 DEF DeskInv, DeskTypes, banking
  <1>5. BilledOnce'
    <2>1. DemandsAgree(invoice', demanded')
      <3>1. DemandsAgree(invoice, demanded)
        BY BilledParts DEF DeskInv
      <3>2. SUFFICES ASSUME NEW q \in Pupil, NEW u \in Period
                     PROVE  demanded'[q][u] = IF invoice'[q][u] = NotBilled THEN 0 ELSE 1
        BY DEF DemandsAgree
      <3>3. CASE q # p \/ u # t
        BY <1>11, <3>1, <3>3 DEF DemandsAgree
      <3>4. CASE q = p /\ u = t
        <4>1. demanded[p][t] = IF invoice[p][t] = NotBilled THEN 0 ELSE 1
          BY <1>8, <3>1 DEF DemandsAgree
        <4> QED BY <1>8, <1>11, <3>4, <4>1 DEF NotBilled
      <3> QED BY <3>3, <3>4
    <2>2. \A q \in Pupil, u \in Period :
             invoice[q][u] # NotBilled => invoice'[q][u] # NotBilled
      BY <1>8, <1>11 DEF NotBilled
    <2>4. OneOfATail(invoice')
      <3>1. SUFFICES ASSUME NEW q \in Pupil, NEW o \in Pupil, NEW u \in Period,
                            q # o, Tail[q] = Tail[o], invoice'[q][u] # NotBilled,
                            invoice'[o][u] # NotBilled
                     PROVE  FALSE
        BY DEF OneOfATail
      <3>2. invoice[q][u] = NotBilled \/ invoice[o][u] = NotBilled
        BY <3>1, BilledParts DEF DeskInv, OneOfATail
      <3>3. ASSUME NEW x \in {q, o}, invoice[x][u] = NotBilled
            PROVE  x = p /\ u = t /\ NumberFree(p, t)
        BY <1>11, <3>1, <3>3 DEF NotBilled
      <3>4. PICK x \in {q, o} : x = p /\ u = t /\ NumberFree(p, t)
        BY <3>2, <3>3
      <3>5. invoice[q][u] = NotBilled /\ invoice[o][u] = NotBilled
        BY <3>1, <3>4 DEF NumberFree
      <3> QED BY <3>1, <3>3, <3>5
    <2>5. ASSUME NEW d \in Generating, NEW q \in d.pupils, Accounted(invoice, d, q)
          PROVE  Accounted(invoice', d, q)
      <3>1. q \in Pupil /\ d.period \in Period
        BY <2>5 DEF Generating
      <3>2. Taken(invoice, q, d.period) => Taken(invoice', q, d.period)
        BY <2>2, <3>1 DEF Taken
      <3> QED BY <2>2, <2>5, <3>1, <3>2 DEF Accounted
    <2>3. ASSUME NEW v \in Clerk PROVE PastIsBilled(invoice', desk'[v])
      <3>1. PastIsBilled(invoice, desk[v]) /\ desk[v] \in DeskWork
        BY BilledParts DEF DeskInv, DeskTypes
      <3>2. CASE v # w
        <4>1. PICK d \in DeskWork : d = desk[v] /\ desk'[v] = d
          BY <1>3, <3>1, <3>2
        <4>2. d.pc = "bill" /\ d.job = "generate" => d \in Generating
          BY RequestKinds
        <4>3. ASSUME d.pc = "bill", d.job = "generate", NEW q \in d.pupils \ d.todo
              PROVE  Accounted(invoice', d, q)
          BY <2>5, <3>1, <4>1, <4>2, <4>3 DEF PastIsBilled
        <4> QED BY <4>1, <4>3 DEF PastIsBilled
      <3>3. CASE v = w
        <4>1. desk'[v] = r
          BY <1>3, <3>3
        <4>2. ASSUME NEW q \in r.pupils \ r.todo PROVE Accounted(invoice', r, q)
          <5>1. q \in Pupil /\ r.period = t /\ t \in Period
            BY <1>1, <1>8, <4>2 DEF Generating, t
          <5>2. CASE q = p
            <6>1. total = TotalFor(r.granted[q])
              BY <1>1, <5>2 DEF total
            <6>3. ~NumberFree(p, t) => Taken(invoice', p, t)
              BY <1>8, <2>2 DEF NumberFree, Taken
            <6>4. sk \in {{}, {p}} /\ (p \notin r.skipped => sk = {})
              BY <1>1, <1>11
            <6>5. p \in r.skipped \ r.failed =>
                     sk = {} \/ total = 0 \/ ~NumberFree(p, t)
              BY <1>1, <1>11
            <6>6. sk = {} => r.skipped = desk[w].skipped /\ invoice'[p][t] # NotBilled
                             /\ total > 0
              BY <1>1, <1>8, <1>11 DEF NotBilled
            <6>7. sk = {} => Taken(invoice', p, t)
              BY <5>1, <5>2, <6>6 DEF Taken
            <6> QED BY <5>1, <5>2, <6>1, <6>3, <6>4, <6>5, <6>6, <6>7 DEF Accounted
          <5>3. CASE q # p
            <6>1. q \in desk[w].pupils \ desk[w].todo
              BY <1>1, <4>2, <5>3
            <6>2. Accounted(invoice, desk[w], q)
              BY <1>0, <3>1, <3>3, <6>1 DEF PastIsBilled, Generating
            <6>3. Accounted(invoice, r, q)
              BY <1>1, <1>11, <5>3, <6>2 DEF Accounted
            <6> QED BY <2>5, <6>3, <4>2
          <5> QED BY <5>2, <5>3
        <4> QED BY <4>1, <4>2 DEF PastIsBilled
      <3> QED BY <3>2, <3>3
    <2> QED BY <2>1, <2>3, <2>4, BilledPartsNext
  <1>6. Touches(r) = {}
    BY <1>1 DEF Touches
  <1>7. (\A c \in Cheque \ crossed : ChequeKept(c))'
    BY <1>2, <1>3, <1>6, BanksNothing DEF DeskInv
  <1> QED BY <1>4, <1>5, <1>7 DEF DeskInv

\* Receiving changes a cheque that nobody can have in hand.
LEMMA ReceiveChequeKeeps ==
    ASSUME DeskInv, NEW c \in Cheque, ReceiveCheque(c)
    PROVE  DeskInv' /\ PenaltiesKept
  <1>1. UNCHANGED <<enrolled, concession, invoice, demanded, slip, desk, crossed>>
    BY DEF ReceiveCheque, billing
  <1>2. PICK status \in {"RECEIVED", "none"} :
          cheque' = [cheque EXCEPT ![c].status = status, ![c].payment = "SUCCESS"]
    BY DEF ReceiveCheque
  <1>3. cheque[c] = NoCheque /\ cheque \in [Cheque -> ChequeRow]
    BY DEF ReceiveCheque, DeskInv, DeskTypes
  <1>4. PICK row \in ChequeRow :
          /\ row.status = status /\ row.payment = "SUCCESS" /\ row.penalties = 0
          /\ cheque' = [cheque EXCEPT ![c] = row]
    <2> DEFINE row == [status |-> status, payment |-> "SUCCESS", slip |-> "none",
                       penalties |-> 0]
    <2>1. row \in ChequeRow
      BY <1>2 DEF ChequeRow
    <2>2. cheque' = [cheque EXCEPT ![c] = row]
      BY <1>2, <1>3 DEF NoCheque
    <2> QED BY <2>1, <2>2
  <1>5. cheque' \in [Cheque -> ChequeRow] /\ cheque'[c] = row
        /\ \A e \in Cheque \ {c} : cheque'[e] = cheque[e]
    BY <1>3, <1>4
  <1>6. DeskTypes'
    BY <1>1, <1>5 DEF DeskInv, DeskTypes
  <1>7. BilledOnce'
    BY <1>1 DEF DeskInv, BilledOnce, NumberFree, At, TotalFor, LineTotal
  <1>8. ASSUME NEW e \in Cheque \ crossed PROVE ChequeKept(e)'
    <2>1. ChequeKept(e)
      BY DEF DeskInv
    <2>2. CASE e # c
      <3>1. cheque'[e] = cheque[e]
        BY <1>5, <2>2
      <3> QED BY <1>1, <2>1, <3>1, ChequeStays
    <2>3. CASE e = c
      <3>1. \A w \in Clerk : c \in Touches(desk[w]) =>
               desk[w].job \notin {"deposit", "slip", "credit", "confirm", "bounce"}
        BY <1>3, <2>1, <2>3 DEF ChequeKept, Ready, NoCheque
      <3>2. \A w \in Clerk : c \notin Touches(desk[w])
        <4>1. ASSUME NEW w \in Clerk, c \in Touches(desk[w]) PROVE FALSE
          <5>1. desk[w] \in DeskWork /\ desk[w].pc = "write"
            BY <4>1 DEF DeskInv, DeskTypes, Touches
          <5>2. desk[w] \in AtCheque \cup AtSlip
            BY <5>1 DEF DeskWork, NoDesk, Listing, Generating, Carrying
          <5> QED BY <3>1, <4>1, <5>2 DEF AtCheque, AtSlip
        <4> QED BY <4>1
      <3>3. \A d \in Slip : c \notin slip[d].counted
        BY <1>3, <2>1, <2>3 DEF ChequeKept, NoCheque
      <3>4. InOneHand(e)' /\ (\A w \in Clerk : e \in Touches(desk[w]) => Ready(desk[w].job, e))'
        BY <1>1, <2>3, <3>2 DEF InOneHand, Touches
      <3> QED BY <1>1, <1>4, <1>5, <2>3, <3>3, <3>4 DEF ChequeKept
    <2> QED BY <2>2, <2>3
  <1>9. (\A e \in Cheque \ crossed : ChequeKept(e))'
    BY <1>1, <1>8
  <1>20. PenaltiesKept
    <2>1. ASSUME NEW e \in Cheque, Penalised(e) PROVE Penalised(e)'
      <3>1. CASE e = c
        <4>1. row.status # "BOUNCED" /\ row.payment = "SUCCESS" /\ row.penalties = 0
          BY <1>4
        <4> QED BY <1>5, <3>1, <4>1 DEF Penalised
      <3>2. CASE e # c
        BY <1>5, <2>1, <3>2 DEF Penalised
      <3> QED BY <3>1, <3>2
    <2> QED BY <2>1 DEF PenaltiesKept
  <1> QED BY <1>20, <1>6, <1>7, <1>9 DEF DeskInv

LEMMA ReadOneChequeKeeps ==
    ASSUME DeskInv, NEW w \in Clerk, NEW c \in Cheque,
           NEW job \in {"deposit", "credit", "bounce"}, ReadOneCheque(w, job, c)
    PROVE  DeskInv'
  <1>1. PICK r \in AtCheque :
          r.pc = "write" /\ r.job = job /\ r.cheques = {c} /\ DeskBecomes(w, r)
    <2> DEFINE r == [pc |-> "write", job |-> job, cheques |-> {c}]
    <2>1. r \in AtCheque
      BY DEF AtCheque
    <2>2. DeskBecomes(w, r)
      BY DEF ReadOneCheque, Begins
    <2> QED BY <2>1, <2>2
  <1>2. /\ UNCHANGED <<enrolled, concession, invoice, demanded, cheque, slip>>
        /\ crossed' = Crossing(w, r.cheques) /\ desk[w].pc = "idle"
    BY <1>1 DEF ReadOneCheque, Begins, At, billing
  <1>3. /\ desk' \in [Clerk -> DeskWork] /\ desk'[w] = r
        /\ \A v \in Clerk \ {w} : desk'[v] = desk[v]
    BY <1>1, DeskStep, NobodyAtTheDesk DEF DeskInv, DeskTypes, DeskWork
  <1>4. DeskTypes'
    BY <1>2, <1>3 DEF DeskInv, DeskTypes
  <1>5. BilledOnce'
    BY <1>1, <1>2, <1>3, NobodyAtTheDesk, BillsNothing DEF DeskInv
  <1>6. \A e \in r.cheques : Ready(r.job, e)
    BY <1>1 DEF ReadOneCheque, Accepts, Ready
  <1>7. (\A e \in Cheque \ crossed : ChequeKept(e))'
    <2>1. ASSUME NEW e \in Cheque, e \notin crossed' PROVE ChequeKept(e)'
      <3>1. ChequeKept(e)
        BY <1>2, <2>1 DEF DeskInv, Crossing
      <3>2. e \in r.cheques => Ready(r.job, e)
        BY <1>1, <1>6 DEF Ready
      <3>3. Touches(desk'[w]) = r.cheques /\ r.cheques \in SUBSET Cheque
        BY <1>1, <1>3 DEF Touches, AtCheque, AtSlip
      <3> QED BY <1>2, <1>3, <2>1, <3>1, <3>2, <3>3, ChequeRead
    <2> QED BY <2>1
  <1> QED BY <1>4, <1>5, <1>7 DEF DeskInv

LEMMA ReadForSlipKeeps ==
    ASSUME DeskInv, NEW w \in Clerk, NEW d \in Slip, NEW asked \in SUBSET Cheque,
           ReadForSlip(w, d, asked)
    PROVE  DeskInv'
  <1>1. PICK r \in AtSlip :
          /\ r.pc = "write" /\ r.job = "slip" /\ r.cheques = ForDeposit(asked)
          /\ DeskBecomes(w, r)
    <2> DEFINE r == [pc |-> "write", job |-> "slip", slip |-> d, cheques |-> ForDeposit(asked)]
    <2>1. r \in AtSlip
      BY DEF AtSlip, ForDeposit
    <2>2. DeskBecomes(w, r)
      BY DEF ReadForSlip, Begins
    <2> QED BY <2>1, <2>2
  <1>2. /\ UNCHANGED <<enrolled, concession, invoice, demanded, cheque, slip>>
        /\ crossed' = Crossing(w, r.cheques) /\ desk[w].pc = "idle"
    BY <1>1 DEF ReadForSlip, Begins, At, billing
  <1>3. /\ desk' \in [Clerk -> DeskWork] /\ desk'[w] = r
        /\ \A v \in Clerk \ {w} : desk'[v] = desk[v]
    BY <1>1, DeskStep, NobodyAtTheDesk DEF DeskInv, DeskTypes, DeskWork
  <1>4. DeskTypes'
    BY <1>2, <1>3 DEF DeskInv, DeskTypes
  <1>5. BilledOnce'
    BY <1>1, <1>2, <1>3, NobodyAtTheDesk, BillsNothing DEF DeskInv
  <1>6. \A e \in r.cheques : Ready(r.job, e)
    BY <1>1 DEF ForDeposit, Ready
  <1>7. (\A e \in Cheque \ crossed : ChequeKept(e))'
    <2>1. ASSUME NEW e \in Cheque, e \notin crossed' PROVE ChequeKept(e)'
      <3>1. ChequeKept(e)
        BY <1>2, <2>1 DEF DeskInv, Crossing
      <3>2. e \in r.cheques => Ready(r.job, e)
        BY <1>1, <1>6 DEF Ready
      <3>3. Touches(desk'[w]) = r.cheques /\ r.cheques \in SUBSET Cheque
        BY <1>1, <1>3 DEF Touches, AtCheque, AtSlip
      <3> QED BY <1>2, <1>3, <2>1, <3>1, <3>2, <3>3, ChequeRead
    <2> QED BY <2>1
  <1> QED BY <1>4, <1>5, <1>7 DEF DeskInv

LEMMA ReadSlipKeeps ==
    ASSUME DeskInv, NEW w \in Clerk, NEW d \in Slip, ReadSlip(w, d)
    PROVE  DeskInv'
  <1>1. PICK r \in AtSlip :
          /\ r.pc = "write" /\ r.job = "confirm"
          /\ r.cheques = {e \in Cheque : cheque[e].slip = d /\ cheque[e].status = "DEPOSITED"}
          /\ DeskBecomes(w, r)
    <2> DEFINE cs == {e \in Cheque : cheque[e].slip = d /\ cheque[e].status = "DEPOSITED"}
               r == [pc |-> "write", job |-> "confirm", slip |-> d, cheques |-> cs]
    <2>1. r \in AtSlip
      BY DEF AtSlip
    <2>2. DeskBecomes(w, r)
      BY DEF ReadSlip, Begins
    <2> QED BY <2>1, <2>2
  <1>2. /\ UNCHANGED <<enrolled, concession, invoice, demanded, cheque, slip>>
        /\ crossed' = Crossing(w, r.cheques) /\ desk[w].pc = "idle"
    BY <1>1 DEF ReadSlip, Begins, At, billing
  <1>3. /\ desk' \in [Clerk -> DeskWork] /\ desk'[w] = r
        /\ \A v \in Clerk \ {w} : desk'[v] = desk[v]
    BY <1>1, DeskStep, NobodyAtTheDesk DEF DeskInv, DeskTypes, DeskWork
  <1>4. DeskTypes'
    BY <1>2, <1>3 DEF DeskInv, DeskTypes
  <1>5. BilledOnce'
    BY <1>1, <1>2, <1>3, NobodyAtTheDesk, BillsNothing DEF DeskInv
  <1>6. \A e \in r.cheques : Ready(r.job, e)
    BY <1>1 DEF Ready
  <1>7. (\A e \in Cheque \ crossed : ChequeKept(e))'
    <2>1. ASSUME NEW e \in Cheque, e \notin crossed' PROVE ChequeKept(e)'
      <3>1. ChequeKept(e)
        BY <1>2, <2>1 DEF DeskInv, Crossing
      <3>2. e \in r.cheques => Ready(r.job, e)
        BY <1>1, <1>6 DEF Ready
      <3>3. Touches(desk'[w]) = r.cheques /\ r.cheques \in SUBSET Cheque
        BY <1>1, <1>3 DEF Touches, AtCheque, AtSlip
      <3> QED BY <1>2, <1>3, <2>1, <3>1, <3>2, <3>3, ChequeRead
    <2> QED BY <2>1
  <1> QED BY <1>4, <1>5, <1>7 DEF DeskInv

LEMMA WriteChequeKeeps ==
    ASSUME DeskInv, NEW w \in Clerk, WriteCheque(w)
    PROVE  DeskInv' /\ PenaltiesKept
  <1>0. desk[w] \in AtCheque /\ desk[w].pc = "write" /\ desk[w].job \in {"deposit", "credit", "bounce"}
    BY RequestKinds DEF WriteCheque, At, DeskInv, DeskTypes
  <1>1. DeskBecomes(w, NoDesk)
    BY DEF WriteCheque, Done
  <1>2. UNCHANGED <<enrolled, concession, invoice, demanded, slip, crossed>>
    BY DEF WriteCheque, billing
  <1>3. /\ desk' \in [Clerk -> DeskWork] /\ desk'[w] = NoDesk
        /\ \A v \in Clerk \ {w} : desk'[v] = desk[v]
    BY <1>1, DeskStep, NobodyAtTheDesk DEF DeskInv, DeskTypes, DeskWork
  <1>8. PICK c \in desk[w].cheques : \E row \in Written(desk[w].job, c) :
          cheque' = [cheque EXCEPT ![c] = row]
    BY DEF WriteCheque
  <1>11. PICK row \in Written(desk[w].job, c) : cheque' = [cheque EXCEPT ![c] = row]
    BY <1>8
  <1>9. /\ c \in Cheque /\ row \in ChequeRow
        /\ desk[w].job = "deposit" => /\ row.status = "DEPOSITED"
                                      /\ row.payment = cheque[c].payment
                                      /\ row.penalties = cheque[c].penalties
        /\ desk[w].job = "credit" => /\ row.status = "CREDITED"
                                     /\ row.payment = cheque[c].payment
                                     /\ row.penalties = cheque[c].penalties
        /\ desk[w].job = "bounce" => /\ row.status = "BOUNCED" /\ row.payment = "DISPUTED"
                                     /\ row.penalties = cheque[c].penalties + 1
    <2>1. c \in Cheque
      BY <1>0, <1>8 DEF AtCheque
    <2>2. PICK old \in ChequeRow : old = cheque[c]
      BY <2>1 DEF DeskInv, DeskTypes
    <2>3. CASE desk[w].job = "deposit"
      <3>1. PICK d \in {"none"} \cup Slip : row = [old EXCEPT !.status = "DEPOSITED", !.slip = d]
        <4>1. row \in {[cheque[c] EXCEPT !.status = "DEPOSITED", !.slip = d] :
                       d \in {"none"} \cup {d \in Slip : slip[d] # NoSlip}}
          BY <1>11, <2>3 DEF Written
        <4> QED BY <2>2, <4>1
      <3>2. row \in ChequeRow
        BY <3>1 DEF ChequeRow
      <3>3. row.status = "DEPOSITED" /\ row.payment = old.payment
        BY <3>1 DEF ChequeRow
      <3>4. row.penalties = old.penalties
        BY <3>1 DEF ChequeRow
      <3> QED BY <2>1, <2>2, <2>3, <3>2, <3>3, <3>4
    <2>4. CASE desk[w].job = "credit"
      <3>1. row = [old EXCEPT !.status = "CREDITED"]
        BY <1>8, <1>11, <2>2, <2>4 DEF Written
      <3>2. row \in ChequeRow
        BY <3>1 DEF ChequeRow
      <3>3. row.status = "CREDITED" /\ row.payment = old.payment
        BY <3>1 DEF ChequeRow
      <3>4. row.penalties = old.penalties
        BY <3>1 DEF ChequeRow
      <3> QED BY <2>1, <2>2, <2>4, <3>2, <3>3, <3>4
    <2>5. CASE desk[w].job = "bounce"
      <3>1. row = [old EXCEPT !.status = "BOUNCED", !.payment = "DISPUTED",
                              !.penalties = old.penalties + 1]
        BY <1>8, <1>11, <2>2, <2>5 DEF Written
      <3>5. old.penalties + 1 \in Nat
        BY DEF ChequeRow
      <3>2. row \in ChequeRow
        BY <3>1, <3>5 DEF ChequeRow
      <3>3. row.status = "BOUNCED" /\ row.payment = "DISPUTED"
        BY <3>1 DEF ChequeRow
      <3>4. row.penalties = old.penalties + 1
        BY <3>1 DEF ChequeRow
      <3> QED BY <2>1, <2>2, <2>5, <3>2, <3>3, <3>4
    <2> QED BY <1>0, <2>3, <2>4, <2>5
  <1>10. cheque' \in [Cheque -> ChequeRow] /\ cheque'[c] = row
         /\ \A e \in Cheque \ {c} : cheque'[e] = cheque[e]
    BY <1>9, <1>11 DEF DeskInv, DeskTypes
  <1>4. DeskTypes'
    BY <1>2, <1>3, <1>10 DEF DeskInv, DeskTypes
  <1>5. BilledOnce'
    BY <1>1, <1>2, <1>3, NobodyAtTheDesk, BillsNothing DEF DeskInv
  <1>6. Touches(desk[w]) = desk[w].cheques /\ Touches(desk'[w]) = {}
    BY <1>0, <1>3, NobodyAtTheDesk DEF Touches
  <1>7. (\A e \in Cheque \ crossed : ChequeKept(e))'
    <2>1. ASSUME NEW e \in Cheque \ crossed PROVE ChequeKept(e)'
      <3>1. ChequeKept(e)
        BY DEF DeskInv
      <3>2. CASE e # c
        <4>1. cheque'[e] = cheque[e]
          BY <1>8, <1>10, <3>2
        <4>2. \A v \in Clerk : e \in Touches(desk'[v]) =>
                 e \in Touches(desk[v]) /\ desk'[v].job = desk[v].job
          BY <1>3, <1>6
        <4> QED BY <1>2, <1>8, <1>10, <3>1, <3>2, <4>1, <4>2, ChequeStays
      <3>3. CASE e = c
        <4>1. e \in Touches(desk[w]) /\ Ready(desk[w].job, e)
          BY <1>8, <1>10, <1>6, <3>1, <3>3 DEF ChequeKept
        <4>2. /\ InOneHand(e)'
              /\ (\A v \in Clerk : e \in Touches(desk[v]) => Ready(desk[v].job, e))'
          BY <1>3, <1>6, <3>1, <4>1, ChequeWritten
        <4>3. /\ (cheque'[e].status = "BOUNCED" <=> cheque'[e].payment = "DISPUTED")
              /\ cheque'[e].penalties = IF cheque'[e].status = "BOUNCED" THEN 1 ELSE 0
              /\ cheque'[e].status \in {"DEPOSITED", "CREDITED", "BOUNCED"}
          <5>1. /\ cheque[e].status = "BOUNCED" <=> cheque[e].payment = "DISPUTED"
                /\ cheque[e].penalties = IF cheque[e].status = "BOUNCED" THEN 1 ELSE 0
            BY <3>1 DEF ChequeKept
          <5> QED BY <1>0, <1>9, <1>10, <3>3, <4>1, <5>1 DEF Ready
        <4> QED BY <1>2, <3>1, <4>2, <4>3 DEF ChequeKept
      <3> QED BY <3>2, <3>3
    <2> QED BY <1>2, <2>1
  <1>20. PenaltiesKept
    <2>1. ASSUME NEW e \in Cheque, Penalised(e) PROVE Penalised(e)'
      <3>1. CASE e = c
        <4>1. cheque[c].penalties \in Nat
          BY <1>9 DEF DeskInv, DeskTypes, ChequeRow
        <4> QED BY <1>0, <1>9, <1>10, <2>1, <3>1, <4>1 DEF Penalised
      <3>2. CASE e # c
        BY <1>10, <2>1, <3>2 DEF Penalised
      <3> QED BY <3>1, <3>2
    <2> QED BY <2>1 DEF PenaltiesKept
  <1> QED BY <1>20, <1>4, <1>5, <1>7 DEF DeskInv

LEMMA WriteSlipKeeps ==
    ASSUME DeskInv, NEW w \in Clerk, WriteSlip(w)
    PROVE  DeskInv' /\ PenaltiesKept
  <1>0. desk[w] \in AtSlip /\ desk[w].pc = "write" /\ desk[w].job = "slip"
    BY RequestKinds DEF WriteSlip, At, DeskInv, DeskTypes
  <1>1. DeskBecomes(w, NoDesk)
    BY DEF WriteSlip, Done
  <1>2. UNCHANGED <<enrolled, concession, invoice, demanded, crossed>>
    BY DEF WriteSlip, billing
  <1>3. /\ desk' \in [Clerk -> DeskWork] /\ desk'[w] = NoDesk
        /\ \A v \in Clerk \ {w} : desk'[v] = desk[v]
    BY <1>1, DeskStep, NobodyAtTheDesk DEF DeskInv, DeskTypes, DeskWork
  <1>9. /\ cheque' \in [Cheque -> ChequeRow]
        /\ \A e \in Cheque \ desk[w].cheques : cheque'[e] = cheque[e]
        /\ \A e \in desk[w].cheques :
              /\ cheque'[e].status = "DEPOSITED" /\ cheque'[e].payment = cheque[e].payment
              /\ cheque'[e].penalties = cheque[e].penalties
    <2>2. /\ desk[w].cheques \subseteq Cheque /\ desk[w].slip \in Slip
          /\ \A e \in Cheque : cheque[e] \in ChequeRow
      BY <1>0 DEF AtSlip, DeskInv, DeskTypes
    <2>3. cheque' = [e \in Cheque |-> IF e \in desk[w].cheques
                                      THEN [cheque[e] EXCEPT !.status = "DEPOSITED", !.slip = desk[w].slip]
                                      ELSE cheque[e]]
      BY DEF WriteSlip
    <2>4. ASSUME NEW e \in desk[w].cheques
          PROVE  /\ cheque'[e] \in ChequeRow /\ cheque'[e].status = "DEPOSITED"
                 /\ cheque'[e].payment = cheque[e].payment
                 /\ cheque'[e].penalties = cheque[e].penalties
      <3>1. e \in Cheque /\ cheque'[e] = [cheque[e] EXCEPT !.status = "DEPOSITED", !.slip = desk[w].slip]
        BY <2>2, <2>3
      <3>2. PICK old \in ChequeRow : old = cheque[e]
        BY <2>2, <3>1
      <3>3. PICK d \in Slip : d = desk[w].slip
        BY <2>2
      <3>4. cheque'[e] = [old EXCEPT !.status = "DEPOSITED", !.slip = d]
        BY <3>1, <3>2, <3>3
      <3> DEFINE row == [old EXCEPT !.status = "DEPOSITED", !.slip = d]
      <3>5. row \in ChequeRow
        BY DEF ChequeRow
      <3>6. row.status = "DEPOSITED" /\ row.payment = old.payment
        BY DEF ChequeRow
      <3>7. row.penalties = old.penalties
        BY DEF ChequeRow
      <3> HIDE DEF row
      <3>8. cheque'[e] = row
        BY <3>4 DEF row
      <3> QED BY <3>2, <3>5, <3>6, <3>7, <3>8
    <2>5. \A e \in Cheque \ desk[w].cheques : cheque'[e] = cheque[e]
      BY <2>3
    <2>6. cheque' \in [Cheque -> ChequeRow]
      BY <2>2, <2>3, <2>4, <2>5
    <2> QED BY <2>4, <2>5, <2>6
  <1>10. /\ desk[w].slip \in Slip /\ slip' \in [Slip -> SlipRow]
         /\ slip'[desk[w].slip].counted = desk[w].cheques
         /\ \A d \in Slip \ {desk[w].slip} : slip'[d] = slip[d]
    <2>1. desk[w].slip \in Slip /\ desk[w].cheques \subseteq Cheque
          /\ slip \in [Slip -> SlipRow]
      BY <1>0 DEF AtSlip, DeskInv, DeskTypes
    <2>2. PICK row \in SlipRow :
            row = [status |-> "PREPARED", counted |-> desk[w].cheques]
      BY <2>1 DEF SlipRow
    <2>3. slip' = [slip EXCEPT ![desk[w].slip] = row]
      BY <2>2 DEF WriteSlip
    <2> QED BY <2>1, <2>2, <2>3
  <1>4. DeskTypes'
    BY <1>2, <1>3, <1>9, <1>10 DEF DeskInv, DeskTypes
  <1>5. BilledOnce'
    BY <1>1, <1>2, <1>3, NobodyAtTheDesk, BillsNothing DEF DeskInv
  <1>6. Touches(desk[w]) = desk[w].cheques /\ Touches(desk'[w]) = {}
    BY <1>0, <1>3, NobodyAtTheDesk DEF Touches
  <1>7. (\A e \in Cheque \ crossed : ChequeKept(e))'
    <2>1. ASSUME NEW e \in Cheque \ crossed PROVE ChequeKept(e)'
      <3>1. ChequeKept(e)
        BY DEF DeskInv
      <3>2. CASE e \notin desk[w].cheques
        <4>1. cheque'[e] = cheque[e]
          BY <1>9, <1>10, <3>2
        <4>2. \A v \in Clerk : e \in Touches(desk'[v]) =>
                 e \in Touches(desk[v]) /\ desk'[v].job = desk[v].job
          BY <1>3, <1>6
        <4> QED BY <1>2, <1>9, <1>10, <3>1, <3>2, <4>1, <4>2, ChequeStays
      <3>3. CASE e \in desk[w].cheques
        <4>1. e \in Touches(desk[w]) /\ Ready(desk[w].job, e)
          BY <1>9, <1>10, <1>6, <3>1, <3>3 DEF ChequeKept
        <4>2. /\ InOneHand(e)'
              /\ (\A v \in Clerk : e \in Touches(desk[v]) => Ready(desk[v].job, e))'
          BY <1>3, <1>6, <3>1, <4>1, ChequeWritten
        <4>3. \A d \in Slip : e \notin slip[d].counted
          BY <1>0, <3>1, <4>1 DEF ChequeKept, Ready
        <4>4. \A d \in Slip : e \in slip'[d].counted => d = desk[w].slip
          BY <1>10, <4>3
        <4>5. /\ (cheque'[e].status = "BOUNCED" <=> cheque'[e].payment = "DISPUTED")
              /\ cheque'[e].penalties = IF cheque'[e].status = "BOUNCED" THEN 1 ELSE 0
          <5>1. /\ cheque[e].status = "BOUNCED" <=> cheque[e].payment = "DISPUTED"
                /\ cheque[e].penalties = IF cheque[e].status = "BOUNCED" THEN 1 ELSE 0
            BY <3>1 DEF ChequeKept
          <5> QED BY <1>0, <1>9, <3>3, <4>1, <5>1 DEF Ready
        <4>6. cheque'[e].status = "DEPOSITED"
          BY <1>9, <3>3
        <4> QED BY <4>2, <4>4, <4>5, <4>6 DEF ChequeKept
      <3> QED BY <3>2, <3>3
    <2> QED BY <1>2, <2>1
  <1>20. PenaltiesKept
    <2>1. ASSUME NEW e \in Cheque, Penalised(e) PROVE Penalised(e)'
      <3>1. CASE e \in desk[w].cheques
        BY <1>9, <2>1, <3>1 DEF Penalised
      <3>2. CASE e \notin desk[w].cheques
        BY <1>9, <2>1, <3>2 DEF Penalised
      <3> QED BY <3>1, <3>2
    <2> QED BY <2>1 DEF PenaltiesKept
  <1> QED BY <1>20, <1>4, <1>5, <1>7 DEF DeskInv

LEMMA ConfirmSlipKeeps ==
    ASSUME DeskInv, NEW w \in Clerk, ConfirmSlip(w)
    PROVE  DeskInv' /\ PenaltiesKept
  <1>0. desk[w] \in AtSlip /\ desk[w].pc = "write" /\ desk[w].job = "confirm"
    BY RequestKinds DEF ConfirmSlip, At, DeskInv, DeskTypes
  <1>1. DeskBecomes(w, NoDesk)
    BY DEF ConfirmSlip, Done
  <1>2. UNCHANGED <<enrolled, concession, invoice, demanded, crossed>>
    BY DEF ConfirmSlip, billing
  <1>3. /\ desk' \in [Clerk -> DeskWork] /\ desk'[w] = NoDesk
        /\ \A v \in Clerk \ {w} : desk'[v] = desk[v]
    BY <1>1, DeskStep, NobodyAtTheDesk DEF DeskInv, DeskTypes, DeskWork
  <1>9. /\ cheque' \in [Cheque -> ChequeRow]
        /\ \A e \in Cheque \ desk[w].cheques : cheque'[e] = cheque[e]
        /\ \A e \in desk[w].cheques :
              /\ cheque'[e].status = "CREDITED" /\ cheque'[e].payment = cheque[e].payment
              /\ cheque'[e].penalties = cheque[e].penalties
    <2>2. /\ desk[w].cheques \subseteq Cheque /\ desk[w].slip \in Slip
          /\ \A e \in Cheque : cheque[e] \in ChequeRow
      BY <1>0 DEF AtSlip, DeskInv, DeskTypes
    <2>3. cheque' = [e \in Cheque |-> IF e \in desk[w].cheques
                                      THEN [cheque[e] EXCEPT !.status = "CREDITED"]
                                      ELSE cheque[e]]
      BY DEF ConfirmSlip
    <2>4. ASSUME NEW e \in desk[w].cheques
          PROVE  /\ cheque'[e] \in ChequeRow /\ cheque'[e].status = "CREDITED"
                 /\ cheque'[e].payment = cheque[e].payment
                 /\ cheque'[e].penalties = cheque[e].penalties
      <3>1. e \in Cheque /\ cheque'[e] = [cheque[e] EXCEPT !.status = "CREDITED"]
        BY <2>2, <2>3
      <3>2. PICK old \in ChequeRow : old = cheque[e]
        BY <2>2, <3>1
      <3>3. PICK d \in Slip : d = desk[w].slip
        BY <2>2
      <3>4. cheque'[e] = [old EXCEPT !.status = "CREDITED"]
        BY <3>1, <3>2, <3>3
      <3> DEFINE row == [old EXCEPT !.status = "CREDITED"]
      <3>5. row \in ChequeRow
        BY DEF ChequeRow
      <3>6. row.status = "CREDITED" /\ row.payment = old.payment
        BY DEF ChequeRow
      <3>7. row.penalties = old.penalties
        BY DEF ChequeRow
      <3> HIDE DEF row
      <3>8. cheque'[e] = row
        BY <3>4 DEF row
      <3> QED BY <3>2, <3>5, <3>6, <3>7, <3>8
    <2>5. \A e \in Cheque \ desk[w].cheques : cheque'[e] = cheque[e]
      BY <2>3
    <2>6. cheque' \in [Cheque -> ChequeRow]
      BY <2>2, <2>3, <2>4, <2>5
    <2> QED BY <2>4, <2>5, <2>6
  <1>10. slip' \in [Slip -> SlipRow] /\ \A d \in Slip : slip'[d].counted = slip[d].counted
    <2>1. desk[w].slip \in Slip /\ slip \in [Slip -> SlipRow]
      BY <1>0 DEF AtSlip, DeskInv, DeskTypes
    <2>2. PICK row \in SlipRow :
            /\ row = [slip[desk[w].slip] EXCEPT !.status = "CREDITED"]
            /\ row.counted = slip[desk[w].slip].counted
      <3>1. PICK old \in SlipRow : old = slip[desk[w].slip]
        BY <2>1
      <3> DEFINE row == [old EXCEPT !.status = "CREDITED"]
      <3>2. row \in SlipRow
        BY DEF SlipRow
      <3>3. row.counted = old.counted
        BY DEF SlipRow
      <3> QED BY <3>1, <3>2, <3>3
    <2>3. slip' = [slip EXCEPT ![desk[w].slip] = row]
      BY <2>2 DEF ConfirmSlip
    <2> QED BY <2>1, <2>2, <2>3
  <1>4. DeskTypes'
    BY <1>2, <1>3, <1>9, <1>10 DEF DeskInv, DeskTypes
  <1>5. BilledOnce'
    BY <1>1, <1>2, <1>3, NobodyAtTheDesk, BillsNothing DEF DeskInv
  <1>6. Touches(desk[w]) = desk[w].cheques /\ Touches(desk'[w]) = {}
    BY <1>0, <1>3, NobodyAtTheDesk DEF Touches
  <1>7. (\A e \in Cheque \ crossed : ChequeKept(e))'
    <2>1. ASSUME NEW e \in Cheque \ crossed PROVE ChequeKept(e)'
      <3>1. ChequeKept(e)
        BY DEF DeskInv
      <3>2. CASE e \notin desk[w].cheques
        <4>1. cheque'[e] = cheque[e]
          BY <1>9, <1>10, <3>2
        <4>2. \A v \in Clerk : e \in Touches(desk'[v]) =>
                 e \in Touches(desk[v]) /\ desk'[v].job = desk[v].job
          BY <1>3, <1>6
        <4> QED BY <1>2, <1>9, <1>10, <3>1, <3>2, <4>1, <4>2, ChequeStays
      <3>3. CASE e \in desk[w].cheques
        <4>1. e \in Touches(desk[w]) /\ Ready(desk[w].job, e)
          BY <1>9, <1>10, <1>6, <3>1, <3>3 DEF ChequeKept
        <4>2. /\ InOneHand(e)'
              /\ (\A v \in Clerk : e \in Touches(desk[v]) => Ready(desk[v].job, e))'
          BY <1>3, <1>6, <3>1, <4>1, ChequeWritten
        <4>5. /\ (cheque'[e].status = "BOUNCED" <=> cheque'[e].payment = "DISPUTED")
              /\ cheque'[e].penalties = IF cheque'[e].status = "BOUNCED" THEN 1 ELSE 0
          <5>1. /\ cheque[e].status = "BOUNCED" <=> cheque[e].payment = "DISPUTED"
                /\ cheque[e].penalties = IF cheque[e].status = "BOUNCED" THEN 1 ELSE 0
            BY <3>1 DEF ChequeKept
          <5> QED BY <1>0, <1>9, <3>3, <4>1, <5>1 DEF Ready
        <4>6. cheque'[e].status = "CREDITED"
          BY <1>9, <3>3
        <4> QED BY <1>10, <3>1, <4>2, <4>5, <4>6 DEF ChequeKept
      <3> QED BY <3>2, <3>3
    <2> QED BY <1>2, <2>1
  <1>20. PenaltiesKept
    <2>1. ASSUME NEW e \in Cheque, Penalised(e) PROVE Penalised(e)'
      <3>1. CASE e \in desk[w].cheques
        BY <1>9, <2>1, <3>1 DEF Penalised
      <3>2. CASE e \notin desk[w].cheques
        BY <1>9, <2>1, <3>2 DEF Penalised
      <3> QED BY <3>1, <3>2
    <2> QED BY <2>1 DEF PenaltiesKept
  <1> QED BY <1>20, <1>4, <1>5, <1>7 DEF DeskInv

LEMMA DeskInvKept ==
    ASSUME DeskAssumption, DeskInv, [DeskNext]_deskVars
    PROVE  DeskInv'
  <1>1. ASSUME NEW w \in Clerk, ClassBilling(w) PROVE DeskInv'
    BY <1>1, StartGenerationKeeps, ReadConcessionsKeeps, StartCarryingKeeps,
       FinishJobKeeps, BillPupilKeeps, CarryDuesKeeps DEF ClassBilling
  <1>2. ASSUME NEW w \in Clerk, ChequeDesk(w) PROVE DeskInv'
    BY <1>2, ReadOneChequeKeeps, ReadSlipKeeps, ReadForSlipKeeps, WriteChequeKeeps,
       WriteSlipKeeps, ConfirmSlipKeeps DEF ChequeDesk
  <1>3. ASSUME NEW p \in Pupil,
               \/ ApproveConcession(p) \/ EnrolPupil(p) \/ EnsureVirtualAccount(p)
               \/ \E head \in Head \cup {"all"}, off \in Off : AskConcession(p, head, off)
        PROVE  DeskInv'
    BY <1>3, ApproveConcessionKeeps, EnrolPupilKeeps, EnsureVirtualAccountKeeps,
       AskConcessionKeeps
  <1>4. CASE UNCHANGED deskVars
    <2>1. UNCHANGED <<invoice, demanded, banking, desk>>
      BY <1>4 DEF deskVars, banking
    <2>2. DeskTypes'
      BY <1>4 DEF deskVars, DeskInv, DeskTypes
    <2> QED BY <2>1, <2>2, RestsAtTheDesk DEF DeskInv
  <1>5. CASE BillDesk
    BY <1>1, <1>3, <1>5 DEF BillDesk
  <1>6. CASE BankDesk
    BY <1>2, <1>6, ReceiveChequeKeeps DEF BankDesk
  <1>7. CASE \E w \in Clerk : DropRequest(w)
    BY <1>7, DropRequestKeeps
  <1> QED BY <1>4, <1>5, <1>6, <1>7 DEF DeskNext

\* A cheque changes in four actions only.
LEMMA PenalisedKept ==
    ASSUME DeskInv, \A c \in Cheque : Penalised(c), [DeskNext]_deskVars
    PROVE  (\A c \in Cheque : Penalised(c))'
  <1>1. CASE UNCHANGED cheque
    BY <1>1 DEF Penalised
  <1>2. CASE PenaltiesKept
    BY <1>2 DEF PenaltiesKept
  <1>3. ASSUME NEW w \in Clerk, ClassBilling(w) PROVE UNCHANGED cheque
    BY <1>3 DEF ClassBilling, StartGeneration, ReadConcessions, StartCarrying, FinishJob,
       BillPupil, CarryDues, banking
  <1>4. ASSUME NEW p \in Pupil,
               \/ ApproveConcession(p) \/ EnrolPupil(p) \/ EnsureVirtualAccount(p)
               \/ \E head \in Head \cup {"all"}, off \in Off : AskConcession(p, head, off)
        PROVE  UNCHANGED cheque
    BY <1>4 DEF ApproveConcession, EnrolPupil, EnsureVirtualAccount, AskConcession, banking
  <1>5. ASSUME NEW w \in Clerk, ChequeDesk(w) PROVE UNCHANGED cheque \/ PenaltiesKept
    <2>1. CASE WriteCheque(w) \/ WriteSlip(w) \/ ConfirmSlip(w)
      BY <2>1, WriteChequeKeeps, WriteSlipKeeps, ConfirmSlipKeeps
    <2>2. CASE ~(WriteCheque(w) \/ WriteSlip(w) \/ ConfirmSlip(w))
      BY <1>5, <2>2 DEF ChequeDesk, ReadOneCheque, ReadSlip, ReadForSlip
    <2> QED BY <2>1, <2>2
  <1>6. CASE BillDesk
    BY <1>1, <1>3, <1>4, <1>6 DEF BillDesk
  <1>7. CASE BankDesk
    BY <1>1, <1>2, <1>5, <1>7, ReceiveChequeKeeps DEF BankDesk
  <1>8. CASE \E w \in Clerk : DropRequest(w)
    BY <1>1, <1>8 DEF DropRequest, banking
  <1>9. CASE UNCHANGED deskVars
    BY <1>1, <1>9 DEF deskVars
  <1> QED BY <1>6, <1>7, <1>8, <1>9 DEF DeskNext

LEMMA DeskInvInit ==
    ASSUME DeskInit
    PROVE  DeskInv
  <1>1. NoConcession \in Concession /\ NoCheque \in ChequeRow /\ NoSlip \in SlipRow
    BY DEF Concession, NoCheque, ChequeRow, NoSlip, SlipRow
  <1>2. \A w \in Clerk : desk[w] = NoDesk
    BY DEF DeskInit
  <1>3. DeskTypes
    BY <1>1, NobodyAtTheDesk DEF DeskInit, DeskTypes, NotBilled
  <1>4. BilledOnce
    BY <1>2, NobodyAtTheDesk DEF DeskInit, BilledOnce, At, NotBilled
  <1>5. ASSUME NEW c \in Cheque PROVE ChequeKept(c)
    <2>1. cheque[c] = NoCheque /\ \A d \in Slip : slip[d] = NoSlip
      BY DEF DeskInit
    <2> QED BY <1>2, <2>1, NobodyAtTheDesk DEF ChequeKept, InOneHand, NoCheque, NoSlip
  <1> QED BY <1>3, <1>4, <1>5 DEF DeskInv

\* A pupil is billed at most once for a period, one of the pupils who share a number at
\* most, and whoever a run got past has a bill or is reported as skipped; a cheque's
\* payment is disputed exactly when it was penalised, and where no two requests were
\* at work on it at once it has bounced exactly then, once, and is on one slip
\* (index.ts:444-533, payment-methods.ts:155-181, 269-345).
THEOREM DeskAgreesHolds == DeskSpec => []DeskAgrees
  <1> DEFINE Inv == DeskInv /\ \A c \in Cheque : Penalised(c)
  <1>1. Inv => DeskAgrees
    <2>1. ASSUME Inv PROVE ChequesAgree
      <3>1. \A c \in Cheque : cheque[c].payment = "DISPUTED" <=> cheque[c].penalties > 0
        BY <2>1 DEF Penalised
      <3>2. \A c \in Cheque : cheque[c].status = "BOUNCED" => cheque[c].payment = "DISPUTED"
        BY <2>1 DEF Penalised
      <3>3. \A c \in Cheque \ crossed :
               /\ cheque[c].payment = "DISPUTED" => cheque[c].status = "BOUNCED"
               /\ cheque[c].penalties <= 1
               /\ \A d, e \in Slip : c \in slip[d].counted \cap slip[e].counted => d = e
        BY <2>1 DEF DeskInv, ChequeKept
      <3> QED BY <3>1, <3>2, <3>3 DEF ChequesAgree
    <2> QED BY <2>1 DEF DeskInv, DeskAgrees
  <1>2. DeskInit => Inv
    <2>1. DeskInit => \A c \in Cheque : Penalised(c)
      BY DEF DeskInit, Penalised, NoCheque
    <2> QED BY <2>1, DeskInvInit
  <1>3. Inv /\ [DeskNext]_deskVars => Inv'
    BY DeskInvKept, PenalisedKept, DeskAssumption
  <1> HIDE DEF Inv
  <1> QED BY <1>1, <1>2, <1>3, PTL DEF DeskSpec
=============================================================================
