------------------------------ MODULE MCFeeRace ------------------------------
(* Fee requests beside each other for TLC: payments as transactions, and the *)
(* accountant's desk. FeeDesk keeps its own account of invoices and cheques, *)
(* and its bills and its cheques share no table, so the steps commute: each  *)
(* behaviour follows one of the three.                                       *)
EXTENDS FeeRequests, FeeDesk

CONSTANT MaxBills     \* bound: requests about bills
VARIABLE part

AllInvoices == {Invoice}              \* only "all open dues"
TwoHeads == [x |-> 2, y |-> 1]
OneTail == [p \in Pupil |-> "e"]      \* the pupils' ids end alike

\* Cheques, slips and pupils have their values in common, and so have workers and
\* clerks.
Sym == Permutations(Payment) \cup Permutations(Worker) \cup Permutations(Cheque)

Dropped == \E w \in Clerk : DropRequest(w)

RaceInit ==
    /\ part \in {"payments", "bills", "bank"}
    /\ RInit /\ DeskInit
    /\ part = "bills" \/ enrolled = {}
    /\ owing = enrolled

RaceNext ==
    \/ part = "payments" /\ RNext /\ UNCHANGED <<part, deskVars>>
    \/ part = "bills" /\ (BillDesk \/ Dropped) /\ begun' <= MaxBills /\ UNCHANGED <<part, rvars>>
    \/ part = "bank" /\ (BankDesk \/ Dropped) /\ UNCHANGED <<part, rvars>>

RaceSpec == RaceInit /\ [][RaceNext]_<<part, rvars, deskVars>>
=============================================================================
