---- MODULE MCFeeRequests ----
(* Small instances of FeeRequests for TLC. *)
EXTENDS FeeRequests

AllInvoices == {Invoice}              \* only "all open dues"

Sym == Permutations(Payment) \cup Permutations(Student) \cup Permutations(Worker)
==============================
