------------------------------ MODULE LateFees ------------------------------
(***************************************************************************)
(* Late fees: the pass that fines overdue invoices (applyLateFees, called  *)
(* by the nightly sweep and by the console through runLateFeeApply) and    *)
(* the reversal of a run (reverseLateFeeRun).                              *)
(*                                                                         *)
(* A pass is not a transaction. It reads the overdue invoices, then the    *)
(* references already posted, and then fines one (invoice, rule) pair      *)
(* after the other in three separate writes: the demand, the tag that      *)
(* carries the reference LATE:<rule>:<invoice>, and the status of the      *)
(* fined invoice. Payments arrive all the while.                           *)
(*                                                                         *)
(* A fine is an invoice like any other, due the day it is made: it is      *)
(* itself fined later. Amounts are reduced to nothing, part or all paid.   *)
(***************************************************************************)
EXTENDS Integers, FiniteSets

CONSTANTS
    Dues,         \* the ordinary invoices, 1 .. Dues, all due on day 0
    N,            \* bound: at most N invoices, fines included
    NR,           \* the rules of the branch are 1 .. NR, by minDays
    MinDays,      \* slab of each rule; at least one day
    MaxDays,
    LastDay,      \* bound: the calendar stops here
    Worker,       \* who can run a pass or a reversal: the sweep, the console
    FailPoints,   \* where a pass can throw
    MaxFaults     \* bound: passes that throw

Invoice == 1 .. N
Rule    == 1 .. NR

ASSUME LateFeesAssumption ==
    /\ Dues \in Nat /\ N \in Nat /\ NR \in Nat /\ Dues <= N
    /\ MinDays \in [Rule -> Nat \ {0}] /\ MaxDays \in [Rule -> Nat]
    /\ LastDay \in Nat
    /\ FailPoints \subseteq {"scan", "pick", "tag", "mark"}
    /\ MaxFaults \in Nat

VARIABLES
    inv,       \* Invoice rows; a fine has src and rule
    tag,       \* invoices whose ledger entry is LATE_FEE with the reference
    off,       \* WRITE_OFF entries posted on each invoice
    run,       \* LateFeeSweepRun rows of passes that fined something
    task,      \* what each worker is doing
    day,
    faults

vars  == <<inv, tag, off, run, task, day, faults>>
clock == <<day, faults>>

InvStatus  == {"NONE", "ISSUED", "PARTIALLY_PAID", "PAID", "OVERDUE", "VOID"}
OpenStatus == {"ISSUED", "PARTIALLY_PAID", "OVERDUE"}

Unused == [status |-> "NONE", due |-> 0, paid |-> "none", src |-> 0, rule |-> 0]
NoRun  == [status |-> "NONE", fines |-> {}, details |-> {}]

\* view: what is still to be handled; seen: references known to the pass; made:
\* its fines; new: the fine in hand; on: the run being reversed.
Idle == [pc |-> "idle", view |-> {}, seen |-> {}, made |-> {}, new |-> 0, on |-> 0]

Init ==
    /\ inv = [i \in Invoice |->
                 IF i <= Dues THEN [Unused EXCEPT !.status = "ISSUED"] ELSE Unused]
    /\ tag = {}
    /\ off = [i \in Invoice |-> 0]
    /\ run = [i \in Invoice |-> NoRun]
    /\ task = [w \in Worker |-> Idle]
    /\ day = 0
    /\ faults = 0

IsFine(i)  == inv[i].src # 0
Ref(i)     == <<inv[i].src, inv[i].rule>>
Free(rows) == {i \in Invoice : rows[i].status = "NONE"}
IsFirst(i, set) == i \in set /\ \A j \in set : i <= j

-----------------------------------------------------------------------------
(* The world around: the calendar and the payments of postPayment *)

Tomorrow ==
    /\ day < LastDay
    /\ day' = day + 1
    /\ UNCHANGED <<inv, tag, off, run, task, faults>>

Pay(i, level) ==
    /\ inv[i].status \in OpenStatus
    /\ inv[i].paid # "full"
    /\ level = "part" => inv[i].paid = "none"
    /\ inv' = [inv EXCEPT ![i].paid = level,
                          ![i].status = IF level = "full" THEN "PAID"
                                        ELSE "PARTIALLY_PAID"]
    /\ UNCHANGED <<tag, off, run, task, clock>>

-----------------------------------------------------------------------------
(* applyLateFees *)

InSlab(r, days) == MinDays[r] <= days /\ days <= MaxDays[r]

\* The open invoices past due with something outstanding, per matching slab.
Overdue ==
    {x \in Invoice \X Rule :
        LET row == inv[x[1]]
        IN  /\ row.status \in OpenStatus /\ row.paid # "full"
            /\ row.due < day /\ InSlab(x[2], day - row.due)}

StartPass(w) ==
    /\ task[w] = Idle
    /\ Overdue # {}
    /\ task' = [task EXCEPT ![w] = [Idle EXCEPT !.pc = "scan", !.view = Overdue]]
    /\ UNCHANGED <<inv, tag, off, run, clock>>

\* Mutation of ReadSeen: only references whose fine is still open count.
ReadSeenOpen(w) ==
    /\ task[w].pc = "scan"
    /\ task' = [task EXCEPT ![w].pc = "pick",
                            ![w].seen = {Ref(i) : i \in {j \in tag :
                                             inv[j].status \in OpenStatus}}]
    /\ UNCHANGED <<inv, tag, off, run, clock>>

\* Every LATE_FEE reference of the branch.
ReadSeen(w) ==
    /\ task[w].pc = "scan"
    /\ task' = [task EXCEPT ![w].pc = "pick", ![w].seen = {Ref(i) : i \in tag}]
    /\ UNCHANGED <<inv, tag, off, run, clock>>

\* The pairs are taken by due date, then by slab.
Earliest(view, x) ==
    \A y \in view : \/ inv[x[1]].due < inv[y[1]].due
                    \/ inv[x[1]].due = inv[y[1]].due /\ x[1] < y[1]
                    \/ x[1] = y[1] /\ x[2] <= y[2]

\* Mutation of FinePair: an invoice that has a fine under any rule is skipped.
FinePairOncePerInvoice(w, x, f) ==
    /\ task[w].pc = "pick"
    /\ x \in task[w].view /\ Earliest(task[w].view, x)
    /\ IF x[1] \in {y[1] : y \in task[w].seen}
       THEN /\ f = 1
            /\ task' = [task EXCEPT ![w].view = @ \ {x}]
            /\ UNCHANGED inv
       ELSE /\ IsFirst(f, Free(inv))
            /\ inv' = [inv EXCEPT ![f] = [status |-> "ISSUED", due |-> day,
                          paid |-> "none", src |-> x[1], rule |-> x[2]]]
            /\ task' = [task EXCEPT ![w].pc = "tag", ![w].view = @ \ {x},
                           ![w].seen = @ \cup {x}, ![w].new = f]
    /\ UNCHANGED <<tag, off, run, clock>>

\* A new pair gets its fine: an invoice with a DEMAND entry, in one transaction.
FinePair(w, x, f) ==
    /\ task[w].pc = "pick"
    /\ x \in task[w].view /\ Earliest(task[w].view, x)
    /\ IF x \in task[w].seen
       THEN /\ f = 1
            /\ task' = [task EXCEPT ![w].view = @ \ {x}]
            /\ UNCHANGED inv
       ELSE /\ IsFirst(f, Free(inv))
            /\ inv' = [inv EXCEPT ![f] = [status |-> "ISSUED", due |-> day,
                          paid |-> "none", src |-> x[1], rule |-> x[2]]]
            /\ task' = [task EXCEPT ![w].pc = "tag", ![w].view = @ \ {x},
                           ![w].seen = @ \cup {x}, ![w].new = f]
    /\ UNCHANGED <<tag, off, run, clock>>

TagFine(w) ==
    /\ task[w].pc = "tag"
    /\ tag' = tag \cup {task[w].new}
    /\ task' = [task EXCEPT ![w].pc = "mark", ![w].made = @ \cup {task[w].new}]
    /\ UNCHANGED <<inv, off, run, clock>>

\* The fined invoice becomes OVERDUE, whatever happened to it since the scan.
MarkOverdue(w) ==
    /\ task[w].pc = "mark"
    /\ inv' = [inv EXCEPT ![inv[task[w].new].src].status = "OVERDUE"]
    /\ task' = [task EXCEPT ![w].pc = "pick"]
    /\ UNCHANGED <<tag, off, run, clock>>

-----------------------------------------------------------------------------
(* runLateFeeApply: one audit row per pass. Rows of passes that fined        *)
(* nothing are left out: nothing can be reversed in them.                    *)

Recorded(w, status, fines, details) ==
    /\ IF fines = {} THEN UNCHANGED run
       ELSE \E n \in Invoice :
               /\ IsFirst(n, Free(run))
               /\ run' = [run EXCEPT ![n] = [status |-> status, fines |-> fines,
                                             details |-> details]]
    /\ task' = [task EXCEPT ![w] = Idle]

\* details lists the SOURCE invoices that were fined.
FinishPass(w) ==
    /\ task[w].pc = "pick" /\ task[w].view = {}
    /\ Recorded(w, "SUCCESS", task[w].made, {inv[f].src : f \in task[w].made})
    /\ UNCHANGED <<inv, tag, off, clock>>

FailPass(w) ==
    /\ task[w].pc \in FailPoints
    /\ faults < MaxFaults
    /\ faults' = faults + 1
    /\ Recorded(w, "FAILED", task[w].made, {})
    /\ UNCHANGED <<inv, tag, off, day>>

-----------------------------------------------------------------------------
(* reverseLateFeeRun *)

\* Mutation of FinesOn: only the references of the first rule are matched.
FinesOnFirstRule(details) == {f \in tag : inv[f].src \in details /\ inv[f].rule = 1}

\* Found through the references that end in one of the run's source invoices.
FinesOn(details) == {f \in tag : inv[f].src \in details}

\* Only a SUCCESS run is reversed. The fines are read with what is paid on them.
StartReverse(w, n) ==
    /\ task[w] = Idle
    /\ run[n].status = "SUCCESS"
    /\ task' = [task EXCEPT ![w] =
                  [Idle EXCEPT !.pc = "reverse", !.on = n,
                     !.view = {<<f, inv[f].paid>> : f \in FinesOn(run[n].details)}]]
    /\ UNCHANGED <<inv, tag, off, run, clock>>

\* Unpaid: VOID. Paid in full: a WRITE_OFF entry and VOID. Partly paid: blocked.
ReverseFine(w, x) ==
    /\ task[w].pc = "reverse"
    /\ x \in task[w].view
    /\ inv' = IF x[2] = "part" THEN inv ELSE [inv EXCEPT ![x[1]].status = "VOID"]
    /\ off' = IF x[2] = "full" THEN [off EXCEPT ![x[1]] = @ + 1] ELSE off
    /\ task' = [task EXCEPT ![w].view = @ \ {x}]
    /\ UNCHANGED <<tag, run, clock>>

FinishReverse(w) ==
    /\ task[w].pc = "reverse" /\ task[w].view = {}
    /\ run' = [run EXCEPT ![task[w].on].status = "REVERSED"]
    /\ task' = [task EXCEPT ![w] = Idle]
    /\ UNCHANGED <<inv, tag, off, clock>>
-----------------------------------------------------------------------------
Step(w) ==
    \/ ReadSeen(w) \/ TagFine(w) \/ MarkOverdue(w) \/ FinishPass(w)
    \/ \E x \in Invoice \X Rule, f \in Invoice : FinePair(w, x, f)
    \/ \E x \in Invoice \X {"none", "part", "full"} : ReverseFine(w, x)
    \/ FinishReverse(w)

Next ==
    \/ Tomorrow
    \/ \E i \in Invoice, level \in {"part", "full"} : Pay(i, level)
    \/ \E w \in Worker :
          \/ StartPass(w) \/ Step(w) \/ FailPass(w)
          \/ \E n \in Invoice : StartReverse(w, n)

Spec == Init /\ [][Next]_vars

\* The sweep comes back every day, and a started pass or reversal runs on.
Fairness == \A w \in Worker : WF_vars(Step(w)) /\ WF_vars(StartPass(w))

FairSpec == Spec /\ Fairness
-----------------------------------------------------------------------------
(* Properties *)

\* "One LATE_FEE demand per (overdue invoice x rule)", however often passes run,
\* fail, and follow one another over the days.
OneFinePerPair ==
    \A f, g \in Invoice : IsFine(f) /\ Ref(f) = Ref(g) => f = g

\* The reversals, finished or under way, that void the fines of f's invoice.
Reversals(f) ==
    {n \in Invoice :
        /\ inv[f].src \in run[n].details
        /\ \/ run[n].status = "REVERSED"
           \/ \E w \in Worker : task[w].pc = "reverse" /\ task[w].on = n}

\* A reversal undoes its run once: none of the run's fines is left due and
\* untouched (each was voided, or somebody had paid on it), and no fine is
\* written off more often than reversals met its invoice.
ReversedRunIsUndone ==
    /\ \A n \in Invoice : run[n].status = "REVERSED" =>
          \A f \in run[n].fines : inv[f].status = "VOID" \/ inv[f].paid # "none"
    /\ \A f \in Invoice : off[f] <= Cardinality(Reversals(f))

\* An invoice that stays overdue in an open-ended slab is fined in the end.
OpenEnded(r) == MaxDays[r] >= LastDay

OverdueIsFined ==
    \A i \in Invoice, r \in Rule :
        OpenEnded(r) /\ <<i, r>> \in Overdue
            ~> \/ \E f \in Invoice : IsFine(f) /\ Ref(f) = <<i, r>>
               \/ inv[i].paid = "full" \/ inv[i].status = "VOID"
=============================================================================
