---------------------------- MODULE OfficeProofs -----------------------------
(***************************************************************************)
(* What a school's office does over a year, for any numbers of invoices,   *)
(* pupils, years, classes and requests: the late-fee passes (LateFees), the *)
(* enrolments of a cohort (Enrolment), the timetable and the library of    *)
(* the academic-service (Academics), and the engine that proposes          *)
(* timetables and cover (TimetableEngine).                                 *)
(*                                                                         *)
(* Two hypotheses mark where the code of the passes stops protecting its   *)
(* claim: there is one worker (two passes at once both read the references *)
(* before either posts), and no pass throws between a fine and its tag.    *)
(* The claims of the next two say themselves, by the ghosts of their       *)
(* modules, which requests must not have crossed.                          *)
(* The engine's claim needs two invariants. One ties the search to the     *)
(* board: the stack's slots are a board that breaks no rule, and every     *)
(* mirror is a count over it. The other is about what the search has not   *)
(* done: a legal board that agrees with the stack is still to come, until  *)
(* a slice of the budget is given up.                                      *)
(***************************************************************************)
EXTENDS LateFees, Enrolment, Academics, TimetableEngine, SumProofs, FiniteSetTheorems,
        SequenceTheorems, TLAPS

-----------------------------------------------------------------------------
(* The late-fee passes (LateFees) *)

OneAtATime == /\ \A v, w \in Worker : v = w
              /\ "tag" \notin FailPoints

Paid      == {"none", "part", "full"}
InPass    == {"scan", "pick", "tag", "mark"}
InvoiceRow == [status : InvStatus, due : Nat, paid : Paid, src : 0 .. N, rule : 0 .. NR]
RunRow    == [status : {"NONE", "SUCCESS", "FAILED", "REVERSED"},
              fines : SUBSET Invoice, details : SUBSET (0 .. N)]
Task      == [pc : InPass \cup {"idle", "reverse"},
              view : SUBSET (Invoice \X (Rule \cup Paid)),
              seen : SUBSET ((0 .. N) \X (0 .. NR)),
              made : SUBSET Invoice, new : 0 .. N, on : 0 .. N]

TypeOK ==
    /\ inv \in [Invoice -> InvoiceRow]
    /\ tag \in SUBSET Invoice
    /\ off \in [Invoice -> Nat]
    /\ run \in [Invoice -> RunRow]
    /\ task \in [Worker -> Task]
    /\ day \in Nat /\ faults \in Nat

\* A row that is not there is blank; a fine's source is there.
RowsOK ==
    /\ \A i \in Invoice : inv[i].status = "NONE" =>
          ~IsFine(i) /\ inv[i].paid = "none" /\ off[i] = 0
    /\ \A i \in Invoice : IsFine(i) => inv[inv[i].src].status # "NONE"
    /\ \A i \in tag : IsFine(i)

\* What a pass holds is still there and not voided; it knows every fine.
PassOK(w) ==
    /\ task[w].made \subseteq tag
    /\ task[w].pc \in InPass =>
          \A x \in task[w].view : /\ x \in Invoice \X Rule
                                  /\ inv[x[1]].status \notin {"NONE", "VOID"}
    /\ task[w].pc \in {"pick", "tag", "mark"} =>
          \A i \in Invoice : IsFine(i) => Ref(i) \in task[w].seen
    /\ task[w].pc \in {"tag", "mark"} =>
          /\ task[w].new \in Invoice /\ IsFine(task[w].new)
          /\ inv[inv[task[w].new].src].status # "VOID"

\* Every fine carries its reference, save the one in the hands of the pass.
Tagged == \A i \in Invoice : IsFine(i) =>
             i \in tag \/ \E w \in Worker : task[w].pc = "tag" /\ task[w].new = i

\* A run that can be reversed lists the sources of its fines.
RunsOK == \A n \in Invoice :
    /\ run[n].fines \subseteq tag
    /\ run[n].status \in {"SUCCESS", "REVERSED"} =>
          \A f \in run[n].fines : inv[f].src \in run[n].details

Undone(f) == inv[f].status = "VOID" \/ inv[f].paid # "none"

\* A reversal under way has the fines of its run in view, or has undone them.
ReversalOK(w) == task[w].pc = "reverse" =>
    /\ task[w].on \in Invoice /\ run[task[w].on].status = "SUCCESS"
    /\ \A x \in task[w].view :
          /\ x[1] \in tag /\ inv[x[1]].src \in run[task[w].on].details
          /\ x[2] \in Paid /\ (x[2] # "none" => inv[x[1]].paid # "none")
          /\ \A y \in task[w].view : x[1] = y[1] => x = y
    /\ \A f \in run[task[w].on].fines : Undone(f) \/ <<f, "none">> \in task[w].view

\* One write-off per reversal, counting the one still to come.
ToCome(f) == IF \E w \in Worker : task[w].pc = "reverse" /\ <<f, "full">> \in task[w].view
             THEN 1 ELSE 0

Counted == \A f \in Invoice : off[f] + ToCome(f) <= Cardinality(Reversals(f))

\* What was reversed is undone.
ReversedIsUndone == \A n \in Invoice : run[n].status = "REVERSED" =>
                       \A f \in run[n].fines : Undone(f)

IInv ==
    /\ TypeOK /\ RowsOK /\ Tagged /\ RunsOK
    /\ \A w \in Worker : PassOK(w)
    /\ \A w \in Worker : ReversalOK(w)
    /\ ReversedIsUndone /\ Counted /\ OneFinePerPair
-----------------------------------------------------------------------------
(* Types *)

LEMMA ConstantTypes ==
    /\ N \in Nat /\ NR \in Nat /\ Dues \in Nat /\ Dues <= N
    /\ Invoice = 1 .. N /\ Rule = 1 .. NR
    /\ Invoice \subseteq 0 .. N /\ Rule \subseteq 0 .. NR
BY LateFeesAssumption DEF LateFeesAssumption, Invoice, Rule

LEMMA IdleType ==
    /\ Idle \in Task /\ Idle.pc = "idle" /\ Idle.view = {} /\ Idle.made = {}
    /\ Idle.new = 0 /\ Idle.on = 0
BY ConstantTypes DEF Idle, Task

LEMMA RowType ==
    /\ \A r \in InvoiceRow, s \in InvStatus : [r EXCEPT !.status = s] \in InvoiceRow
    /\ \A r \in InvoiceRow, p \in Paid : [r EXCEPT !.paid = p] \in InvoiceRow
BY DEF InvoiceRow

LEMMA SourceType ==
    ASSUME TypeOK, NEW j \in Invoice, IsFine(j)
    PROVE  inv[j].src \in Invoice
<1>1. inv[j].src \in 0 .. N /\ inv[j].src # 0
  BY DEF TypeOK, InvoiceRow, IsFine
<1> QED BY <1>1, LateFeesAssumption DEF Invoice, LateFeesAssumption

LEMMA InitType == Init => TypeOK
<1> SUFFICES ASSUME Init PROVE TypeOK
  OBVIOUS
<1>1. Unused \in InvoiceRow /\ [Unused EXCEPT !.status = "ISSUED"] \in InvoiceRow
  BY ConstantTypes DEF Unused, InvoiceRow, InvStatus, Paid
<1>2. inv \in [Invoice -> InvoiceRow]
  BY <1>1 DEF Init
<1>3. NoRun \in RunRow
  BY DEF NoRun, RunRow
<1>4. run \in [Invoice -> RunRow]
  BY <1>3 DEF Init
<1>5. task \in [Worker -> Task]
  BY IdleType DEF Init
<1> QED BY <1>2, <1>4, <1>5 DEF Init, TypeOK

LEMMA RecordedType ==
    ASSUME TypeOK, NEW w \in Worker, NEW st \in {"SUCCESS", "FAILED"},
           NEW fines \in SUBSET Invoice, NEW details \in SUBSET (0 .. N),
           Recorded(w, st, fines, details)
    PROVE  run' \in [Invoice -> RunRow] /\ task' \in [Worker -> Task]
<1>1. [status |-> st, fines |-> fines, details |-> details] \in RunRow
  BY DEF RunRow
<1> QED BY <1>1, IdleType DEF Recorded, TypeOK

LEMMA StepType ==
    ASSUME TypeOK, [Next]_vars,
           \A w \in Worker : task[w].pc = "tag" => task[w].new \in Invoice
    PROVE  TypeOK'

<1> USE DEF TypeOK, clock
<1>1. CASE Tomorrow \/ UNCHANGED vars
  BY <1>1 DEF Tomorrow, vars
<1>2. ASSUME NEW i \in Invoice, NEW level \in {"part", "full"}, Pay(i, level) PROVE TypeOK'
  <2> DEFINE st == IF level = "full" THEN "PAID" ELSE "PARTIALLY_PAID"
  <2>1. level \in Paid /\ st \in InvStatus
    BY DEF Paid, InvStatus
  <2>2. [[inv[i] EXCEPT !.paid = level] EXCEPT !.status = st] \in InvoiceRow
    BY <2>1, RowType
  <2>3. inv' = [inv EXCEPT ![i] = [[inv[i] EXCEPT !.paid = level] EXCEPT !.status = st]]
    BY <1>2 DEF Pay
  <2> QED BY <1>2, <2>2, <2>3 DEF Pay
<1>3. ASSUME NEW w \in Worker, StartPass(w) PROVE TypeOK'
  <2>1. [Idle EXCEPT !.pc = "scan", !.view = Overdue] \in Task
    BY IdleType DEF Task, Overdue, InPass
  <2> QED BY <1>3, <2>1 DEF StartPass
<1>4. ASSUME NEW w \in Worker, ReadSeen(w) PROVE TypeOK'
  <2>1. {Ref(i) : i \in tag} \in SUBSET ((0 .. N) \X (0 .. NR))
    BY DEF Ref, InvoiceRow
  <2>2. [task[w] EXCEPT !.pc = "pick", !.seen = {Ref(i) : i \in tag}] \in Task
    BY <2>1 DEF Task, InPass
  <2>3. task' = [task EXCEPT ![w] = [task[w] EXCEPT !.pc = "pick", !.seen = {Ref(i) : i \in tag}]]
    BY <1>4 DEF ReadSeen
  <2> QED BY <1>4, <2>2, <2>3 DEF ReadSeen
<1>5. ASSUME NEW w \in Worker, TagFine(w) PROVE TypeOK'
  <2>0. task[w].new \in Invoice
    BY <1>5 DEF TagFine
  <2> DEFINE t == [[task[w] EXCEPT !.pc = "mark"] EXCEPT !.made = @ \cup {task[w].new}]
  <2>1. t \in Task
    BY <2>0 DEF Task, InPass
  <2>2. task' = [task EXCEPT ![w] = t]
    BY <1>5 DEF TagFine
  <2> QED BY <1>5, <2>0, <2>1, <2>2 DEF TagFine
<1>6. ASSUME NEW w \in Worker, MarkOverdue(w) PROVE TypeOK'
  <2> DEFINE i == inv[task[w].new].src
  <2>1. inv' \in [Invoice -> InvoiceRow]
    <3>1. i \in Invoice => [inv[i] EXCEPT !.status = "OVERDUE"] \in InvoiceRow
      BY RowType DEF InvStatus
    <3>2. inv' = [inv EXCEPT ![i] = [inv[i] EXCEPT !.status = "OVERDUE"]]
      BY <1>6 DEF MarkOverdue
    <3> HIDE DEF i
    <3> QED BY <3>1, <3>2
  <2>2. [task[w] EXCEPT !.pc = "pick"] \in Task
    BY DEF Task, InPass
  <2>3. task' = [task EXCEPT ![w] = [task[w] EXCEPT !.pc = "pick"]]
    BY <1>6 DEF MarkOverdue
  <2> QED BY <1>6, <2>1, <2>2, <2>3 DEF MarkOverdue
<1>7. ASSUME NEW w \in Worker, NEW x \in Invoice \X Rule, NEW f \in Invoice, FinePair(w, x, f)
      PROVE TypeOK'
  <2>1. CASE x \in task[w].seen
    <3>1. [task[w] EXCEPT !.view = @ \ {x}] \in Task
      BY DEF Task
    <3>2. task' = [task EXCEPT ![w] = [task[w] EXCEPT !.view = @ \ {x}]]
      BY <1>7, <2>1 DEF FinePair
    <3> QED BY <1>7, <2>1, <3>1, <3>2 DEF FinePair
  <2>2. CASE x \notin task[w].seen
    <3> DEFINE t == [task[w] EXCEPT !.pc = "tag", !.view = @ \ {x}, !.seen = @ \cup {x}, !.new = f]
               fine == [status |-> "ISSUED", due |-> day, paid |-> "none", src |-> x[1],
                       rule |-> x[2]]
    <3>1. t \in Task
      <4>1. x \in (0 .. N) \X (0 .. NR) /\ f \in 0 .. N
        BY ConstantTypes
      <4>2. /\ task[w] \in Task /\ "tag" \in InPass
            /\ task[w].view \ {x} \in SUBSET (Invoice \X (Rule \cup Paid))
            /\ task[w].seen \cup {x} \in SUBSET ((0 .. N) \X (0 .. NR))
        BY <4>1 DEF Task, InPass
      <4> QED BY <4>1, <4>2 DEF Task
    <3>2. fine \in InvoiceRow
      BY ConstantTypes DEF InvoiceRow, InvStatus, Paid
    <3>3. task' = [task EXCEPT ![w] = t] /\ inv' = [inv EXCEPT ![f] = fine]
      BY <1>7, <2>2 DEF FinePair
    <3> QED BY <1>7, <3>1, <3>2, <3>3 DEF FinePair
  <2> QED BY <2>1, <2>2
<1>8. ASSUME NEW w \in Worker, FinishPass(w) \/ FailPass(w) PROVE TypeOK'
  <2>1. task[w].made \in SUBSET Invoice
    BY DEF Task
  <2>2. {inv[f].src : f \in task[w].made} \in SUBSET (0 .. N)
    BY <2>1 DEF InvoiceRow
  <2>3. run' \in [Invoice -> RunRow] /\ task' \in [Worker -> Task]
    <3>1. CASE FinishPass(w)
      BY <3>1, <2>1, <2>2, RecordedType DEF FinishPass
    <3>2. CASE FailPass(w)
      <4>1. Recorded(w, "FAILED", task[w].made, {}) /\ {} \in SUBSET (0 .. N)
        BY <3>2 DEF FailPass
      <4> QED BY <4>1, <2>1, RecordedType
    <3> QED BY <1>8, <3>1, <3>2
  <2> QED BY <1>8, <2>3 DEF FinishPass, FailPass
<1>9. ASSUME NEW w \in Worker, NEW n \in Invoice, StartReverse(w, n) PROVE TypeOK'
  <2> DEFINE view == {<<f, inv[f].paid>> : f \in FinesOn(run[n].details)}
             t    == [Idle EXCEPT !.pc = "reverse", !.on = n, !.view = view]
  <2>1. view \in SUBSET (Invoice \X (Rule \cup Paid))
    BY DEF FinesOn, InvoiceRow
  <2> HIDE DEF view
  <2>2. t \in Task
    BY <2>1, IdleType, ConstantTypes DEF Task, InPass
  <2>3. task' = [task EXCEPT ![w] = t]
    BY <1>9 DEF StartReverse, view
  <2> QED BY <1>9, <2>2, <2>3 DEF StartReverse
<1>10. ASSUME NEW w \in Worker, NEW x \in Invoice \X {"none", "part", "full"}, ReverseFine(w, x)
       PROVE TypeOK'
  <2>1. inv' \in [Invoice -> InvoiceRow]
    <3>1. x[1] \in Invoice /\ [inv[x[1]] EXCEPT !.status = "VOID"] \in InvoiceRow
      BY RowType DEF InvStatus
    <3>2. inv' = inv \/ inv' = [inv EXCEPT ![x[1]] = [inv[x[1]] EXCEPT !.status = "VOID"]]
      BY <1>10 DEF ReverseFine
    <3> QED BY <3>1, <3>2
  <2>2. off' \in [Invoice -> Nat]
    BY <1>10 DEF ReverseFine
  <2>3. [task[w] EXCEPT !.view = @ \ {x}] \in Task
    BY DEF Task
  <2>4. task' = [task EXCEPT ![w] = [task[w] EXCEPT !.view = @ \ {x}]]
    BY <1>10 DEF ReverseFine
  <2> QED BY <1>10, <2>1, <2>2, <2>3, <2>4 DEF ReverseFine
<1>11. ASSUME NEW w \in Worker, FinishReverse(w) PROVE TypeOK'
  <2>1. run' \in [Invoice -> RunRow]
    <3> DEFINE n == task[w].on
    <3>1. n \in Invoice => [run[n] EXCEPT !.status = "REVERSED"] \in RunRow
      BY DEF RunRow
    <3>2. run' = [run EXCEPT ![n] = [run[n] EXCEPT !.status = "REVERSED"]]
      BY <1>11 DEF FinishReverse
    <3> HIDE DEF n
    <3> QED BY <3>1, <3>2
  <2> QED BY <1>11, <2>1, IdleType DEF FinishReverse
<1> QED
  BY <1>1, <1>2, <1>3, <1>4, <1>5, <1>6, <1>7, <1>8, <1>9, <1>10, <1>11 DEF Next, Step
-----------------------------------------------------------------------------
(* The invariant, action by action. With one worker, a worker that is not
   reversing means that nobody is. *)

NoReversal == \A w \in Worker : task[w].pc # "reverse"

\* Steps that leave the fines, the write-offs and the reversals alone.
LEMMA CountedFrame ==
    ASSUME Counted, off' = off,
           \A f \in Invoice : Reversals(f)' = Reversals(f) /\ ToCome(f)' = ToCome(f)
    PROVE  Counted'
BY DEF Counted

LEMMA NoneToCome ==
    ASSUME NoReversal, NEW f \in Invoice
    PROVE  /\ ToCome(f) = 0
           /\ Reversals(f) = {n \in Invoice : inv[f].src \in run[n].details
                                               /\ run[n].status = "REVERSED"}
BY DEF NoReversal, ToCome, Reversals

\* Without a reversal before or after, sources and reversed runs say it all.
LEMMA CountedOutside ==
    ASSUME Counted, NoReversal, NoReversal', off' = off,
           \A f \in Invoice : inv'[f].src = inv[f].src \/ off[f] = 0,
           \A n \in Invoice : \/ run'[n] = run[n]
                              \/ run'[n].status # "REVERSED" /\ run[n].status # "REVERSED",
           TypeOK
    PROVE  Counted'
<1> SUFFICES ASSUME NEW f \in Invoice
             PROVE  off[f] + ToCome(f)' <= Cardinality(Reversals(f)')
  BY DEF Counted
<1>1. /\ ToCome(f)' = 0
      /\ Reversals(f)' = {n \in Invoice : inv'[f].src \in run'[n].details
                                          /\ run'[n].status = "REVERSED"}
  BY DEF NoReversal, ToCome, Reversals
<1>2. CASE inv'[f].src = inv[f].src
  <2>1. Reversals(f)' = Reversals(f)
    BY <1>1, <1>2, NoneToCome
  <2> QED BY <1>1, <2>1, NoneToCome DEF Counted
<1>3. CASE off[f] = 0
  <2>1. IsFiniteSet(Invoice)
    BY ConstantTypes, FS_Interval
  <2>2. Cardinality(Reversals(f)') \in Nat
    BY <1>1, <2>1, FS_Subset, FS_CardinalityType
  <2> QED BY <1>1, <1>3, <2>2
<1> QED BY <1>2, <1>3

\* Steps that change nothing but the payment and status of invoices that are
\* there, and bring none of them to VOID or back from it.
Settling ==
    /\ \A j \in Invoice :
          /\ inv'[j].src = inv[j].src /\ inv'[j].rule = inv[j].rule
          /\ inv[j].paid # "none" => inv'[j].paid # "none"
          /\ inv[j].status \in {"NONE", "VOID"} => inv'[j] = inv[j]
          /\ inv'[j].status \in {"NONE", "VOID"} => inv'[j] = inv[j]
    /\ UNCHANGED <<tag, off, run>>

LEMMA SettlingStep ==
    ASSUME IInv, TypeOK', Settling
    PROVE  /\ RowsOK' /\ RunsOK' /\ ReversedIsUndone' /\ OneFinePerPair'
           /\ \A j \in Invoice : (IsFine(j)' <=> IsFine(j)) /\ Ref(j)' = Ref(j)
           /\ \A j \in Invoice : Undone(j) => Undone(j)'
<1>1. \A j \in Invoice : (IsFine(j)' <=> IsFine(j)) /\ Ref(j)' = Ref(j)
  BY DEF Settling, IsFine, Ref
<1>2. \A j \in Invoice : Undone(j) => Undone(j)'
  BY DEF Settling, Undone
<1>3. \A j \in Invoice : IsFine(j) => inv[j].src \in Invoice
  BY SourceType DEF IInv
<1>4. RowsOK'
  <2>1. ASSUME NEW j \in Invoice, inv'[j].status = "NONE"
        PROVE  ~IsFine(j)' /\ inv'[j].paid = "none" /\ off'[j] = 0
    BY <1>1, <2>1 DEF IInv, RowsOK, Settling
  <2>2. ASSUME NEW j \in Invoice, IsFine(j)'
        PROVE  inv'[inv'[j].src].status # "NONE"
    BY <1>1, <1>3, <2>2 DEF IInv, RowsOK, Settling
  <2> QED BY <1>1, <2>1, <2>2 DEF IInv, RowsOK, Settling, TypeOK
<1>5. RunsOK'
  BY <1>1 DEF IInv, RunsOK, Settling, TypeOK, RunRow
<1>6. ReversedIsUndone'
  BY <1>2 DEF IInv, ReversedIsUndone, Settling, TypeOK, RunRow
<1>7. OneFinePerPair'
  BY <1>1 DEF IInv, OneFinePerPair
<1> QED BY <1>1, <1>2, <1>4, <1>5, <1>6, <1>7

LEMMA PayStep ==
    ASSUME IInv, TypeOK', NEW i \in Invoice, NEW level \in {"part", "full"}, Pay(i, level)
    PROVE  IInv'
<1>1. Settling /\ task' = task
  BY DEF IInv, Pay, TypeOK, InvoiceRow, OpenStatus, Settling
<1>2. Tagged'
  BY <1>1, SettlingStep DEF IInv, Tagged, Settling
<1>3. ASSUME NEW w \in Worker PROVE PassOK(w)'
  <2>1. task'[w] = task[w] /\ tag' = tag
    BY <1>1 DEF Settling
  <2>2. ASSUME task[w].pc \in InPass, NEW x \in task[w].view
        PROVE  x \in Invoice \X Rule /\ inv'[x[1]].status \notin {"NONE", "VOID"}
    <3>1. x \in Invoice \X Rule /\ x[1] \in Invoice /\ inv[x[1]].status \notin {"NONE", "VOID"}
      BY <2>2 DEF IInv, PassOK
    <3> QED BY <1>1, <3>1 DEF Settling
  <2>3. ASSUME task[w].pc \in {"tag", "mark"}
        PROVE  /\ task[w].new \in Invoice /\ IsFine(task[w].new)'
               /\ inv'[inv'[task[w].new].src].status # "VOID"
    <3>1. /\ task[w].new \in Invoice /\ IsFine(task[w].new)
          /\ inv[inv[task[w].new].src].status # "VOID"
      BY <2>3 DEF IInv, PassOK
    <3>2. inv[task[w].new].src \in Invoice
      BY <3>1, SourceType DEF IInv
    <3> QED BY <1>1, <3>1, <3>2, SettlingStep DEF Settling
  <2>4. task[w].pc \in {"pick", "tag", "mark"} =>
           \A j \in Invoice : IsFine(j)' => Ref(j)' \in task[w].seen
    BY <1>1, SettlingStep DEF IInv, PassOK
  <2> QED BY <2>1, <2>2, <2>3, <2>4 DEF IInv, PassOK
<1>4. ASSUME NEW w \in Worker PROVE ReversalOK(w)'
  BY <1>1, SettlingStep DEF IInv, ReversalOK, Settling, TypeOK, RunRow
<1>5. Counted'
  <2>1. \A f \in Invoice : Reversals(f)' = Reversals(f) /\ ToCome(f)' = ToCome(f)
    BY <1>1 DEF Reversals, ToCome, Settling
  <2> QED BY <1>1, <2>1, CountedFrame DEF IInv, Settling
<1> QED BY <1>1, <1>2, <1>3, <1>4, <1>5, SettlingStep DEF IInv

LEMMA MarkOverdueStep ==
    ASSUME OneAtATime, IInv, TypeOK', NEW w \in Worker, MarkOverdue(w)
    PROVE  IInv'
<1> DEFINE i == inv[task[w].new].src
<1>1. i \in Invoice /\ inv[i].status \notin {"NONE", "VOID"}
  <2>1. /\ task[w].new \in Invoice /\ IsFine(task[w].new)
        /\ inv[i].status # "VOID"
    BY DEF IInv, MarkOverdue, PassOK
  <2>2. i \in Invoice
    BY <2>1, SourceType DEF IInv
  <2> QED BY <2>1, <2>2 DEF IInv, RowsOK
<1>2. inv' = [inv EXCEPT ![i] = [inv[i] EXCEPT !.status = "OVERDUE"]]
  BY DEF MarkOverdue
<1>3. Settling
  <2> HIDE DEF i
  <2>1. /\ inv'[i] = [inv[i] EXCEPT !.status = "OVERDUE"]
        /\ \A j \in Invoice \ {i} : inv'[j] = inv[j]
    BY <1>1, <1>2 DEF IInv, TypeOK
  <2>2. /\ inv'[i].src = inv[i].src /\ inv'[i].rule = inv[i].rule
        /\ inv'[i].paid = inv[i].paid /\ inv'[i].status = "OVERDUE"
    BY <1>1, <2>1 DEF IInv, TypeOK, InvoiceRow
  <2> QED BY <1>1, <2>1, <2>2 DEF Settling, MarkOverdue
<1>4. /\ task' = [task EXCEPT ![w] = [task[w] EXCEPT !.pc = "pick"]]
      /\ task[w].pc = "mark" /\ \A v \in Worker : v = w
  BY DEF MarkOverdue, OneAtATime
<1>5. /\ task'[w].pc = "pick" /\ task'[w].view = task[w].view /\ task'[w].seen = task[w].seen
      /\ task'[w].made = task[w].made
  BY <1>4 DEF IInv, TypeOK, Task
<1>6. Tagged'
  BY <1>3, <1>4, SettlingStep DEF IInv, Tagged, Settling
<1>7. PassOK(w)'
  <2>1. \A x \in task[w].view : x \in Invoice \X Rule /\ inv[x[1]].status \notin {"NONE", "VOID"}
    BY <1>4 DEF IInv, PassOK, InPass
  <2>2. \A x \in task[w].view : inv'[x[1]].status \notin {"NONE", "VOID"}
    BY <1>3, <2>1 DEF Settling
  <2>3. \A j \in Invoice : IsFine(j)' => Ref(j)' \in task[w].seen
    BY <1>3, <1>4, SettlingStep DEF IInv, PassOK
  <2> QED BY <1>3, <1>5, <2>1, <2>2, <2>3 DEF PassOK, IInv, Settling
<1>8. ReversalOK(w)'
  BY <1>5 DEF ReversalOK
<1>9. Counted'
  <2>1. NoReversal /\ NoReversal'
    BY <1>4, <1>5 DEF NoReversal
  <2> QED BY <1>3, <2>1, CountedOutside DEF Settling, IInv
<1> QED BY <1>3, <1>4, <1>6, <1>7, <1>8, <1>9, SettlingStep DEF IInv

\* Steps that only move the worker on.
LEMMA StartPassStep ==
    ASSUME OneAtATime, IInv, TypeOK', NEW w \in Worker, StartPass(w) \/ ReadSeen(w)
    PROVE  IInv'
<1>1. Settling /\ inv' = inv /\ \A v \in Worker : v = w
  BY DEF StartPass, ReadSeen, Settling, OneAtATime
<1>t. /\ task[w] \in Task
      /\ StartPass(w) => task'[w] = [Idle EXCEPT !.pc = "scan", !.view = Overdue]
      /\ ReadSeen(w) => task'[w] = [task[w] EXCEPT !.pc = "pick", !.seen = {Ref(i) : i \in tag}]
  BY DEF IInv, TypeOK, StartPass, ReadSeen
<1>2. /\ task[w].pc \in {"idle", "scan"}
      /\ task'[w].pc \in {"scan", "pick"} /\ task'[w].made = task[w].made
  <2>1. CASE StartPass(w)
    <3>1. task[w] = Idle
      BY <2>1 DEF StartPass
    <3>2. task'[w].pc = "scan" /\ task'[w].made = Idle.made
      BY <2>1, <1>t, IdleType DEF Task
    <3> QED BY <3>1, <3>2, IdleType
  <2>2. CASE ReadSeen(w)
    <3>1. task[w].pc = "scan"
      BY <2>2 DEF ReadSeen
    <3>2. task'[w].pc = "pick" /\ task'[w].made = task[w].made
      BY <2>2, <1>t DEF Task
    <3> QED BY <3>1, <3>2
  <2> QED BY <2>1, <2>2
<1>3. Tagged /\ Tagged'
  BY <1>1, <1>2 DEF IInv, Tagged, Settling, IsFine
<1>4. PassOK(w)'
  <2>1. \A x \in task'[w].view : x \in Invoice \X Rule /\ inv[x[1]].status \notin {"NONE", "VOID"}
    <3>1. CASE StartPass(w)
      <4>1. task'[w].view = Overdue
        BY <3>1, <1>t, IdleType DEF Task
      <4> QED BY <4>1 DEF Overdue, OpenStatus
    <3>2. CASE ReadSeen(w)
      <4>1. task[w].pc = "scan"
        BY <3>2 DEF ReadSeen
      <4>2. task'[w].view = task[w].view
        BY <3>2, <1>t DEF Task
      <4> QED BY <4>1, <4>2 DEF IInv, PassOK, InPass
    <3> QED BY <3>1, <3>2
  <2>2. task'[w].pc = "pick" => \A i \in Invoice : IsFine(i) => Ref(i) \in task'[w].seen
    <3>1. CASE ReadSeen(w)
      <4>1. task'[w].seen = {Ref(i) : i \in tag}
        BY <3>1, <1>t DEF Task
      <4>2. \A i \in Invoice : IsFine(i) => i \in tag
        BY <1>1, <1>2 DEF IInv, Tagged
      <4> QED BY <4>1, <4>2
    <3>2. CASE StartPass(w)
      BY <3>2, <1>t, IdleType DEF Task
    <3> QED BY <3>1, <3>2
  <2>3. task[w].made \subseteq tag'
    BY <1>1 DEF IInv, PassOK, Settling
  <2> QED BY <1>1, <1>2, <2>1, <2>2, <2>3, SettlingStep DEF PassOK
<1>5. ReversalOK(w)'
  BY <1>2 DEF ReversalOK
<1>6. Counted'
  <2>1. NoReversal /\ NoReversal'
    BY <1>1, <1>2 DEF NoReversal
  <2> QED BY <1>1, <2>1, CountedOutside DEF Settling, IInv
<1> QED BY <1>1, <1>3, <1>4, <1>5, <1>6, SettlingStep DEF IInv

LEMMA FinePairStep ==
    ASSUME OneAtATime, IInv, TypeOK', NEW w \in Worker, NEW x \in Invoice \X Rule,
           NEW f \in Invoice, FinePair(w, x, f)
    PROVE  IInv'
<1>1. /\ task[w] \in Task /\ task[w].pc = "pick" /\ x \in task[w].view
      /\ tag' = tag /\ off' = off /\ run' = run /\ \A v \in Worker : v = w
  BY DEF FinePair, OneAtATime, IInv, TypeOK
<1>2. \A i \in Invoice : IsFine(i) => i \in tag /\ Ref(i) \in task[w].seen
  BY <1>1 DEF IInv, Tagged, PassOK
<1>3. CASE x \in task[w].seen
  <2>1. task'[w] = [task[w] EXCEPT !.view = @ \ {x}] /\ inv' = inv
    BY <1>3 DEF FinePair, IInv, TypeOK
  <2>2. /\ task'[w].pc = "pick" /\ task'[w].view = task[w].view \ {x}
        /\ task'[w].seen = task[w].seen /\ task'[w].made = task[w].made
    BY <1>1, <2>1 DEF Task
  <2>3. Settling
    BY <1>1, <2>1 DEF Settling
  <2>4. Tagged'
    BY <1>1, <1>2, <2>1 DEF Tagged, IsFine
  <2>5. PassOK(w)'
    BY <1>1, <1>2, <2>1, <2>2 DEF IInv, PassOK, InPass, IsFine, Ref
  <2>6. ReversalOK(w)'
    BY <2>2 DEF ReversalOK
  <2>7. Counted'
    <3>1. NoReversal /\ NoReversal'
      BY <1>1, <2>2 DEF NoReversal
    <3> QED BY <2>3, <3>1, CountedOutside DEF Settling, IInv
  <2> QED BY <1>1, <2>3, <2>4, <2>5, <2>6, <2>7, SettlingStep DEF IInv
<1>4. CASE x \notin task[w].seen
  <2>1. /\ f \in Free(inv)
        /\ inv' = [inv EXCEPT ![f] = [status |-> "ISSUED", due |-> day, paid |-> "none",
                                      src |-> x[1], rule |-> x[2]]]
        /\ task'[w] = [task[w] EXCEPT !.pc = "tag", !.view = @ \ {x}, !.seen = @ \cup {x}, !.new = f]
    BY <1>4 DEF FinePair, IInv, TypeOK, IsFirst
  <2>2. /\ task'[w].pc = "tag" /\ task'[w].view = task[w].view \ {x}
        /\ task'[w].seen = task[w].seen \cup {x} /\ task'[w].made = task[w].made
        /\ task'[w].new = f
    BY <1>1, <2>1 DEF Task
  <2>3. inv[f].status = "NONE" /\ ~IsFine(f) /\ off[f] = 0 /\ f \notin tag
    BY <2>1 DEF Free, IInv, RowsOK, TypeOK
  <2>4. /\ inv'[f].status = "ISSUED" /\ inv'[f].src = x[1] /\ Ref(f)' = x
        /\ \A i \in Invoice \ {f} : /\ inv'[i] = inv[i] /\ (IsFine(i)' <=> IsFine(i))
                                    /\ Ref(i)' = Ref(i)
    BY <2>1 DEF IInv, TypeOK, IsFine, Ref
  <2>5. x[1] # f /\ inv[x[1]].status \notin {"NONE", "VOID"} /\ IsFine(f)'
    <3>1. inv[x[1]].status \notin {"NONE", "VOID"}
      BY <1>1 DEF IInv, PassOK, InPass
    <3>2. x[1] # 0
      BY LateFeesAssumption DEF Invoice, LateFeesAssumption
    <3> QED BY <2>3, <2>4, <3>1, <3>2 DEF IsFine
  <2>6. RowsOK'
    <3>1. ASSUME NEW i \in Invoice, IsFine(i)' PROVE inv'[inv'[i].src].status # "NONE"
      <4>1. CASE i = f
        BY <2>4, <2>5, <4>1
      <4>2. CASE i # f
        <5>1. IsFine(i) /\ inv'[i] = inv[i]
          BY <2>4, <3>1, <4>2
        <5>2. inv[i].src \in Invoice /\ inv[inv[i].src].status # "NONE"
          BY <5>1, SourceType DEF IInv, RowsOK
        <5> QED BY <2>3, <2>4, <5>1, <5>2
      <4> QED BY <4>1, <4>2
    <3>2. ASSUME NEW i \in Invoice, inv'[i].status = "NONE"
          PROVE  ~IsFine(i)' /\ inv'[i].paid = "none" /\ off'[i] = 0
      BY <1>1, <2>4, <3>2 DEF IInv, RowsOK
    <3> QED BY <1>1, <2>4, <2>3, <3>1, <3>2 DEF IInv, RowsOK, TypeOK
  <2>7. Tagged'
    BY <1>1, <1>2, <2>2, <2>4 DEF Tagged
  <2>8. RunsOK'
    BY <1>1, <2>3, <2>4 DEF IInv, RunsOK, TypeOK
  <2>9. PassOK(w)'
    <3>1. \A y \in task[w].view : /\ y \in Invoice \X Rule /\ inv[y[1]].status \notin {"NONE", "VOID"}
                                  /\ inv'[y[1]].status \notin {"NONE", "VOID"}
      BY <1>1, <2>3, <2>4 DEF IInv, PassOK, InPass
    <3>2. \A i \in Invoice : IsFine(i)' => Ref(i)' \in task'[w].seen
      BY <1>2, <2>2, <2>4
    <3>3. inv'[inv'[f].src].status # "VOID"
      BY <2>4, <2>5
    <3>4. task'[w].made \subseteq tag'
      BY <1>1, <2>2 DEF IInv, PassOK
    <3> QED BY <2>2, <2>5, <3>1, <3>2, <3>3, <3>4 DEF PassOK
  <2>10. ReversalOK(w)'
    BY <2>2 DEF ReversalOK
  <2>11. ReversedIsUndone'
    BY <1>1, <2>3, <2>4 DEF IInv, ReversedIsUndone, RunsOK, Undone, TypeOK
  <2>12. Counted'
    <3>1. NoReversal /\ NoReversal'
      BY <1>1, <2>2 DEF NoReversal
    <3>2. \A i \in Invoice : inv'[i].src = inv[i].src \/ off[i] = 0
      BY <2>3, <2>4
    <3> QED BY <1>1, <3>1, <3>2, CountedOutside DEF IInv
  <2>13. OneFinePerPair'
    <3> SUFFICES ASSUME NEW i \in Invoice, NEW j \in Invoice, IsFine(i)', Ref(i)' = Ref(j)'
                 PROVE  i = j
      BY DEF OneFinePerPair
    <3>1. IsFine(j)'
      BY DEF IsFine, Ref
    <3>2. CASE i = f
      BY <1>2, <1>4, <2>4, <3>1, <3>2
    <3>3. CASE j = f
      BY <1>2, <1>4, <2>4, <3>1, <3>3
    <3>4. CASE i # f /\ j # f
      BY <2>4, <3>1, <3>4 DEF IInv, OneFinePerPair
    <3> QED BY <3>2, <3>3, <3>4
  <2> QED BY <1>1, <2>6, <2>7, <2>8, <2>9, <2>10, <2>11, <2>12, <2>13 DEF IInv
<1> QED BY <1>3, <1>4

LEMMA TagFineStep ==
    ASSUME OneAtATime, IInv, TypeOK', NEW w \in Worker, TagFine(w)
    PROVE  IInv'
<1> DEFINE f == task[w].new
<1>1. /\ task[w] \in Task /\ task[w].pc = "tag" /\ tag' = tag \cup {f}
      /\ UNCHANGED <<inv, off, run>> /\ \A v \in Worker : v = w
  BY DEF TagFine, OneAtATime, IInv, TypeOK
<1>2. task'[w] = [[task[w] EXCEPT !.pc = "mark"] EXCEPT !.made = task[w].made \cup {f}]
  BY DEF TagFine, IInv, TypeOK
<1>3. /\ task'[w].pc = "mark" /\ task'[w].made = task[w].made \cup {f}
      /\ task'[w].view = task[w].view /\ task'[w].seen = task[w].seen /\ task'[w].new = f
  BY <1>1, <1>2 DEF Task
<1>4. f \in Invoice /\ IsFine(f) /\ inv[inv[f].src].status # "VOID"
  BY <1>1 DEF IInv, PassOK
<1>5. RowsOK' /\ ReversedIsUndone' /\ OneFinePerPair' /\ RunsOK'
  BY <1>1, <1>4 DEF IInv, RowsOK, ReversedIsUndone, OneFinePerPair, RunsOK, Undone, IsFine, Ref
<1>6. Tagged'
  BY <1>1 DEF IInv, Tagged, IsFine
<1>7. PassOK(w)'
  BY <1>1, <1>3, <1>4 DEF IInv, PassOK, InPass, IsFine, Ref
<1>8. ReversalOK(w)'
  BY <1>3 DEF ReversalOK
<1>9. Counted'
  <2>1. NoReversal /\ NoReversal'
    BY <1>1, <1>3 DEF NoReversal
  <2> QED BY <1>1, <2>1, CountedOutside DEF IInv
<1> QED BY <1>1, <1>5, <1>6, <1>7, <1>8, <1>9 DEF IInv

\* The audit row of a pass that ends, well or not.
LEMMA EndPassStep ==
    ASSUME OneAtATime, IInv, TypeOK', NEW w \in Worker, FinishPass(w) \/ FailPass(w)
    PROVE  IInv'
<1>1. /\ task[w] \in Task /\ task[w].pc \in {"scan", "pick", "mark"} /\ task[w].made \subseteq tag
      /\ UNCHANGED <<inv, tag, off>> /\ \A v \in Worker : v = w
  BY LateFeesAssumption
     DEF LateFeesAssumption, FinishPass, FailPass, OneAtATime, IInv, TypeOK, PassOK
<1>2. task'[w] = Idle
  BY DEF FinishPass, FailPass, Recorded, IInv, TypeOK
<1>3. PICK status, details :
         /\ status \in {"SUCCESS", "FAILED"}
         /\ Recorded(w, status, task[w].made, details)
         /\ status = "SUCCESS" => \A f \in task[w].made : inv[f].src \in details
  BY DEF FinishPass, FailPass
<1>4. \/ run' = run
      \/ \E n \in Free(run) :
            run' = [run EXCEPT ![n] = [status |-> status, fines |-> task[w].made, details |-> details]]
  BY <1>3 DEF Recorded, IsFirst
<1>5. \A n \in Invoice :
         \/ run'[n] = run[n]
         \/ /\ run'[n].status = status /\ run'[n].fines = task[w].made /\ run'[n].details = details
            /\ run[n].status = "NONE" /\ status \in {"SUCCESS", "FAILED"}
  BY <1>3, <1>4 DEF Free, IInv, TypeOK
<1>6. Tagged'
  BY <1>1 DEF IInv, Tagged, IsFine
<1>7. RowsOK' /\ OneFinePerPair'
  BY <1>1 DEF IInv, RowsOK, OneFinePerPair, IsFine, Ref
<1>8. RunsOK'
  BY <1>1, <1>3, <1>5 DEF IInv, RunsOK
<1>9. ReversedIsUndone'
  BY <1>1, <1>5 DEF IInv, ReversedIsUndone, Undone
<1>10. PassOK(w)' /\ ReversalOK(w)'
  BY <1>2, IdleType DEF PassOK, ReversalOK, InPass
<1>11. Counted'
  <2>1. NoReversal /\ NoReversal'
    BY <1>1, <1>2, IdleType DEF NoReversal
  <2>2. \A n \in Invoice : \/ run'[n] = run[n]
                           \/ run'[n].status # "REVERSED" /\ run[n].status # "REVERSED"
    BY <1>5
  <2> QED BY <1>1, <2>1, <2>2, CountedOutside DEF IInv
<1> QED BY <1>1, <1>6, <1>7, <1>8, <1>9, <1>10, <1>11 DEF IInv

LEMMA StartReverseStep ==
    ASSUME OneAtATime, IInv, TypeOK', NEW w \in Worker, NEW n \in Invoice, StartReverse(w, n)
    PROVE  IInv'
<1> DEFINE fines == FinesOn(run[n].details)
           view  == {<<f, inv[f].paid>> : f \in fines}
<1>1. /\ task[w] = Idle /\ run[n].status = "SUCCESS" /\ UNCHANGED <<inv, tag, off, run>>
      /\ task'[w] = [Idle EXCEPT !.pc = "reverse", !.on = n, !.view = view]
      /\ \A v \in Worker : v = w
  BY DEF StartReverse, OneAtATime, IInv, TypeOK
<1>2. \A f \in Invoice : f \in fines <=> f \in tag /\ inv[f].src \in run[n].details
  BY DEF FinesOn
<1>3. fines \subseteq Invoice
  BY DEF FinesOn, IInv, TypeOK
<1>4. /\ task'[w].pc = "reverse" /\ task'[w].on = n /\ task'[w].view = view
      /\ task'[w].made = {}
  <2> HIDE DEF view
  <2> QED BY <1>1, IdleType DEF Task
<1>5. /\ \A x \in view : x[1] \in fines /\ x[2] = inv[x[1]].paid /\ x = <<x[1], x[2]>>
      /\ \A f \in fines : <<f, inv[f].paid>> \in view
  OBVIOUS
<1> HIDE DEF view, fines
<1>6. RowsOK' /\ OneFinePerPair' /\ RunsOK' /\ ReversedIsUndone' /\ Tagged'
  BY <1>1, IdleType
     DEF IInv, RowsOK, OneFinePerPair, RunsOK, ReversedIsUndone, Tagged, Undone, IsFine, Ref
<1>7. PassOK(w)'
  BY <1>4 DEF PassOK, InPass
<1>8. ReversalOK(w)'
  <2>1. ASSUME NEW x \in view
        PROVE  /\ x[1] \in tag /\ inv[x[1]].src \in run[n].details
               /\ x[2] \in Paid /\ (x[2] # "none" => inv[x[1]].paid # "none")
               /\ \A y \in view : x[1] = y[1] => x = y
    <3>1. x[1] \in Invoice /\ x[1] \in fines /\ x[2] = inv[x[1]].paid
      BY <1>3, <1>5
    <3>2. x[2] \in Paid
      BY <3>1 DEF IInv, TypeOK, InvoiceRow
    <3>3. ASSUME NEW y \in view, x[1] = y[1] PROVE x = y
      BY <1>5, <3>3
    <3> QED BY <1>2, <3>1, <3>2, <3>3
  <2>2. ASSUME NEW f \in run[n].fines PROVE Undone(f) \/ <<f, "none">> \in view
    <3>1. f \in Invoice /\ f \in fines
      BY <1>1, <1>2 DEF IInv, RunsOK, TypeOK, RunRow
    <3> QED BY <1>5, <3>1 DEF Undone
  <2> QED BY <1>1, <1>4, <2>1, <2>2 DEF ReversalOK, Undone
<1>9. Counted'
  <2> SUFFICES ASSUME NEW f \in Invoice
               PROVE  off[f] + ToCome(f)' <= Cardinality(Reversals(f)')
    BY <1>1 DEF Counted
  <2>1. NoReversal
    BY <1>1, IdleType DEF NoReversal
  <2>2. /\ IsFiniteSet(Reversals(f)) /\ Reversals(f) \subseteq Invoice
        /\ off[f] <= Cardinality(Reversals(f)) /\ off[f] \in Nat
    <3>1. IsFiniteSet(Invoice)
      BY ConstantTypes, FS_Interval
    <3> QED BY <2>1, <3>1, FS_Subset, NoneToCome DEF Reversals, IInv, Counted, TypeOK
  <2>3. /\ Cardinality(Reversals(f)) \in Nat
        /\ Cardinality(Reversals(f) \cup {n}) \in Nat
        /\ n \notin Reversals(f) => Cardinality(Reversals(f) \cup {n}) = Cardinality(Reversals(f)) + 1
    BY <2>2, FS_CardinalityType, FS_AddElement
  <2>r. /\ Reversals(f) = {k \in Invoice : inv[f].src \in run[k].details
                                           /\ run[k].status = "REVERSED"}
        /\ Reversals(f)' = {k \in Invoice : inv[f].src \in run[k].details
                                            /\ (run[k].status = "REVERSED" \/ k = n)}
    <3>1. \A k \in Invoice :
             (\E v \in Worker : task'[v].pc = "reverse" /\ task'[v].on = k) <=> k = n
      BY <1>1, <1>4
    <3> QED BY <1>1, <2>1, <3>1, NoneToCome DEF Reversals
  <2>4. CASE inv[f].src \in run[n].details
    <3>1. Reversals(f)' = Reversals(f) \cup {n}
      BY <2>r, <2>4
    <3>2. n \notin Reversals(f)
      BY <1>1, <2>1, NoneToCome
    <3>3. ToCome(f)' \in {0, 1}
      BY DEF ToCome
    <3> QED BY <2>2, <2>3, <3>1, <3>2, <3>3
  <2>5. CASE inv[f].src \notin run[n].details
    <3>1. Reversals(f)' = Reversals(f)
      BY <2>r, <2>5
    <3>2. ToCome(f)' = 0
      <4>1. \A p : <<f, p>> \notin view
        BY <1>2, <1>5, <2>5
      <4> QED BY <1>1, <1>4, <4>1 DEF ToCome
    <3> QED BY <2>2, <3>1, <3>2
  <2> QED BY <2>4, <2>5
<1> QED BY <1>1, <1>6, <1>7, <1>8, <1>9 DEF IInv

LEMMA ReverseFineStep ==
    ASSUME OneAtATime, IInv, TypeOK', NEW w \in Worker,
           NEW x \in Invoice \X {"none", "part", "full"}, ReverseFine(w, x)
    PROVE  IInv'
<1> DEFINE i == x[1]
           n == task[w].on
<1>1. /\ task[w] \in Task /\ task[w].pc = "reverse" /\ x \in task[w].view /\ i \in Invoice
      /\ UNCHANGED <<tag, run>> /\ \A v \in Worker : v = w
  BY DEF ReverseFine, OneAtATime, IInv, TypeOK
<1>2. task'[w] = [task[w] EXCEPT !.view = @ \ {x}]
  BY DEF ReverseFine, IInv, TypeOK
<1>3. /\ task'[w].pc = "reverse" /\ task'[w].view = task[w].view \ {x}
      /\ task'[w].on = n /\ task'[w].made = task[w].made
  BY <1>1, <1>2 DEF Task
<1>4. /\ \A j \in Invoice : /\ inv'[j].src = inv[j].src /\ inv'[j].rule = inv[j].rule
                            /\ inv'[j].paid = inv[j].paid
                            /\ j # i => inv'[j] = inv[j]
      /\ inv'[i].status = IF x[2] = "part" THEN inv[i].status ELSE "VOID"
  BY <1>1 DEF ReverseFine, IInv, TypeOK, InvoiceRow
<1>5. /\ n \in Invoice /\ run[n].status = "SUCCESS"
      /\ i \in tag /\ inv[i].src \in run[n].details
      /\ (x[2] # "none" => inv[i].paid # "none")
      /\ \A y \in task[w].view : i = y[1] => x = y
  BY <1>1 DEF IInv, ReversalOK
<1>6. IsFine(i) /\ inv[i].status # "NONE"
  BY <1>1, <1>5 DEF IInv, RowsOK
<1>7. \A j \in Invoice : (IsFine(j)' <=> IsFine(j)) /\ Ref(j)' = Ref(j) /\ (Undone(j) => Undone(j)')
  BY <1>4 DEF IsFine, Ref, Undone
<1>8. Undone(i)' \/ x[2] = "none"
  BY <1>1, <1>4, <1>5 DEF Undone
<1>9. RowsOK'
  <2>1. \A j \in Invoice : inv'[j].status = "NONE" => j # i /\ inv'[j] = inv[j]
    BY <1>4, <1>6
  <2>2. \A j \in Invoice : j # i => off'[j] = off[j]
    BY <1>1 DEF ReverseFine, IInv, TypeOK
  <2>3. ASSUME NEW j \in Invoice, IsFine(j)' PROVE inv'[inv'[j].src].status # "NONE"
    <3>1. inv'[j].src = inv[j].src /\ inv[j].src \in Invoice /\ inv[inv[j].src].status # "NONE"
      BY <1>4, <1>7, <2>3, SourceType DEF IInv, RowsOK
    <3> QED BY <2>1, <3>1
  <2> QED BY <1>1, <1>7, <2>1, <2>2, <2>3 DEF IInv, RowsOK, TypeOK
<1>10. RunsOK' /\ ReversedIsUndone'
  BY <1>1, <1>4, <1>7 DEF IInv, RunsOK, ReversedIsUndone, TypeOK, RunRow
<1>11. Tagged' /\ OneFinePerPair'
  BY <1>1, <1>7 DEF IInv, Tagged, OneFinePerPair
<1>12. PassOK(w)'
  BY <1>1, <1>3 DEF IInv, PassOK, InPass
<1>13. ReversalOK(w)'
  <2>1. ASSUME NEW y \in task'[w].view
        PROVE  /\ y[1] \in tag' /\ inv'[y[1]].src \in run[n].details
               /\ y[2] \in Paid /\ (y[2] # "none" => inv'[y[1]].paid # "none")
               /\ \A z \in task'[w].view : y[1] = z[1] => y = z
    BY <1>1, <1>3, <1>4, <2>1 DEF IInv, ReversalOK, TypeOK
  <2>2. ASSUME NEW f \in run[n].fines
        PROVE  Undone(f)' \/ <<f, "none">> \in task'[w].view
    <3>1. f \in Invoice /\ (Undone(f) \/ <<f, "none">> \in task[w].view)
      BY <1>1, <1>5 DEF IInv, ReversalOK, TypeOK, RunRow
    <3>2. CASE <<f, "none">> = x
      <4>1. x[2] = "none" /\ f = i
        BY <3>2
      <4> QED BY <1>4, <4>1 DEF Undone
    <3> QED BY <1>3, <1>7, <3>1, <3>2
  <2> QED BY <1>1, <1>3, <1>5, <2>1, <2>2 DEF ReversalOK
<1>14. Counted'
  <2> SUFFICES ASSUME NEW f \in Invoice
               PROVE  off'[f] + ToCome(f)' <= Cardinality(Reversals(f)')
    BY DEF Counted
  <2>1. Reversals(f)' = Reversals(f)
    BY <1>1, <1>3, <1>4 DEF Reversals
  <2>2. off[f] + ToCome(f) <= Cardinality(Reversals(f)) /\ off[f] \in Nat
    BY DEF IInv, Counted, TypeOK
  <2>3. CASE <<f, "full">> = x
    <3>1. f = i /\ x[2] = "full"
      BY <2>3
    <3>2. off'[f] = off[f] + 1
      BY <1>1, <3>1 DEF ReverseFine, IInv, TypeOK
    <3>3. ToCome(f) = 1
      BY <1>1, <2>3 DEF ToCome
    <3>4. ToCome(f)' = 0
      BY <1>1, <1>3, <2>3 DEF ToCome
    <3> QED BY <2>1, <2>2, <3>2, <3>3, <3>4
  <2>4. CASE <<f, "full">> # x
    <3>1. ~(f = i /\ x[2] = "full")
      BY <2>4
    <3>2. off'[f] = off[f]
      BY <1>1, <3>1 DEF ReverseFine, IInv, TypeOK
    <3>3. ToCome(f)' = ToCome(f)
      BY <1>1, <1>3, <2>4 DEF ToCome
    <3> QED BY <2>1, <2>2, <3>2, <3>3
  <2> QED BY <2>3, <2>4
<1> QED BY <1>1, <1>9, <1>10, <1>11, <1>12, <1>13, <1>14 DEF IInv

LEMMA FinishReverseStep ==
    ASSUME OneAtATime, IInv, TypeOK', NEW w \in Worker, FinishReverse(w)
    PROVE  IInv'
<1> DEFINE n == task[w].on
<1>1. /\ task[w].pc = "reverse" /\ task[w].view = {} /\ task'[w] = Idle
      /\ UNCHANGED <<inv, tag, off>> /\ \A v \in Worker : v = w
  BY DEF FinishReverse, OneAtATime, IInv, TypeOK
<1>2. /\ n \in Invoice /\ run[n].status = "SUCCESS"
      /\ \A f \in run[n].fines : Undone(f)
  BY <1>1 DEF IInv, ReversalOK
<1>3. run' = [run EXCEPT ![n] = [run[n] EXCEPT !.status = "REVERSED"]]
  BY DEF FinishReverse
<1>4. /\ \A m \in Invoice : run'[m].fines = run[m].fines /\ run'[m].details = run[m].details
      /\ \A m \in Invoice : m # n => run'[m].status = run[m].status
      /\ run'[n].status = "REVERSED"
  BY <1>2, <1>3 DEF IInv, TypeOK, RunRow
<1>5. RowsOK' /\ OneFinePerPair' /\ Tagged'
  BY <1>1 DEF IInv, RowsOK, OneFinePerPair, Tagged, IsFine, Ref
<1>6. RunsOK' /\ ReversedIsUndone'
  BY <1>1, <1>2, <1>4 DEF IInv, RunsOK, ReversedIsUndone, Undone
<1>7. PassOK(w)' /\ ReversalOK(w)'
  BY <1>1, IdleType DEF PassOK, ReversalOK, InPass
<1>8. Counted'
  <2> SUFFICES ASSUME NEW f \in Invoice
               PROVE  Reversals(f)' = Reversals(f) /\ ToCome(f)' = ToCome(f)
    BY <1>1, CountedFrame DEF IInv
  <2>1. Reversals(f)' = Reversals(f)
    BY <1>1, <1>2, <1>4, IdleType DEF Reversals
  <2>2. ToCome(f)' = 0 /\ ToCome(f) = 0
    BY <1>1, IdleType DEF ToCome
  <2> QED BY <2>1, <2>2
<1> QED BY <1>1, <1>5, <1>6, <1>7, <1>8 DEF IInv
-----------------------------------------------------------------------------
(* The theorems *)

LEMMA InvariantInit == Init => IInv
<1> SUFFICES ASSUME Init PROVE IInv
  OBVIOUS
<1>1. TypeOK
  BY InitType
<1>2. \A i \in Invoice : inv[i].src = 0 /\ inv[i].paid = "none" /\ run[i] = NoRun /\ off[i] = 0
  BY DEF Init, Unused
<1>3. \A w \in Worker : task[w] = Idle
  BY DEF Init
<1>4. RowsOK /\ Tagged /\ OneFinePerPair
  BY <1>2 DEF Init, RowsOK, Tagged, OneFinePerPair, IsFine
<1>5. RunsOK /\ ReversedIsUndone
  BY <1>2 DEF RunsOK, ReversedIsUndone, NoRun
<1>6. \A w \in Worker : PassOK(w) /\ ReversalOK(w)
  BY <1>3, IdleType DEF PassOK, ReversalOK, InPass
<1>7. Counted
  <2> SUFFICES ASSUME NEW f \in Invoice PROVE off[f] + ToCome(f) <= Cardinality(Reversals(f))
    BY DEF Counted
  <2>1. NoReversal
    BY <1>3, IdleType DEF NoReversal
  <2>2. Reversals(f) = {}
    BY <1>2, <2>1, NoneToCome DEF NoRun
  <2> QED BY <1>2, <2>1, <2>2, NoneToCome, FS_EmptySet
<1> QED BY <1>1, <1>4, <1>5, <1>6, <1>7 DEF IInv

LEMMA InvariantStep == ASSUME OneAtATime PROVE IInv /\ [Next]_vars => IInv'
<1> SUFFICES ASSUME IInv, [Next]_vars PROVE IInv'
  OBVIOUS
<1>1. TypeOK'
  BY StepType DEF IInv, PassOK
<1>2. CASE Tomorrow \/ UNCHANGED vars
  <2>1. UNCHANGED <<inv, tag, off, run, task>>
    BY <1>2 DEF Tomorrow, vars
  <2>2. Counted'
    BY <2>1 DEF IInv, Counted, ToCome, Reversals
  <2> QED
    BY <1>1, <2>1, <2>2 DEF IInv, RowsOK, Tagged, RunsOK, PassOK, ReversalOK, ReversedIsUndone,
       OneFinePerPair, Undone, IsFine, Ref
<1>3. ASSUME NEW i \in Invoice, NEW level \in {"part", "full"}, Pay(i, level) PROVE IInv'
  BY <1>1, <1>3, PayStep
<1>4. ASSUME NEW w \in Worker, StartPass(w) \/ ReadSeen(w) PROVE IInv'
  BY <1>1, <1>4, StartPassStep
<1>5. ASSUME NEW w \in Worker, NEW x \in Invoice \X Rule, NEW f \in Invoice, FinePair(w, x, f)
      PROVE IInv'
  BY <1>1, <1>5, FinePairStep
<1>6. ASSUME NEW w \in Worker, TagFine(w) PROVE IInv'
  BY <1>1, <1>6, TagFineStep
<1>7. ASSUME NEW w \in Worker, MarkOverdue(w) PROVE IInv'
  BY <1>1, <1>7, MarkOverdueStep
<1>8. ASSUME NEW w \in Worker, FinishPass(w) \/ FailPass(w) PROVE IInv'
  BY <1>1, <1>8, EndPassStep
<1>9. ASSUME NEW w \in Worker, NEW n \in Invoice, StartReverse(w, n) PROVE IInv'
  BY <1>1, <1>9, StartReverseStep
<1>10. ASSUME NEW w \in Worker, NEW x \in Invoice \X {"none", "part", "full"}, ReverseFine(w, x)
       PROVE IInv'
  BY <1>1, <1>10, ReverseFineStep
<1>11. ASSUME NEW w \in Worker, FinishReverse(w) PROVE IInv'
  BY <1>1, <1>11, FinishReverseStep
<1> QED
  BY <1>2, <1>3, <1>4, <1>5, <1>6, <1>7, <1>8, <1>9, <1>10, <1>11 DEF Next, Step

\* The inductive invariant of passes and reversals (late-fees.ts).
THEOREM LateFeesInvariant == ASSUME OneAtATime PROVE Spec => []IInv
BY InvariantInit, InvariantStep, PTL DEF Spec

\* However often passes run, throw and follow one another over the days, an
\* overdue invoice is fined at most once under a rule.
THEOREM OneFinePerPairHolds == ASSUME OneAtATime PROVE Spec => []OneFinePerPair
<1>1. IInv => OneFinePerPair
  BY DEF IInv
<1> QED BY <1>1, LateFeesInvariant, PTL

\* A reversed run has no fine left that is due and untouched, and no fine is
\* written off more often than reversals met its invoice.
THEOREM ReversedRunIsUndoneHolds == ASSUME OneAtATime PROVE Spec => []ReversedRunIsUndone
<1>1. IInv => ReversedRunIsUndone
  <2> SUFFICES ASSUME IInv PROVE ReversedRunIsUndone
    OBVIOUS
  <2>1. ASSUME NEW f \in Invoice PROVE off[f] <= Cardinality(Reversals(f))
    <3>1. off[f] \in Nat /\ ToCome(f) \in {0, 1} /\ off[f] + ToCome(f) <= Cardinality(Reversals(f))
      BY DEF IInv, TypeOK, Counted, ToCome
    <3>2. Cardinality(Reversals(f)) \in Nat
      <4>1. IsFiniteSet(Invoice)
        BY ConstantTypes, FS_Interval
      <4> QED BY <4>1, FS_Subset, FS_CardinalityType DEF Reversals
    <3> QED BY <3>1, <3>2
  <2> QED BY <2>1 DEF IInv, ReversedIsUndone, ReversedRunIsUndone, Undone
<1> QED BY <1>1, LateFeesInvariant, PTL

-----------------------------------------------------------------------------
(* The enrolments of a cohort (Enrolment) *)

Status == {"NONE", "ENROLLED", "PROMOTED", "DETAINED", "TC_ISSUED"}
Entry == [status : Status, open : BOOLEAN, roll : Nat, batch : Nat]
Rows == [Pupil -> [Year -> Entry]]
Ordinary == {e \in Entry : e.open <=> e.status = "ENROLLED"}

\* What a request holds.
RequestHolds(r) ==
    /\ r.pc \in {"idle", "decide", "admit", "promote", "certify"}
    /\ r.pc = "idle" => r = NoRequest
    /\ r.pc = "decide" => r.of \in Applicant /\ r.as \in {"OPEN", "APPROVED"}
    /\ r.pc = "admit" => r.of \in Applicant
    /\ r.pc = "promote" =>
          /\ r.year \in Year /\ r.year + 1 \in Year
          /\ r.items \in SUBSET Pupil /\ r.opened \in SUBSET r.items
          /\ r.opened \cap r.detained = {}
          /\ r.opened # {} => r.roll \in Nat
    /\ r.pc = "certify" => r.of \in Pupil /\ r.year \in Year

EnrolmentTypeOK ==
    /\ application \in [Applicant -> {"NONE", "OPEN", "APPROVED", "ADMITTED"}]
    /\ pupil \in [Pupil -> [there : BOOLEAN, active : BOOLEAN, from : Applicant \cup {"direct"}]]
    /\ row \in Rows
    /\ tcs \in [Pupil -> Nat]
    /\ DOMAIN clerk = Clerk /\ \A c \in Clerk : RequestHolds(clerk[c])

\* One application, one pupil.
PupilsOf(a) == {s \in Pupil : pupil[s].there /\ pupil[s].from = a}

AdmissionInv ==
    ~redecided =>
        /\ \A c, d \in Deciding : c = d
        /\ \A c \in Deciding : application[clerk[c].of] \notin {"NONE", "ADMITTED"}
        /\ \A a \in Applicant : application[a] # "ADMITTED" => PupilsOf(a) = {}
        /\ \A a \in Applicant : application[a] = "ADMITTED" => \E s \in Pupil : PupilsOf(a) = {s}

\* Rows are those of pupils there are, and tell when they were closed.
RowsInv ==
    /\ \A s \in Pupil, y \in Year : row[s][y] \in Ordinary
    /\ \A s \in Pupil : ~pupil[s].there => tcs[s] = 0 /\ \A y \in Year : row[s][y] = NoRow

\* Only the pupils of a batch have rows with its tag.
TagInv ==
    \A s \in Pupil, y \in Year :
        row[s][y].batch # NoBatch =>
            /\ row[s][y].batch \in DOMAIN batches
            /\ s \in batches[row[s][y].batch].items

\* What promotion b, p, made of the rows of a pupil: before and after.
Turned(p, b, before, after) ==
    /\ after[p.from].batch = b
    /\ after[p.from].status \in {"PROMOTED", "DETAINED"}
    /\ after[p.from].roll = before[p.from].roll
    /\ \A y \in Year \ {p.from} :
          \/ after[y] = before[y] /\ (y = p.from + 1 => before[y].batch # b)
          \/ y = p.from + 1 /\ before[y] = NoRow /\ after[y].batch = b /\ after[y].status = "ENROLLED"

Clean == ~raced /\ ~tangled

Live(rows) == {y \in Year : rows[y].status = "ENROLLED"}
Certified(rows) == \E y \in Year : rows[y].status = "TC_ISSUED"
Single(rows) == \A y, z \in Live(rows) : y = z

BatchInv ==
    /\ batches \in Seq([from : Year, status : {"EXECUTED", "REVERSED"}, items : SUBSET Pupil,
                        before : Rows, after : Rows])
    /\ \A b \in DOMAIN batches : \A s \in batches[b].items :
          /\ Turned(batches[b], b, batches[b].before[s], batches[b].after[s])
          /\ ~raced => /\ batches[b].before[s][batches[b].from].status = "ENROLLED"
                       /\ batches[b].before[s][batches[b].from].open
          /\ Clean => Single(batches[b].before[s]) /\ ~Certified(batches[b].before[s])

\* A request that writes enrolments finds the rows as it read them.
FlowInv ==
    ~raced =>
        /\ \A c, d \in Enrolling : c = d
        /\ \A c \in Clerk : At(c, "promote") =>
              \A s \in clerk[c].items : row[s][clerk[c].year].status = "ENROLLED"
        /\ \A c \in Clerk : At(c, "certify") =>
              row[clerk[c].of][clerk[c].year].status = "ENROLLED"

LiveInv ==
    Clean => \A s \in Pupil :
        /\ Single(row[s])
        /\ tcs[s] > 0 => Live(row[s]) = {}
        /\ tcs[s] > 0 <=> Certified(row[s])

EnrolmentInv ==
    EnrolmentTypeOK /\ AdmissionInv /\ RowsInv /\ TagInv /\ BatchInv /\ FlowInv /\ LiveInv

-----------------------------------------------------------------------------
(* Requests *)

LEMMA NothingHeld == RequestHolds(NoRequest) /\ NoRequest.pc = "idle"
BY DEF RequestHolds, NoRequest

LEMMA Requests ==
    ASSUME EnrolmentTypeOK, NEW c \in Clerk, NEW r, Becomes(c, r)
    PROVE  /\ DOMAIN clerk' = Clerk /\ clerk'[c] = r
           /\ \A d \in Clerk \ {c} : clerk'[d] = clerk[d]
           /\ RequestHolds(r) => \A d \in Clerk : RequestHolds(clerk'[d])
<1>1. DOMAIN clerk' = Clerk /\ clerk'[c] = r /\ \A d \in Clerk \ {c} : clerk'[d] = clerk[d]
  BY DEF EnrolmentTypeOK, Becomes
<1>2. RequestHolds(r) => \A d \in Clerk : RequestHolds(clerk'[d])
  BY <1>1 DEF EnrolmentTypeOK
<1> QED BY <1>1, <1>2

\* A request that ends, or never decided nor wrote enrolments.
LEMMA Leaves ==
    ASSUME EnrolmentTypeOK, NEW c \in Clerk, NEW r, Becomes(c, r)
    PROVE  /\ r.pc \notin {"decide", "admit"} =>
                 \A d \in Deciding' : d \in Deciding /\ clerk'[d] = clerk[d] /\ d # c
           /\ r.pc \notin {"promote", "certify"} =>
                 \A d \in Enrolling' : d \in Enrolling /\ clerk'[d] = clerk[d] /\ d # c
BY Requests DEF Deciding, Enrolling

LEMMA AdmissionKept ==
    ASSUME AdmissionInv, UNCHANGED <<application, redecided>>,
           \A d \in Deciding' : d \in Deciding /\ clerk'[d] = clerk[d],
           \A a \in Applicant : PupilsOf(a)' = PupilsOf(a)
    PROVE  AdmissionInv'
BY DEF AdmissionInv

\* Steps that write no pupil and no enrolment.
LEMMA Unwritten ==
    ASSUME RowsInv, TagInv, BatchInv, LiveInv, UNCHANGED <<row, tcs, batches>>,
           \A s \in Pupil : ~pupil'[s].there => ~pupil[s].there,
           raced => raced', tangled => tangled'
    PROVE  RowsInv' /\ TagInv' /\ BatchInv' /\ LiveInv'
<1>1. RowsInv'
  BY DEF RowsInv
<1>2. TagInv'
  BY DEF TagInv
<1>3. BatchInv'
  BY DEF BatchInv, Clean
<1>4. LiveInv'
  BY DEF LiveInv, Clean
<1> QED BY <1>1, <1>2, <1>3, <1>4

LEMMA FlowKept ==
    ASSUME EnrolmentTypeOK, FlowInv, raced => raced',
           \A d \in Enrolling' : d \in Enrolling /\ clerk'[d] = clerk[d],
           \A s \in Pupil, y \in Year :
              row[s][y].status = "ENROLLED" => row'[s][y].status = "ENROLLED"
    PROVE  FlowInv'
<1> SUFFICES ASSUME ~raced' PROVE FlowInv!2'
  BY DEF FlowInv
<1>1. \A c, d \in Enrolling : c = d
  BY DEF FlowInv
<1>2. ASSUME NEW c \in Clerk, At(c, "promote")', NEW s \in clerk'[c].items
      PROVE  row'[s][clerk'[c].year].status = "ENROLLED"
  <2>1. clerk'[c] = clerk[c] /\ At(c, "promote")
    BY <1>2 DEF Enrolling, At
  <2>2. s \in Pupil /\ clerk[c].year \in Year
    BY <1>2, <2>1 DEF EnrolmentTypeOK, RequestHolds, At
  <2> QED BY <1>2, <2>1, <2>2 DEF FlowInv
<1>3. ASSUME NEW c \in Clerk, At(c, "certify")'
      PROVE  row'[clerk'[c].of][clerk'[c].year].status = "ENROLLED"
  <2>1. clerk'[c] = clerk[c] /\ At(c, "certify")
    BY <1>3 DEF Enrolling, At
  <2>2. clerk[c].of \in Pupil /\ clerk[c].year \in Year
    BY <2>1 DEF EnrolmentTypeOK, RequestHolds, At
  <2> QED BY <2>1, <2>2 DEF FlowInv
<1> QED BY <1>1, <1>2, <1>3

\* A request that starts to decide, and one that starts to write enrolments.
LEMMA DecidingStarts ==
    ASSUME EnrolmentTypeOK, AdmissionInv, NEW c \in Clerk, NEW r, Becomes(c, r),
           r.pc \in {"decide", "admit"}, application[r.of] \notin {"NONE", "ADMITTED"},
           redecided' = (redecided \/ Deciding # {}), UNCHANGED <<application, pupil>>
    PROVE  AdmissionInv'
<1>1. SUFFICES ASSUME ~redecided' PROVE AdmissionInv!2'
  BY DEF AdmissionInv
<1>2. ~redecided /\ Deciding = {}
  BY <1>1
<1>3. clerk'[c] = r /\ \A d \in Deciding' : d = c
  BY <1>2, Requests DEF Deciding
<1> QED BY <1>2, <1>3 DEF AdmissionInv, PupilsOf

LEMMA EnrollingStarts ==
    ASSUME EnrolmentTypeOK, FlowInv, NEW c \in Clerk, NEW r, Becomes(c, r),
           r.pc = "promote" => \A s \in r.items : row[s][r.year].status = "ENROLLED",
           r.pc = "certify" => row[r.of][r.year].status = "ENROLLED",
           raced' = (raced \/ Enrolling # {}), UNCHANGED row
    PROVE  FlowInv'
<1>1. SUFFICES ASSUME ~raced' PROVE FlowInv!2'
  BY DEF FlowInv
<1>2. ~raced /\ Enrolling = {}
  BY <1>1
<1>3. clerk'[c] = r /\ \A d \in Enrolling' : d = c
  BY <1>2, Requests DEF Enrolling
<1> QED BY <1>2, <1>3 DEF Enrolling, At

\* Nobody else writes enrolments.
LEMMA Alone ==
    ASSUME EnrolmentInv, NEW c \in Clerk, Becomes(c, NoRequest), UNCHANGED raced,
           clerk[c].pc \in {"promote", "certify"}
    PROVE  FlowInv'
<1>1. SUFFICES ASSUME ~raced' PROVE FlowInv!2'
  BY DEF FlowInv
<1>2. Enrolling' = {}
  BY <1>1, Requests, NothingHeld DEF EnrolmentInv, FlowInv, Enrolling
<1> QED BY <1>2 DEF Enrolling, At

-----------------------------------------------------------------------------
(* Steps that write no enrolment *)

LEMMA ApplyStep ==
    ASSUME EnrolmentInv, NEW a \in Applicant, Apply(a) PROVE EnrolmentInv'
<1> USE DEF Apply, ghosts
<1>1. EnrolmentTypeOK'
  BY DEF EnrolmentInv, EnrolmentTypeOK
<1>2. AdmissionInv'
  <2>1. \A x \in Applicant \ {a} : application'[x] = application[x]
    BY DEF EnrolmentInv, EnrolmentTypeOK
  <2>2. application'[a] = "OPEN" /\ application[a] = "NONE"
    BY DEF EnrolmentInv, EnrolmentTypeOK
  <2>3. \A c \in Deciding : clerk[c].of \in Applicant
    BY DEF EnrolmentInv, EnrolmentTypeOK, RequestHolds, Deciding
  <2>4. Deciding' = Deciding /\ \A x \in Applicant : PupilsOf(x)' = PupilsOf(x)
    BY DEF Deciding, PupilsOf
  <2> QED BY <2>1, <2>2, <2>3, <2>4 DEF EnrolmentInv, AdmissionInv
<1>3. RowsInv' /\ TagInv' /\ BatchInv' /\ LiveInv'
  BY Unwritten DEF EnrolmentInv
<1>4. FlowInv'
  BY FlowKept DEF EnrolmentInv, Enrolling
<1> QED BY <1>1, <1>2, <1>3, <1>4 DEF EnrolmentInv

\* A request goes on and no row changes.
LEMMA RequestTypes ==
    ASSUME EnrolmentInv, NEW c \in Clerk, NEW r, Becomes(c, r), RequestHolds(r),
           UNCHANGED <<application, pupil, row, tcs>>
    PROVE  EnrolmentTypeOK'
BY Requests DEF EnrolmentInv, EnrolmentTypeOK

LEMMA StartDecisionStep ==
    ASSUME EnrolmentInv, NEW c \in Clerk, NEW a \in Applicant, NEW d \in {"OPEN", "APPROVED"},
           StartDecision(c, a, d)
    PROVE  EnrolmentInv'
<1> DEFINE r == [pc |-> "decide", of |-> a, as |-> d]
<1>1. RequestHolds(r) /\ r.pc = "decide" /\ r.of = a
  BY DEF RequestHolds
<1>2. Becomes(c, r)
  BY DEF StartDecision
<1> HIDE DEF r
<1> USE DEF StartDecision
<1>3. EnrolmentTypeOK'
  BY <1>1, <1>2, RequestTypes
<1>4. AdmissionInv'
  BY <1>1, <1>2, DecidingStarts DEF EnrolmentInv
<1>5. RowsInv' /\ TagInv' /\ BatchInv' /\ LiveInv'
  BY Unwritten DEF EnrolmentInv
<1>6. FlowInv'
  BY <1>1, <1>2, Leaves, FlowKept DEF EnrolmentInv
<1> QED BY <1>3, <1>4, <1>5, <1>6 DEF EnrolmentInv

LEMMA StartAdmitStep ==
    ASSUME EnrolmentInv, NEW c \in Clerk, NEW a \in Applicant, StartAdmit(c, a)
    PROVE  EnrolmentInv'
<1> DEFINE r == [pc |-> "admit", of |-> a]
<1>1. RequestHolds(r) /\ r.pc = "admit" /\ r.of = a
  BY DEF RequestHolds
<1>2. Becomes(c, r) /\ application[a] = "APPROVED"
  BY DEF StartAdmit, Admissible
<1> HIDE DEF r
<1> USE DEF StartAdmit
<1>3. EnrolmentTypeOK'
  BY <1>1, <1>2, RequestTypes
<1>4. AdmissionInv'
  BY <1>1, <1>2, DecidingStarts DEF EnrolmentInv
<1>5. RowsInv' /\ TagInv' /\ BatchInv' /\ LiveInv'
  BY Unwritten DEF EnrolmentInv
<1>6. FlowInv'
  BY <1>1, <1>2, Leaves, FlowKept DEF EnrolmentInv
<1> QED BY <1>3, <1>4, <1>5, <1>6 DEF EnrolmentInv

LEMMA DecideStep ==
    ASSUME EnrolmentInv, NEW c \in Clerk, Decide(c) PROVE EnrolmentInv'
<1> USE DEF Decide, ghosts
<1>1. clerk[c].of \in Applicant /\ clerk[c].as \in {"OPEN", "APPROVED"}
  BY DEF EnrolmentInv, EnrolmentTypeOK, RequestHolds, At
<1>2. EnrolmentTypeOK'
  <2>1. application' \in [Applicant -> {"NONE", "OPEN", "APPROVED", "ADMITTED"}]
    BY <1>1 DEF EnrolmentInv, EnrolmentTypeOK
  <2> QED BY <2>1, NothingHeld, Requests DEF EnrolmentInv, EnrolmentTypeOK
<1>3. AdmissionInv'
  <2>1. SUFFICES ASSUME ~redecided' PROVE AdmissionInv!2'
    BY DEF AdmissionInv
  <2>2. Deciding' = {}
    BY <2>1, NothingHeld, Requests DEF EnrolmentInv, AdmissionInv, Deciding, At
  <2>3. /\ \A x \in Applicant \ {clerk[c].of} : application'[x] = application[x]
        /\ application'[clerk[c].of] \in {"OPEN", "APPROVED"}
    BY <1>1 DEF EnrolmentInv, EnrolmentTypeOK
  <2>4. application[clerk[c].of] # "ADMITTED"
    BY <2>1 DEF EnrolmentInv, AdmissionInv, Deciding, At
  <2>5. \A x \in Applicant : PupilsOf(x)' = PupilsOf(x)
    BY DEF PupilsOf
  <2> QED BY <2>1, <2>2, <2>3, <2>4, <2>5 DEF EnrolmentInv, AdmissionInv
<1>4. RowsInv' /\ TagInv' /\ BatchInv' /\ LiveInv'
  BY Unwritten DEF EnrolmentInv
<1>5. FlowInv'
  BY NothingHeld, Leaves, FlowKept DEF EnrolmentInv
<1> QED BY <1>2, <1>3, <1>4, <1>5 DEF EnrolmentInv

\* A request ends and nothing else happens.
LEMMA Ends ==
    ASSUME EnrolmentInv, NEW c \in Clerk, Becomes(c, NoRequest),
           UNCHANGED <<application, pupil, row, tcs, batches, ghosts>>
    PROVE  EnrolmentInv'
<1> USE DEF ghosts
<1>1. EnrolmentTypeOK'
  BY NothingHeld, RequestTypes
<1>2. AdmissionInv'
  BY NothingHeld, Leaves, AdmissionKept DEF EnrolmentInv, PupilsOf
<1>3. RowsInv' /\ TagInv' /\ BatchInv' /\ LiveInv'
  BY Unwritten DEF EnrolmentInv
<1>4. FlowInv'
  BY NothingHeld, Leaves, FlowKept DEF EnrolmentInv
<1> QED BY <1>1, <1>2, <1>3, <1>4 DEF EnrolmentInv

LEMMA DeleteStudentStep ==
    ASSUME EnrolmentInv, NEW s \in Pupil, DeleteStudent(s) PROVE EnrolmentInv'
<1> USE DEF DeleteStudent, ghosts
<1>1. /\ \A x \in Pupil : pupil'[x].there = pupil[x].there /\ pupil'[x].from = pupil[x].from
      /\ pupil' \in [Pupil -> [there : BOOLEAN, active : BOOLEAN, from : Applicant \cup {"direct"}]]
  BY DEF EnrolmentInv, EnrolmentTypeOK
<1>2. EnrolmentTypeOK'
  BY <1>1 DEF EnrolmentInv, EnrolmentTypeOK
<1>3. AdmissionInv'
  <2>1. \A a \in Applicant : PupilsOf(a)' = PupilsOf(a)
    BY <1>1 DEF PupilsOf
  <2> QED BY <2>1, AdmissionKept DEF EnrolmentInv, Deciding
<1>4. RowsInv' /\ TagInv' /\ BatchInv' /\ LiveInv'
  BY <1>1, Unwritten DEF EnrolmentInv
<1>5. FlowInv'
  BY FlowKept DEF EnrolmentInv, Enrolling
<1> QED BY <1>2, <1>3, <1>4, <1>5 DEF EnrolmentInv

\* The greatest roll number of a year.
LEMMA MaxRoll ==
    ASSUME EnrolmentTypeOK, NEW y \in Year, Pupil # {}
    PROVE  Max(Rolls(y)) + 1 \in Nat
<1> DEFINE f == [s \in Pupil |-> row[s][y].roll]
<1>1. \A s \in Pupil : f[s] \in Nat
  BY DEF EnrolmentTypeOK, Rows, Entry
<1>2. \A s \in Pupil : f[s] \in Int
  BY <1>1
<1>3. Rolls(y) = {f[s] : s \in Pupil}
  BY DEF Rolls
<1> HIDE DEF f
<1>4. PICK m \in Pupil : \A s \in Pupil : f[s] <= f[m]
  BY <1>2, Greatest, EnrolmentAssumption
<1>5. f[m] \in Rolls(y) /\ \A n \in Rolls(y) : f[m] >= n
  BY <1>2, <1>3, <1>4
<1>6. Max(Rolls(y)) \in Rolls(y)
  BY <1>5 DEF Max
<1>7. Max(Rolls(y)) \in Nat
  BY <1>1, <1>3, <1>6
<1> QED BY <1>7

LEMMA PreviewStep ==
    ASSUME EnrolmentInv, NEW c \in Clerk, NEW y \in Year, NEW detained \in SUBSET Pupil,
           NEW hasNext \in BOOLEAN, Preview(c, y, detained, hasNext)
    PROVE  EnrolmentInv'
<1> DEFINE opened == IF hasNext THEN Promotable(y) \ detained ELSE {}
           roll == Max(Rolls(y + 1)) + 1
           r == [pc |-> "promote", year |-> y, detained |-> detained, opened |-> opened,
                 items |-> Promotable(y), roll |-> roll]
<1>1. y + 1 \in Year /\ Promotable(y) \in SUBSET Pupil
  BY EnrolmentAssumption DEF Preview, Year, Promotable
<1>2. opened \in SUBSET Promotable(y) /\ opened \cap detained = {}
  OBVIOUS
<1>3. opened # {} => roll \in Nat
  BY <1>1, <1>2, MaxRoll DEF EnrolmentInv
<1>4. Becomes(c, r)
  BY DEF Preview
<1> HIDE DEF opened, roll
<1>5. RequestHolds(r)
  BY <1>1, <1>2, <1>3 DEF RequestHolds
<1>6. r.pc = "promote" /\ r.items = Promotable(y) /\ r.year = y
  OBVIOUS
<1> HIDE DEF r
<1>7. /\ raced' = (raced \/ Enrolling # {})
      /\ UNCHANGED <<application, pupil, row, tcs, batches, redecided, tangled>>
  BY DEF Preview
<1>8. EnrolmentTypeOK'
  BY <1>4, <1>5, <1>7, RequestTypes
<1>9. AdmissionInv'
  BY <1>4, <1>6, <1>7, Leaves, AdmissionKept DEF EnrolmentInv, PupilsOf
<1>10. RowsInv' /\ TagInv' /\ BatchInv' /\ LiveInv'
  BY <1>7, Unwritten DEF EnrolmentInv
<1>11. FlowInv'
  BY <1>4, <1>6, <1>7, EnrollingStarts DEF EnrolmentInv, Promotable
<1> QED BY <1>8, <1>9, <1>10, <1>11 DEF EnrolmentInv

LEMMA StartTcStep ==
    ASSUME EnrolmentInv, NEW c \in Clerk, NEW s \in Pupil, NEW y \in Year, StartTc(c, s, y)
    PROVE  EnrolmentInv'
<1> DEFINE r == [pc |-> "certify", of |-> s, year |-> y]
<1>1. RequestHolds(r) /\ r.pc = "certify" /\ r.of = s /\ r.year = y
  BY DEF RequestHolds
<1>2. Becomes(c, r)
  BY DEF StartTc
<1> HIDE DEF r
<1>3. row[s][y].open /\ row[s][y].status = "ENROLLED"
  BY DEF StartTc, EnrolmentInv, RowsInv, Ordinary
<1> USE DEF StartTc
<1>4. EnrolmentTypeOK'
  BY <1>1, <1>2, RequestTypes
<1>5. AdmissionInv'
  BY <1>1, <1>2, Leaves, AdmissionKept DEF EnrolmentInv, PupilsOf
<1>6. RowsInv' /\ TagInv' /\ BatchInv' /\ LiveInv'
  BY Unwritten DEF EnrolmentInv
<1>7. FlowInv'
  BY <1>1, <1>2, <1>3, EnrollingStarts DEF EnrolmentInv
<1> QED BY <1>4, <1>5, <1>6, <1>7 DEF EnrolmentInv

-----------------------------------------------------------------------------
(* What is written over a row *)

LEMMA TransferredRow ==
    ASSUME NEW e \in Entry
    PROVE  /\ Transferred(e) \in Entry
           /\ Transferred(e).status = "TC_ISSUED" /\ Transferred(e).open = FALSE
           /\ Transferred(e).batch = e.batch
<1>1. Transferred(e) \in Entry
  BY DEF Transferred, Entry, Status
<1>2. Transferred(e).status = "TC_ISSUED" /\ Transferred(e).open = FALSE
  BY DEF Transferred, Entry
<1>3. Transferred(e).batch = e.batch
  BY DEF Transferred, Entry
<1> QED BY <1>1, <1>2, <1>3

ClosedAs(e, b, status) == [e EXCEPT !.status = status, !.open = FALSE, !.batch = b]

LEMMA ClosedRow ==
    ASSUME NEW e \in Entry, NEW b \in Nat, NEW status \in {"PROMOTED", "DETAINED"}
    PROVE  /\ ClosedAs(e, b, status) \in Entry
           /\ ClosedAs(e, b, status).status = status
           /\ ClosedAs(e, b, status).open = FALSE
           /\ ClosedAs(e, b, status).batch = b
<1>1. ClosedAs(e, b, status) \in Entry
  BY DEF ClosedAs, Entry, Status
<1>2. ClosedAs(e, b, status).status = status /\ ClosedAs(e, b, status).open = FALSE
  BY DEF ClosedAs, Entry
<1>3. ClosedAs(e, b, status).batch = b
  BY DEF ClosedAs, Entry
<1> QED BY <1>1, <1>2, <1>3

LEMMA RestoredRow ==
    ASSUME NEW e \in Entry
    PROVE  /\ Restored(e) \in Entry
           /\ Restored(e).status = "ENROLLED" /\ Restored(e).open = TRUE
           /\ Restored(e).batch = e.batch /\ Restored(e).roll = e.roll
<1>1. Restored(e) \in Entry
  BY DEF Restored, Entry, Status
<1>2. Restored(e).status = "ENROLLED" /\ Restored(e).open = TRUE
  BY DEF Restored, Entry
<1>3. Restored(e).batch = e.batch /\ Restored(e).roll = e.roll
  BY DEF Restored, Entry
<1> QED BY <1>1, <1>2, <1>3

LEMMA OpenedRow ==
    ASSUME NEW b \in Nat, NEW roll \in Nat
    PROVE  /\ Opened(b, roll) \in Entry
           /\ Opened(b, roll).status = "ENROLLED" /\ Opened(b, roll).open = TRUE
           /\ Opened(b, roll).batch = b
<1>1. Opened(b, roll) \in Entry
  BY DEF Opened, Entry, Status
<1> QED BY <1>1 DEF Opened

LEMMA NoRowIs ==
    /\ NoRow \in Entry /\ NoRow.status = "NONE"
    /\ NoRow.batch = NoBatch /\ NoRow.open = FALSE
BY DEF NoRow, Entry, Status, NoBatch

-----------------------------------------------------------------------------
(* Steps that write enrolments *)

\* A new pupil has one row, of the current year.
LEMMA EnrolledRows ==
    ASSUME EnrolmentInv, NEW s \in Pupil, NEW from \in Applicant \cup {"direct"},
           ~pupil[s].there, Enrolled(s, from), UNCHANGED <<tcs, batches, raced, tangled>>
    PROVE  /\ row' \in Rows /\ RowsInv' /\ TagInv' /\ BatchInv' /\ LiveInv'
           /\ pupil' \in [Pupil -> [there : BOOLEAN, active : BOOLEAN,
                                    from : Applicant \cup {"direct"}]]
           /\ pupil'[s].there /\ pupil'[s].from = from
           /\ \A t \in Pupil \ {s} : pupil'[t] = pupil[t]
           /\ \A t \in Pupil, y \in Year :
                 row[t][y].status = "ENROLLED" => row'[t][y].status = "ENROLLED"
<1> DEFINE roll == Max(Rolls(1)) + 1
           e == [status |-> "ENROLLED", open |-> TRUE, roll |-> roll, batch |-> NoBatch]
<1>1. 1 \in Year
  BY EnrolmentAssumption DEF Year
<1>2. roll \in Nat
  BY <1>1, MaxRoll DEF EnrolmentInv
<1>3. /\ row' = [row EXCEPT ![s][1] = e]
      /\ pupil' = [pupil EXCEPT ![s] = [there |-> TRUE, active |-> TRUE, from |-> from]]
  BY DEF Enrolled
<1> HIDE DEF roll
<1>4. e \in Entry
  BY <1>2 DEF Entry, Status, NoBatch
<1>5. e.status = "ENROLLED" /\ e.open /\ e.batch = NoBatch
  OBVIOUS
<1> HIDE DEF e
<1>6. /\ row \in [Pupil -> [Year -> Entry]]
      /\ pupil \in [Pupil -> [there : BOOLEAN, active : BOOLEAN, from : Applicant \cup {"direct"}]]
  BY DEF EnrolmentInv, EnrolmentTypeOK, Rows
<1>7. /\ \A t \in Pupil \ {s} : row'[t] = row[t]
      /\ row'[s][1] = e /\ \A y \in Year \ {1} : row'[s][y] = row[s][y]
  BY <1>1, <1>3, <1>6
<1>8. row' \in [Pupil -> [Year -> Entry]]
  BY <1>1, <1>3, <1>4, <1>6
<1>9. /\ pupil'[s].there /\ pupil'[s].from = from
      /\ \A t \in Pupil \ {s} : pupil'[t] = pupil[t]
  BY <1>3, <1>6
<1>10. pupil' \in [Pupil -> [there : BOOLEAN, active : BOOLEAN, from : Applicant \cup {"direct"}]]
  BY <1>3, <1>6
<1>11. tcs[s] = 0 /\ \A y \in Year : row[s][y] = NoRow
  BY DEF EnrolmentInv, RowsInv
<1>12. \A y \in Year : row[s][y].status = "NONE" /\ row[s][y].batch = NoBatch
  BY <1>11 DEF NoRow
<1>13. RowsInv'
  <2>1. \A t \in Pupil, y \in Year : row'[t][y] \in Ordinary
    BY <1>4, <1>5, <1>7 DEF EnrolmentInv, RowsInv, Ordinary
  <2>2. \A t \in Pupil : ~pupil'[t].there => tcs'[t] = 0 /\ \A y \in Year : row'[t][y] = NoRow
    BY <1>7, <1>9 DEF EnrolmentInv, RowsInv
  <2> QED BY <2>1, <2>2 DEF RowsInv
<1>14. TagInv'
  BY <1>5, <1>7, <1>12 DEF EnrolmentInv, TagInv
<1>15. BatchInv'
  BY DEF EnrolmentInv, BatchInv, Clean
<1>16. LiveInv'
  <2>1. SUFFICES ASSUME Clean', NEW t \in Pupil
                 PROVE  /\ Single(row'[t])
                        /\ tcs'[t] > 0 => Live(row'[t]) = {}
                        /\ tcs'[t] > 0 <=> Certified(row'[t])
    BY DEF LiveInv
  <2>2. CASE t # s
    BY <1>7, <2>1, <2>2 DEF EnrolmentInv, LiveInv, Clean
  <2>3. CASE t = s
    <3>1. \A y \in Year \ {1} : row'[t][y].status = "NONE"
      BY <1>7, <1>12, <2>3
    <3>2. row'[t][1].status = "ENROLLED" /\ ~(tcs'[t] > 0)
      BY <1>5, <1>7, <1>11, <2>3
    <3> QED BY <3>1, <3>2 DEF Single, Live, Certified
  <2> QED BY <2>2, <2>3
<1>17. \A t \in Pupil, y \in Year :
          row[t][y].status = "ENROLLED" => row'[t][y].status = "ENROLLED"
  BY <1>5, <1>7
<1> QED BY <1>8, <1>9, <1>10, <1>13, <1>14, <1>15, <1>16, <1>17 DEF Rows

LEMMA CreateStudentStep ==
    ASSUME EnrolmentInv, NEW s \in Pupil, CreateStudent(s) PROVE EnrolmentInv'
<1> USE DEF CreateStudent, ghosts
<1>1. /\ row' \in Rows /\ RowsInv' /\ TagInv' /\ BatchInv' /\ LiveInv'
      /\ pupil' \in [Pupil -> [there : BOOLEAN, active : BOOLEAN, from : Applicant \cup {"direct"}]]
      /\ pupil'[s].there /\ pupil'[s].from = "direct"
      /\ \A t \in Pupil \ {s} : pupil'[t] = pupil[t]
      /\ \A t \in Pupil, y \in Year :
            row[t][y].status = "ENROLLED" => row'[t][y].status = "ENROLLED"
  BY EnrolledRows
<1>2. EnrolmentTypeOK'
  BY <1>1 DEF EnrolmentInv, EnrolmentTypeOK
<1>3. AdmissionInv'
  <2>1. \A a \in Applicant : PupilsOf(a)' = PupilsOf(a)
    BY <1>1, EnrolmentAssumption DEF PupilsOf
  <2> QED BY <2>1, AdmissionKept DEF EnrolmentInv, Deciding
<1>4. FlowInv'
  BY <1>1, FlowKept DEF EnrolmentInv, Enrolling
<1> QED BY <1>1, <1>2, <1>3, <1>4 DEF EnrolmentInv

LEMMA AdmitStep ==
    ASSUME EnrolmentInv, NEW c \in Clerk, NEW s \in Pupil, Admit(c, s) PROVE EnrolmentInv'
<1>1. PICK a \in Applicant : a = clerk[c].of
  BY DEF EnrolmentInv, EnrolmentTypeOK, RequestHolds, At, Admit
<1>2. At(c, "admit") /\ Becomes(c, NoRequest) /\ UNCHANGED <<tcs, batches, ghosts>>
  BY DEF Admit
<1>3. CASE pupil[s].there
  BY <1>2, <1>3, Ends DEF Admit
<1>4. CASE ~pupil[s].there
  <2>1. Enrolled(s, a) /\ application' = [application EXCEPT ![a] = "ADMITTED"]
    BY <1>1, <1>4 DEF Admit
  <2>2. /\ row' \in Rows /\ RowsInv' /\ TagInv' /\ BatchInv' /\ LiveInv'
        /\ pupil' \in [Pupil -> [there : BOOLEAN, active : BOOLEAN, from : Applicant \cup {"direct"}]]
        /\ pupil'[s].there /\ pupil'[s].from = a
        /\ \A t \in Pupil \ {s} : pupil'[t] = pupil[t]
        /\ \A t \in Pupil, y \in Year :
              row[t][y].status = "ENROLLED" => row'[t][y].status = "ENROLLED"
    BY <1>2, <1>4, <2>1, EnrolledRows DEF ghosts
  <2>3. application' \in [Applicant -> {"NONE", "OPEN", "APPROVED", "ADMITTED"}]
    BY <2>1 DEF EnrolmentInv, EnrolmentTypeOK
  <2>4. EnrolmentTypeOK'
    BY <1>2, <2>2, <2>3, NothingHeld, Requests DEF EnrolmentInv, EnrolmentTypeOK
  <2>5. AdmissionInv'
    <3>1. SUFFICES ASSUME ~redecided' PROVE AdmissionInv!2'
      BY DEF AdmissionInv
    <3>2. c \in Deciding /\ ~redecided
      BY <1>2, <3>1 DEF Deciding, At, ghosts
    <3>3. Deciding' = {}
      BY <1>2, <3>2, NothingHeld, Requests DEF EnrolmentInv, AdmissionInv, Deciding
    <3>4. application[a] # "ADMITTED" /\ PupilsOf(a) = {}
      BY <1>1, <3>2 DEF EnrolmentInv, AdmissionInv
    <3>5. application'[a] = "ADMITTED" /\ \A x \in Applicant \ {a} : application'[x] = application[x]
      BY <2>1 DEF EnrolmentInv, EnrolmentTypeOK
    <3>6. PupilsOf(a)' = {s}
      BY <2>2, <3>4 DEF PupilsOf
    <3>7. \A x \in Applicant \ {a} : PupilsOf(x)' = PupilsOf(x)
      BY <1>4, <2>2 DEF PupilsOf
    <3> QED BY <3>2, <3>3, <3>5, <3>6, <3>7 DEF EnrolmentInv, AdmissionInv
  <2>6. FlowInv'
    BY <1>2, <2>2, NothingHeld, Leaves, FlowKept DEF EnrolmentInv, ghosts
  <2> QED BY <2>2, <2>4, <2>5, <2>6 DEF EnrolmentInv
<1> QED BY <1>3, <1>4

LEMMA IssueTcStep ==
    ASSUME EnrolmentInv, NEW c \in Clerk, IssueTc(c) PROVE EnrolmentInv'
<1>1. PICK s \in Pupil, y \in Year : s = clerk[c].of /\ y = clerk[c].year
  BY DEF EnrolmentInv, EnrolmentTypeOK, RequestHolds, At, IssueTc
<1>2. At(c, "certify") /\ Becomes(c, NoRequest) /\ UNCHANGED <<application, batches, ghosts>>
  BY DEF IssueTc
<1>3. CASE row[s][y] = NoRow
  BY <1>1, <1>2, <1>3, Ends DEF IssueTc
<1>4. CASE row[s][y] # NoRow
  <2> DEFINE e == Transferred(row[s][y])
  <2>1. /\ tcs' = [tcs EXCEPT ![s] = @ + 1] /\ row' = [row EXCEPT ![s][y] = e]
        /\ pupil' = [pupil EXCEPT ![s].active = FALSE]
    BY <1>1, <1>4 DEF IssueTc
  <2>2. /\ row \in [Pupil -> [Year -> Entry]] /\ tcs \in [Pupil -> Nat]
        /\ pupil \in [Pupil -> [there : BOOLEAN, active : BOOLEAN, from : Applicant \cup {"direct"}]]
    BY DEF EnrolmentInv, EnrolmentTypeOK, Rows
  <2>3. /\ e \in Entry /\ e.status = "TC_ISSUED" /\ e.open = FALSE
        /\ e.batch = row[s][y].batch
    <3>1. row[s][y] \in Entry
      BY <2>2
    <3> QED BY <3>1, TransferredRow
  <2> HIDE DEF e
  <2>4. /\ \A t \in Pupil \ {s} : row'[t] = row[t] /\ tcs'[t] = tcs[t]
        /\ row'[s][y] = e /\ \A z \in Year \ {y} : row'[s][z] = row[s][z]
        /\ tcs'[s] = tcs[s] + 1
    BY <2>1, <2>2
  <2>5. row' \in [Pupil -> [Year -> Entry]] /\ tcs' \in [Pupil -> Nat]
    BY <2>1, <2>2, <2>3
  <2>6. pupil' \in [Pupil -> [there : BOOLEAN, active : BOOLEAN, from : Applicant \cup {"direct"}]]
    BY <2>1, <2>2
  <2>7. \A t \in Pupil : pupil'[t].there = pupil[t].there /\ pupil'[t].from = pupil[t].from
    BY <2>1, <2>2
  <2>8. EnrolmentTypeOK'
    BY <1>2, <2>5, <2>6, NothingHeld, Requests DEF EnrolmentInv, EnrolmentTypeOK, Rows
  <2>9. AdmissionInv'
    <3>1. \A a \in Applicant : PupilsOf(a)' = PupilsOf(a)
      BY <2>7 DEF PupilsOf
    <3> QED BY <1>2, <3>1, NothingHeld, Leaves, AdmissionKept DEF EnrolmentInv, ghosts
  <2>10. RowsInv'
    <3>1. pupil[s].there
      BY <1>4 DEF EnrolmentInv, RowsInv
    <3>2. \A t \in Pupil, z \in Year : row'[t][z] \in Ordinary
      BY <2>3, <2>4 DEF EnrolmentInv, RowsInv, Ordinary
    <3>3. \A t \in Pupil : ~pupil'[t].there => tcs'[t] = 0 /\ \A z \in Year : row'[t][z] = NoRow
      BY <2>4, <2>7, <3>1 DEF EnrolmentInv, RowsInv
    <3> QED BY <3>2, <3>3 DEF RowsInv
  <2>11. TagInv'
    BY <1>2, <2>3, <2>4 DEF EnrolmentInv, TagInv
  <2>12. BatchInv'
    BY <1>2 DEF EnrolmentInv, BatchInv, Clean, ghosts
  <2>13. LiveInv'
    <3>1. SUFFICES ASSUME Clean', NEW t \in Pupil
                   PROVE  /\ Single(row'[t])
                          /\ tcs'[t] > 0 => Live(row'[t]) = {}
                          /\ tcs'[t] > 0 <=> Certified(row'[t])
      BY DEF LiveInv
    <3>2. Clean
      BY <1>2, <3>1 DEF Clean, ghosts
    <3>3. CASE t # s
      BY <2>4, <3>2, <3>3 DEF EnrolmentInv, LiveInv
    <3>4. CASE t = s
      <4>1. row[s][y].status = "ENROLLED"
        BY <1>1, <1>2, <3>2 DEF EnrolmentInv, FlowInv, Clean
      <4>2. \A z \in Year \ {y} : row[s][z].status # "ENROLLED"
        BY <3>2, <4>1 DEF EnrolmentInv, LiveInv, Single, Live
      <4>3. Live(row'[s]) = {}
        BY <2>3, <2>4, <4>2 DEF Live
      <4>4. tcs'[s] > 0 /\ Certified(row'[s])
        BY <2>2, <2>3, <2>4 DEF Certified
      <4> QED BY <3>4, <4>3, <4>4 DEF Single
    <3> QED BY <3>3, <3>4
  <2>14. FlowInv'
    BY <1>2, Alone DEF At, ghosts
  <2> QED BY <2>8, <2>9, <2>10, <2>11, <2>12, <2>13, <2>14 DEF EnrolmentInv
<1> QED BY <1>3, <1>4

LEMMA ExecuteStep ==
    ASSUME EnrolmentInv, NEW c \in Clerk, Execute(c) PROVE EnrolmentInv'
<1>1. PICK p : p = clerk[c] /\ p.pc = "promote" /\ RequestHolds(p)
  BY DEF EnrolmentInv, EnrolmentTypeOK, At, Execute
<1>2. PICK b : b = Len(batches) + 1
  OBVIOUS
<1>3. At(c, "promote") /\ Becomes(c, NoRequest) /\ UNCHANGED <<application, pupil, tcs, ghosts>>
  BY DEF Execute
<1>4. CASE \/ \E s \in p.items : row[s][p.year] = NoRow
           \/ \E s \in p.opened : row[s][p.year + 1] # NoRow
  BY <1>1, <1>3, <1>4, Ends DEF Execute
<1>5. CASE /\ \A s \in p.items : row[s][p.year] # NoRow
           /\ \A s \in p.opened : row[s][p.year + 1] = NoRow
  <2> DEFINE promoted == [s \in Pupil |-> [y \in Year |->
                             IF s \in p.items /\ y = p.year
                             THEN Closed(row[s][y], b, s \in p.detained)
                             ELSE IF s \in p.opened /\ y = p.year + 1
                                  THEN Opened(b, p.roll) ELSE row[s][y]]]
             batch == [from |-> p.year, status |-> "EXECUTED",
                       items |-> p.items, before |-> row, after |-> promoted]
  <2>1. row' = promoted /\ batches' = Append(batches, batch)
    BY <1>1, <1>2, <1>5 DEF Execute
  <2>2. /\ p.year \in Year /\ p.year + 1 \in Year /\ p.year \in Nat
        /\ p.items \in SUBSET Pupil /\ p.opened \in SUBSET p.items
        /\ p.opened # {} => p.roll \in Nat
    BY <1>1 DEF RequestHolds, Year
  <2>3. row \in [Pupil -> [Year -> Entry]]
    BY DEF EnrolmentInv, EnrolmentTypeOK, Rows
  <2>4. b \in Nat /\ b # NoBatch /\ DOMAIN batches = 1 .. (b - 1) /\ Len(batches) \in Nat
    BY <1>2 DEF EnrolmentInv, BatchInv, NoBatch
  <2>5. \A s \in p.items :
           /\ promoted[s][p.year] \in Entry
           /\ promoted[s][p.year].status \in {"PROMOTED", "DETAINED"}
           /\ promoted[s][p.year].open = FALSE /\ promoted[s][p.year].batch = b
           /\ promoted[s][p.year].roll = row[s][p.year].roll
    <3> SUFFICES ASSUME NEW s \in p.items
                 PROVE  /\ promoted[s][p.year] \in Entry
                        /\ promoted[s][p.year].status \in {"PROMOTED", "DETAINED"}
                        /\ promoted[s][p.year].open = FALSE /\ promoted[s][p.year].batch = b
                        /\ promoted[s][p.year].roll = row[s][p.year].roll
      OBVIOUS
    <3>1. PICK status \in {"PROMOTED", "DETAINED"} :
             promoted[s][p.year] = ClosedAs(row[s][p.year], b, status)
      <4>1. promoted[s][p.year] = Closed(row[s][p.year], b, s \in p.detained)
        BY <2>2
      <4> HIDE DEF promoted
      <4>2. CASE s \in p.detained
        BY <4>1, <4>2 DEF Closed, ClosedAs
      <4>3. CASE s \notin p.detained
        BY <4>1, <4>3 DEF Closed, ClosedAs
      <4> QED BY <4>2, <4>3
    <3>2. row[s][p.year] \in Entry
      BY <2>2, <2>3
    <3> HIDE DEF promoted
    <3>3. /\ ClosedAs(row[s][p.year], b, status) \in Entry
          /\ ClosedAs(row[s][p.year], b, status).status = status
          /\ ClosedAs(row[s][p.year], b, status).open = FALSE
          /\ ClosedAs(row[s][p.year], b, status).batch = b
          /\ ClosedAs(row[s][p.year], b, status).roll = row[s][p.year].roll
      <4>1. b \in Nat
        BY <2>4
      <4>2. status \in {"PROMOTED", "DETAINED"}
        BY <3>1
      <4>3. ClosedAs(row[s][p.year], b, status).roll = row[s][p.year].roll
        BY <3>2 DEF ClosedAs, Entry
      <4>4. /\ ClosedAs(row[s][p.year], b, status) \in Entry
            /\ ClosedAs(row[s][p.year], b, status).status = status
            /\ ClosedAs(row[s][p.year], b, status).open = FALSE
            /\ ClosedAs(row[s][p.year], b, status).batch = b
        BY <3>2, <4>1, <4>2, ClosedRow
      <4> QED BY <4>3, <4>4
    <3> QED BY <3>1, <3>3
  <2>6. \A s \in p.opened :
           /\ promoted[s][p.year + 1] \in Entry /\ promoted[s][p.year + 1].status = "ENROLLED"
           /\ promoted[s][p.year + 1].open = TRUE /\ promoted[s][p.year + 1].batch = b
    <3> SUFFICES ASSUME NEW s \in p.opened
                 PROVE  /\ promoted[s][p.year + 1] \in Entry
                        /\ promoted[s][p.year + 1].status = "ENROLLED"
                        /\ promoted[s][p.year + 1].open = TRUE
                        /\ promoted[s][p.year + 1].batch = b
      OBVIOUS
    <3>1. promoted[s][p.year + 1] = Opened(b, p.roll)
      BY <2>2
    <3>2. p.roll \in Nat
      BY <2>2
    <3>3. /\ Opened(b, p.roll) \in Entry /\ Opened(b, p.roll).status = "ENROLLED"
          /\ Opened(b, p.roll).open = TRUE /\ Opened(b, p.roll).batch = b
      BY <2>4, <3>2, OpenedRow
    <3> HIDE DEF promoted
    <3> QED BY <3>1, <3>3
  <2>7. \A s \in Pupil, y \in Year :
           ~(s \in p.items /\ y = p.year) /\ ~(s \in p.opened /\ y = p.year + 1)
           => promoted[s][y] = row[s][y]
    OBVIOUS
  <2>8. promoted = [s \in Pupil |-> promoted[s]]
        /\ \A s \in Pupil : promoted[s] = [y \in Year |-> promoted[s][y]]
    OBVIOUS
  <2> HIDE DEF promoted
  <2>9. promoted \in Rows
    <3>1. \A s \in Pupil, y \in Year : promoted[s][y] \in Entry
      BY <2>2, <2>3, <2>5, <2>6, <2>7
    <3> QED BY <2>8, <3>1 DEF Rows
  <2>10. EnrolmentTypeOK'
    BY <1>3, <2>1, <2>9, NothingHeld, Requests DEF EnrolmentInv, EnrolmentTypeOK
  <2>11. AdmissionInv'
    BY <1>3, NothingHeld, Leaves, AdmissionKept DEF EnrolmentInv, PupilsOf, ghosts
  <2>12. RowsInv'
    <3>1. \A s \in Pupil, y \in Year : row'[s][y] \in Ordinary
      BY <2>1, <2>2, <2>5, <2>6, <2>7 DEF EnrolmentInv, RowsInv, Ordinary
    <3>2. \A s \in Pupil : ~pupil[s].there => s \notin p.items
      BY <1>5, <2>2 DEF EnrolmentInv, RowsInv
    <3>3. \A s \in Pupil : s \notin p.items => \A y \in Year : row'[s][y] = row[s][y]
      BY <2>1, <2>2, <2>7
    <3> QED BY <1>3, <3>1, <3>2, <3>3 DEF EnrolmentInv, RowsInv
  <2>13. /\ batches \in Seq([from : Year, status : {"EXECUTED", "REVERSED"},
                             items : SUBSET Pupil, before : Rows, after : Rows])
         /\ batch \in [from : Year, status : {"EXECUTED", "REVERSED"},
                       items : SUBSET Pupil, before : Rows, after : Rows]
    BY <2>2, <2>3, <2>9 DEF EnrolmentInv, BatchInv, Rows
  <2>14. /\ batch.from = p.year /\ batch.items = p.items /\ batch.before = row
         /\ batch.after = promoted
    OBVIOUS
  <2> HIDE DEF batch
  <2>15. /\ DOMAIN batches' = 1 .. b /\ batches'[b] = batch
         /\ \A k \in DOMAIN batches : batches'[k] = batches[k]
         /\ batches' \in Seq([from : Year, status : {"EXECUTED", "REVERSED"},
                              items : SUBSET Pupil, before : Rows, after : Rows])
    BY <1>2, <2>1, <2>13
  <2>16. DOMAIN batches' = DOMAIN batches \cup {b} /\ b \notin DOMAIN batches
    BY <1>2, <2>4, <2>15
  <2>17. TagInv'
    <3> SUFFICES ASSUME NEW s \in Pupil, NEW y \in Year, row'[s][y].batch # NoBatch
                 PROVE  /\ row'[s][y].batch \in DOMAIN batches'
                        /\ s \in batches'[row'[s][y].batch].items
      BY DEF TagInv
    <3>1. CASE row'[s][y] = row[s][y]
      BY <2>15, <2>16, <3>1 DEF EnrolmentInv, TagInv
    <3>2. CASE row'[s][y] # row[s][y]
      <4>1. s \in p.items /\ row'[s][y].batch = b
        BY <2>1, <2>2, <2>5, <2>6, <2>7, <3>2
      <4> QED BY <2>14, <2>15, <2>16, <4>1
    <3> QED BY <3>1, <3>2
  <2>18. \A s \in p.items : Turned(batch, b, row[s], promoted[s])
    <3> SUFFICES ASSUME NEW s \in p.items PROVE Turned(batch, b, row[s], promoted[s])
      OBVIOUS
    <3>1. s \in Pupil
      BY <2>2
    <3>2. /\ promoted[s][p.year].batch = b
          /\ promoted[s][p.year].status \in {"PROMOTED", "DETAINED"}
          /\ promoted[s][p.year].roll = row[s][p.year].roll
      BY <2>5
    <3>3. \A y \in Year : row[s][y].batch # b
      BY <2>4, <2>16, <3>1 DEF EnrolmentInv, TagInv
    <3>4. ASSUME NEW y \in Year \ {p.year}
          PROVE  \/ promoted[s][y] = row[s][y] /\ (y = p.year + 1 => row[s][y].batch # b)
                 \/ /\ y = p.year + 1 /\ row[s][y] = NoRow
                    /\ promoted[s][y].batch = b /\ promoted[s][y].status = "ENROLLED"
      <4>1. CASE s \in p.opened /\ y = p.year + 1
        BY <1>5, <2>6, <4>1
      <4>2. CASE ~(s \in p.opened /\ y = p.year + 1)
        BY <2>7, <3>1, <3>3, <4>2
      <4> QED BY <4>1, <4>2
    <3> QED BY <2>14, <3>2, <3>4 DEF Turned
  <2>19. /\ raced' = raced /\ tangled' = tangled
    BY <1>3 DEF ghosts
  <2>20. ASSUME ~raced, NEW s \in p.items
         PROVE  row[s][p.year].status = "ENROLLED" /\ row[s][p.year].open
    BY <1>1, <1>3, <2>2, <2>20 DEF EnrolmentInv, FlowInv, RowsInv, Ordinary
  <2>21. ASSUME Clean, NEW s \in p.items
         PROVE  Single(row[s]) /\ ~Certified(row[s]) /\ ~(tcs[s] > 0)
    <3>1. s \in Pupil /\ p.year \in Live(row[s])
      BY <2>2, <2>20, <2>21 DEF Clean, Live
    <3> QED BY <2>21, <3>1 DEF EnrolmentInv, LiveInv
  <2>22. BatchInv'
    <3>1. ASSUME NEW k \in DOMAIN batches', NEW s \in batches'[k].items
          PROVE  /\ Turned(batches'[k], k, batches'[k].before[s], batches'[k].after[s])
                 /\ ~raced' => /\ batches'[k].before[s][batches'[k].from].status = "ENROLLED"
                               /\ batches'[k].before[s][batches'[k].from].open
                 /\ Clean' => Single(batches'[k].before[s]) /\ ~Certified(batches'[k].before[s])
      <4>1. CASE k \in DOMAIN batches
        BY <2>15, <2>19, <3>1, <4>1 DEF EnrolmentInv, BatchInv, Clean
      <4>2. CASE k = b
        BY <2>14, <2>15, <2>18, <2>19, <2>20, <2>21, <3>1, <4>2 DEF Clean
      <4> QED BY <2>16, <3>1, <4>1, <4>2
    <3> QED BY <2>15, <3>1 DEF BatchInv
  <2>23. FlowInv'
    BY <1>3, Alone DEF At, ghosts
  <2>24. LiveInv'
    <3>1. SUFFICES ASSUME Clean', NEW s \in Pupil
                   PROVE  /\ Single(row'[s])
                          /\ tcs'[s] > 0 => Live(row'[s]) = {}
                          /\ tcs'[s] > 0 <=> Certified(row'[s])
      BY DEF LiveInv
    <3>2. Clean
      BY <2>19, <3>1 DEF Clean
    <3>3. CASE s \notin p.items
      <4>1. \A y \in Year : row'[s][y] = row[s][y]
        BY <2>1, <2>2, <2>7, <3>3
      <4> QED BY <1>3, <3>2, <4>1 DEF EnrolmentInv, LiveInv, Single, Live, Certified
    <3>4. CASE s \in p.items
      <4>1. Single(row[s]) /\ ~Certified(row[s]) /\ ~(tcs[s] > 0)
        BY <2>21, <3>2, <3>4
      <4>2. p.year \in Live(row[s])
        BY <2>2, <2>20, <3>2, <3>4 DEF Clean, Live
      <4>3. \A y \in Year : row[s][y].status = "ENROLLED" => y = p.year
        BY <4>1, <4>2 DEF Single, Live
      <4>4. \A y \in Year \ {p.year} : y # p.year + 1 => row'[s][y] = row[s][y]
        BY <2>1, <2>7
      <4>5. row'[s][p.year].status \in {"PROMOTED", "DETAINED"}
        BY <2>1, <2>5, <3>4
      <4>6. \/ row'[s][p.year + 1] = row[s][p.year + 1]
            \/ row'[s][p.year + 1].status = "ENROLLED"
        BY <2>1, <2>2, <2>6, <2>7
      <4>7. \A y \in Year : row'[s][y].status = "ENROLLED" => y = p.year + 1
        BY <4>3, <4>4, <4>5
      <4>8. \A y \in Year : row'[s][y].status # "TC_ISSUED"
        BY <4>1, <4>4, <4>5, <4>6 DEF Certified
      <4> QED BY <1>3, <4>1, <4>7, <4>8 DEF Single, Live, Certified
    <3> QED BY <3>3, <3>4
  <2> QED BY <2>10, <2>11, <2>12, <2>17, <2>22, <2>23, <2>24 DEF EnrolmentInv
<1> QED BY <1>4, <1>5

LEMMA BatchTypes ==
    ASSUME BatchInv, NEW b \in DOMAIN batches
    PROVE  batches[b] \in [from : Year, status : {"EXECUTED", "REVERSED"},
                           items : SUBSET Pupil, before : Rows, after : Rows]
<1> DEFINE Batch == [from : Year, status : {"EXECUTED", "REVERSED"},
                     items : SUBSET Pupil, before : Rows, after : Rows]
<1>1. batches \in Seq(Batch)
  BY DEF BatchInv
<1> HIDE DEF Batch
<1>2. b \in 1 .. Len(batches)
  BY <1>1
<1>3. batches[b] \in Batch
  BY <1>1, <1>2
<1> QED BY <1>3 DEF Batch

\* A reversal of rows nobody has touched gives back those of before.
LEMMA GivenBack ==
    ASSUME EnrolmentInv, NEW b \in DOMAIN batches, ReversePromotion(b),
           NEW s \in batches[b].items, row[s] = batches[b].after[s], ~raced, NEW y \in Year
    PROVE  /\ row'[s][y].status = batches[b].before[s][y].status
           /\ row'[s][y].open = batches[b].before[s][y].open
           /\ row'[s][y].roll = batches[b].before[s][y].roll
<1>1. PICK p : p = batches[b] /\ p.from \in Year /\ p.items \in SUBSET Pupil
                /\ p.before \in Rows /\ p.after \in Rows
  <2>1. batches[b] \in [from : Year, status : {"EXECUTED", "REVERSED"},
                        items : SUBSET Pupil, before : Rows, after : Rows]
    BY BatchTypes DEF EnrolmentInv
  <2> QED BY <2>1
<1>2. /\ Turned(p, b, p.before[s], row[s]) /\ s \in Pupil /\ b # NoBatch
      /\ p.before[s][p.from].status = "ENROLLED" /\ p.before[s][p.from].open
  BY <1>1 DEF EnrolmentInv, BatchInv, NoBatch
<1>3. /\ row \in [Pupil -> [Year -> Entry]] /\ p.before \in [Pupil -> [Year -> Entry]]
  BY <1>1 DEF EnrolmentInv, EnrolmentTypeOK, Rows
<1>4. row'[s][y] = IF row[s][y].batch = b /\ y = p.from + 1 THEN NoRow
                   ELSE IF row[s][y].batch = b /\ y = p.from THEN Restored(row[s][y])
                        ELSE row[s][y]
  BY <1>1, <1>2 DEF ReversePromotion, Removed
<1>5. p.from # p.from + 1
  BY <1>1 DEF Year
<1>6. CASE y = p.from
  <2>1. row[s][y] \in Entry /\ row'[s][y] = Restored(row[s][y])
    BY <1>2, <1>3, <1>4, <1>5, <1>6 DEF Turned
  <2>2. /\ row'[s][y].status = "ENROLLED" /\ row'[s][y].open = TRUE
        /\ row'[s][y].roll = row[s][y].roll
    BY <2>1, RestoredRow
  <2>3. p.before[s][y].open = TRUE
    <3>1. p.before[s][y] \in Entry /\ p.before[s][y].open
      BY <1>2, <1>3, <1>6
    <3> QED BY <3>1 DEF Entry
  <2> QED BY <1>1, <1>2, <1>6, <2>2, <2>3 DEF Turned
<1>7. CASE y # p.from
  <2>1. CASE row[s][y] = p.before[s][y] /\ (y = p.from + 1 => p.before[s][y].batch # b)
    BY <1>1, <1>4, <1>7, <2>1
  <2>2. CASE y = p.from + 1 /\ p.before[s][y] = NoRow /\ row[s][y].batch = b
    BY <1>1, <1>4, <2>2
  <2> QED BY <1>2, <1>7, <2>1, <2>2 DEF Turned
<1> QED BY <1>6, <1>7

LEMMA ReverseStep ==
    ASSUME EnrolmentInv, NEW b \in DOMAIN batches, ReversePromotion(b)
    PROVE  EnrolmentInv'
<1>1. /\ batches' = [batches EXCEPT ![b].status = "REVERSED"]
      /\ tangled' = (tangled \/ ~Untouched(b)) /\ raced' = (raced \/ Enrolling # {})
      /\ UNCHANGED <<application, pupil, tcs, clerk, redecided>>
  BY DEF ReversePromotion
<1>2. /\ row' = [s \in Pupil |-> row'[s]]
      /\ \A s \in Pupil : row'[s] = [y \in Year |-> row'[s][y]]
      /\ \A s \in Pupil, y \in Year :
            row'[s][y] = IF row[s][y].batch = b /\ y = batches[b].from + 1 THEN NoRow
                         ELSE IF row[s][y].batch = b /\ y = batches[b].from
                              THEN Restored(row[s][y]) ELSE row[s][y]
  BY DEF ReversePromotion, Removed
<1>3. row \in [Pupil -> [Year -> Entry]]
  BY DEF EnrolmentInv, EnrolmentTypeOK, Rows
<1>4. b # NoBatch
  BY DEF EnrolmentInv, BatchInv, NoBatch
<1>5. \A s \in Pupil, y \in Year : row[s][y].batch # b => row'[s][y] = row[s][y]
  BY <1>2
<1>6. \A s \in Pupil, y \in Year :
         /\ row'[s][y] \in Ordinary
         /\ row'[s][y].batch # NoBatch => row'[s][y].batch = row[s][y].batch
  <2> SUFFICES ASSUME NEW s \in Pupil, NEW y \in Year
               PROVE  /\ row'[s][y] \in Ordinary
                      /\ row'[s][y].batch # NoBatch => row'[s][y].batch = row[s][y].batch
    OBVIOUS
  <2>1. CASE row'[s][y] = NoRow
    BY <2>1, NoRowIs DEF Ordinary
  <2>2. CASE row'[s][y] = Restored(row[s][y])
    <3>1. row[s][y] \in Entry
      BY <1>3
    <3>2. /\ row'[s][y] \in Entry /\ row'[s][y].status = "ENROLLED"
          /\ row'[s][y].open = TRUE /\ row'[s][y].batch = row[s][y].batch
      BY <2>2, <3>1, RestoredRow
    <3> QED BY <3>2 DEF Ordinary
  <2>3. CASE row'[s][y] = row[s][y]
    BY <2>3 DEF EnrolmentInv, RowsInv
  <2> QED BY <1>2, <2>1, <2>2, <2>3
<1>7. row' \in Rows
  BY <1>2, <1>6 DEF Rows, Ordinary
<1>8. EnrolmentTypeOK'
  BY <1>1, <1>7 DEF EnrolmentInv, EnrolmentTypeOK
<1>9. AdmissionInv'
  BY <1>1, AdmissionKept DEF EnrolmentInv, PupilsOf, Deciding
<1>10. RowsInv'
  <2>1. \A s \in Pupil : ~pupil[s].there => \A y \in Year : row'[s][y] = NoRow
    BY <1>4, <1>5, NoRowIs DEF EnrolmentInv, RowsInv
  <2> QED BY <1>1, <1>6, <2>1 DEF EnrolmentInv, RowsInv
<1>11. /\ DOMAIN batches' = DOMAIN batches
       /\ \A k \in DOMAIN batches : \A f \in {"from", "items", "before", "after"} :
             batches'[k][f] = batches[k][f]
       /\ batches' \in Seq([from : Year, status : {"EXECUTED", "REVERSED"},
                            items : SUBSET Pupil, before : Rows, after : Rows])
  <2>1. batches \in Seq([from : Year, status : {"EXECUTED", "REVERSED"},
                         items : SUBSET Pupil, before : Rows, after : Rows])
    BY DEF EnrolmentInv, BatchInv
  <2> DEFINE p == [batches[b] EXCEPT !.status = "REVERSED"]
  <2>2. batches[b] \in [from : Year, status : {"EXECUTED", "REVERSED"},
                        items : SUBSET Pupil, before : Rows, after : Rows]
    BY BatchTypes DEF EnrolmentInv
  <2>3. p \in [from : Year, status : {"EXECUTED", "REVERSED"},
               items : SUBSET Pupil, before : Rows, after : Rows]
    BY <2>2
  <2>4. p.from = batches[b].from /\ p.items = batches[b].items
        /\ p.before = batches[b].before /\ p.after = batches[b].after
    BY <2>2
  <2>5. batches' = [batches EXCEPT ![b] = p]
    BY <1>1
  <2> HIDE DEF p
  <2>6. /\ DOMAIN batches' = DOMAIN batches /\ batches'[b] = p
        /\ \A k \in DOMAIN batches \ {b} : batches'[k] = batches[k]
    BY <2>1, <2>5
  <2>7. batches' \in Seq([from : Year, status : {"EXECUTED", "REVERSED"},
                         items : SUBSET Pupil, before : Rows, after : Rows])
    BY <2>1, <2>3, <2>5
  <2> QED BY <2>4, <2>6, <2>7
<1>12. TagInv'
  BY <1>6, <1>11 DEF EnrolmentInv, TagInv
<1>13. /\ ~raced' => ~raced /\ Enrolling = {}
       /\ ~tangled' => ~tangled /\ Untouched(b)
  BY <1>1
<1>14. BatchInv'
  <2> SUFFICES ASSUME NEW k \in DOMAIN batches, NEW s \in batches[k].items
               PROVE  /\ Turned(batches'[k], k, batches'[k].before[s], batches'[k].after[s])
                      /\ ~raced' => /\ batches'[k].before[s][batches'[k].from].status = "ENROLLED"
                                    /\ batches'[k].before[s][batches'[k].from].open
                      /\ Clean' => Single(batches'[k].before[s]) /\ ~Certified(batches'[k].before[s])
    BY <1>11 DEF BatchInv
  <2>1. /\ Turned(batches[k], k, batches[k].before[s], batches[k].after[s])
        /\ ~raced => /\ batches[k].before[s][batches[k].from].status = "ENROLLED"
                     /\ batches[k].before[s][batches[k].from].open
        /\ Clean => Single(batches[k].before[s]) /\ ~Certified(batches[k].before[s])
    BY DEF EnrolmentInv, BatchInv
  <2>2. /\ batches'[k].from = batches[k].from /\ batches'[k].before = batches[k].before
        /\ batches'[k].after = batches[k].after
    BY <1>11
  <2> QED BY <1>13, <2>1, <2>2 DEF Clean, Turned
<1>15. FlowInv'
  <2>1. SUFFICES ASSUME ~raced' PROVE FlowInv!2'
    BY DEF FlowInv
  <2>2. Enrolling' = {}
    BY <1>1, <1>13, <2>1 DEF Enrolling
  <2> QED BY <2>2 DEF Enrolling, At
<1>16. LiveInv'
  <2>1. SUFFICES ASSUME Clean', NEW s \in Pupil
                 PROVE  /\ Single(row'[s])
                        /\ tcs'[s] > 0 => Live(row'[s]) = {}
                        /\ tcs'[s] > 0 <=> Certified(row'[s])
    BY DEF LiveInv
  <2>2. Clean /\ Untouched(b)
    BY <1>13, <2>1 DEF Clean
  <2>3. /\ Single(row[s]) /\ (tcs[s] > 0 => Live(row[s]) = {})
        /\ tcs[s] > 0 <=> Certified(row[s])
    BY <2>2 DEF EnrolmentInv, LiveInv
  <2>4. CASE s \notin batches[b].items
    <3>1. \A y \in Year : row'[s][y] = row[s][y]
      BY <1>4, <1>5, <2>4 DEF EnrolmentInv, TagInv
    <3> QED BY <1>1, <2>3, <3>1 DEF Single, Live, Certified
  <2>5. CASE s \in batches[b].items
    <3>1. \A y \in Year : row'[s][y].status = batches[b].before[s][y].status
      BY <2>2, <2>5, GivenBack DEF Untouched, Clean
    <3>2. Single(batches[b].before[s]) /\ ~Certified(batches[b].before[s])
      BY <2>2, <2>5 DEF EnrolmentInv, BatchInv
    <3>3. Turned(batches[b], b, batches[b].before[s], row[s])
      BY <2>2, <2>5 DEF EnrolmentInv, BatchInv, Untouched
    <3>4. ~Certified(row[s])
      BY <3>2, <3>3 DEF Turned, Certified
    <3> QED BY <1>1, <2>3, <3>1, <3>2, <3>4 DEF Single, Live, Certified
  <2> QED BY <2>4, <2>5
<1> QED BY <1>8, <1>9, <1>10, <1>12, <1>14, <1>15, <1>16 DEF EnrolmentInv

-----------------------------------------------------------------------------
(* The specification *)

LEMMA EnrolmentInit0 == EnrolmentInit => EnrolmentInv
<1> SUFFICES ASSUME EnrolmentInit PROVE EnrolmentInv
  OBVIOUS
<1> USE DEF EnrolmentInit
<1>1. \A s \in Pupil, y \in Year : row[s][y] = NoRow
  OBVIOUS
<1>2. \A s \in Pupil : pupil[s].there = FALSE /\ tcs[s] = 0
  BY DEF NoPupil
<1>3. \A c \in Clerk : clerk[c].pc = "idle" /\ RequestHolds(clerk[c])
  BY NothingHeld
<1>4. EnrolmentTypeOK
  <2>1. row \in Rows
    BY NoRowIs DEF Rows
  <2>2. pupil \in [Pupil -> [there : BOOLEAN, active : BOOLEAN, from : Applicant \cup {"direct"}]]
    BY DEF NoPupil
  <2>3. application \in [Applicant -> {"NONE", "OPEN", "APPROVED", "ADMITTED"}]
        /\ tcs \in [Pupil -> Nat] /\ DOMAIN clerk = Clerk
    OBVIOUS
  <2> QED BY <1>3, <2>1, <2>2, <2>3 DEF EnrolmentTypeOK
<1>5. AdmissionInv
  <2>1. Deciding = {} /\ \A a \in Applicant : PupilsOf(a) = {}
    BY <1>2, <1>3 DEF Deciding, PupilsOf
  <2> QED BY <2>1 DEF AdmissionInv
<1>6. RowsInv
  BY <1>1, <1>2, NoRowIs DEF RowsInv, Ordinary
<1>7. TagInv
  BY <1>1, NoRowIs DEF TagInv
<1>8. BatchInv
  <2>1. batches \in Seq([from : Year, status : {"EXECUTED", "REVERSED"},
                         items : SUBSET Pupil, before : Rows, after : Rows])
    OBVIOUS
  <2>2. DOMAIN batches = {}
    OBVIOUS
  <2> QED BY <2>1, <2>2 DEF BatchInv
<1>9. FlowInv
  BY <1>3 DEF FlowInv, Enrolling, At
<1>10. LiveInv
  BY <1>1, <1>2, NoRowIs DEF LiveInv, Single, Live, Certified
<1> QED BY <1>4, <1>5, <1>6, <1>7, <1>8, <1>9, <1>10 DEF EnrolmentInv

LEMMA EnrolmentStep == EnrolmentInv /\ [EnrolmentNext]_enrolmentVars => EnrolmentInv'
<1> SUFFICES ASSUME EnrolmentInv, [EnrolmentNext]_enrolmentVars PROVE EnrolmentInv'
  OBVIOUS
<1>1. CASE UNCHANGED enrolmentVars
  <2>1. EnrolmentTypeOK'
    BY <1>1 DEF EnrolmentInv, EnrolmentTypeOK, enrolmentVars
  <2>2. AdmissionInv'
    BY <1>1, AdmissionKept DEF EnrolmentInv, enrolmentVars, PupilsOf, Deciding
  <2>3. RowsInv' /\ TagInv' /\ BatchInv' /\ LiveInv'
    BY <1>1, Unwritten DEF EnrolmentInv, enrolmentVars
  <2>4. FlowInv'
    BY <1>1, FlowKept DEF EnrolmentInv, enrolmentVars, Enrolling
  <2> QED BY <2>1, <2>2, <2>3, <2>4 DEF EnrolmentInv
<1>2. ASSUME NEW c \in Clerk, Admissions(c) PROVE EnrolmentInv'
  BY <1>2, StartAdmitStep, StartDecisionStep, DecideStep, AdmitStep DEF Admissions
<1>3. ASSUME NEW c \in Clerk, Promotion(c) PROVE EnrolmentInv'
  BY <1>3, PreviewStep, ExecuteStep DEF Promotion
<1>4. ASSUME NEW c \in Clerk, Certificates(c) PROVE EnrolmentInv'
  BY <1>4, StartTcStep, IssueTcStep DEF Certificates
<1>5. ASSUME NEW c \in Clerk, Crash(c) PROVE EnrolmentInv'
  BY <1>5, Ends DEF Crash
<1>6. ASSUME NEW b \in 1 .. Len(batches), ReversePromotion(b) PROVE EnrolmentInv'
  <2>1. b \in DOMAIN batches
    BY DEF EnrolmentInv, BatchInv
  <2> QED BY <1>6, <2>1, ReverseStep
<1>7. CASE EnrolmentNext
  BY <1>2, <1>3, <1>4, <1>5, <1>6, <1>7, ApplyStep, CreateStudentStep, DeleteStudentStep
     DEF EnrolmentNext
<1> QED BY <1>1, <1>7

\* Unless requests crossed, an ADMITTED application has one pupil and any other
\* none; a row is open exactly while it is ENROLLED; and a pupil has at most one
\* live enrolment, none after a transfer certificate (admission.routes.ts:230-309,
\* enrollments.ts:4-7).
THEOREM EnrolledOnceHolds == EnrolmentSpec => []EnrolledOnce
<1>1. EnrolmentInv => EnrolledOnce
  <2> SUFFICES ASSUME EnrolmentInv PROVE EnrolledOnce
    OBVIOUS
  <2>1. ASSUME ~redecided, NEW a \in Applicant
        PROVE  Cardinality({s \in Pupil : pupil[s].there /\ pupil[s].from = a})
                  = IF application[a] = "ADMITTED" THEN 1 ELSE 0
    <3>1. Cardinality(PupilsOf(a)) = IF application[a] = "ADMITTED" THEN 1 ELSE 0
      BY <2>1, FS_EmptySet, FS_Singleton DEF EnrolmentInv, AdmissionInv
    <3> QED BY <3>1 DEF PupilsOf
  <2>2. ASSUME NEW s \in Pupil, NEW y \in Year
        PROVE  row[s][y].open = (row[s][y].status = "ENROLLED")
    <3>1. row[s][y].open <=> row[s][y].status = "ENROLLED"
      BY DEF EnrolmentInv, RowsInv, Ordinary
    <3>2. row[s][y].open \in BOOLEAN
      BY DEF EnrolmentInv, RowsInv, Ordinary, Entry
    <3> QED BY <3>1, <3>2
  <2>3. ASSUME Clean, NEW s \in Pupil
        PROVE  Cardinality(Live(row[s])) <= IF tcs[s] > 0 THEN 0 ELSE 1
    <3>1. Single(row[s]) /\ (tcs[s] > 0 => Live(row[s]) = {})
      BY <2>3 DEF EnrolmentInv, LiveInv
    <3>2. CASE Live(row[s]) = {}
      BY <3>2, FS_EmptySet
    <3>3. CASE Live(row[s]) # {}
      <4>1. PICK y \in Live(row[s]) : TRUE
        BY <3>3
      <4>2. Live(row[s]) = {y}
        BY <3>1, <4>1 DEF Single
      <4>3. Cardinality(Live(row[s])) = 1
        BY <4>2, FS_Singleton
      <4> QED BY <3>1, <3>3, <4>3
    <3> QED BY <3>2, <3>3
  <2> QED BY <2>1, <2>2, <2>3 DEF EnrolledOnce, Clean, Live
<1> QED BY <1>1, EnrolmentInit0, EnrolmentStep, PTL DEF EnrolmentSpec

LEMMA SeenAlike ==
    ASSUME NEW e \in Entry, NEW f \in Entry,
           e.status = f.status, e.open = f.open, e.roll = f.roll
    PROVE  [e EXCEPT !.batch = NoBatch] = [f EXCEPT !.batch = NoBatch]
<1>1. [e EXCEPT !.batch = NoBatch] =
         [status |-> e.status, open |-> e.open, roll |-> e.roll, batch |-> NoBatch]
  BY DEF Entry
<1>2. [f EXCEPT !.batch = NoBatch] =
         [status |-> f.status, open |-> f.open, roll |-> f.roll, batch |-> NoBatch]
  BY DEF Entry
<1> QED BY <1>1, <1>2

\* Reversing a batch whose rows are as it left them gives every pupil of it the
\* rows of before, unless two promotions ran at once (promotion.ts:254-298).
THEOREM ReversalRestoresHolds == EnrolmentSpec => ReversalRestores
<1>1. EnrolmentInv /\ [EnrolmentNext]_enrolmentVars =>
         [\A b \in 1 .. Len(batches) :
             Reverses(b) /\ ~raced /\ Untouched(b) => Restores(b)]_enrolmentVars
  <2> SUFFICES ASSUME EnrolmentInv, [EnrolmentNext]_enrolmentVars,
                      NEW b \in 1 .. Len(batches), Reverses(b), ~raced, Untouched(b)
               PROVE  Restores(b)
    OBVIOUS
  <2>1. b \in DOMAIN batches /\ batches'[b] # batches[b]
    BY DEF EnrolmentInv, BatchInv, Reverses
  <2>2. ReversePromotion(b)
    <3>1. ASSUME NEW c \in Clerk, Execute(c) PROVE batches'[b] = batches[b]
      <4>1. \/ UNCHANGED batches
            \/ \E p : batches' = Append(batches, p)
        BY <3>1 DEF Execute
      <4> QED BY <4>1 DEF EnrolmentInv, BatchInv
    <3>2. ASSUME NEW k \in 1 .. Len(batches), ReversePromotion(k), k # b
          PROVE  batches'[b] = batches[b]
      BY <2>1, <3>2 DEF ReversePromotion
    <3>3. PICK k \in 1 .. Len(batches) : ReversePromotion(k)
      BY <2>1, <3>1 DEF EnrolmentNext, enrolmentVars, Admissions, Promotion, Certificates,
            Apply, StartDecision, Decide, StartAdmit, Admit, CreateStudent, DeleteStudent,
            Preview, StartTc, IssueTc, Crash
    <3> QED BY <2>1, <3>2, <3>3
  <2>3. EnrolmentInv'
    BY EnrolmentStep
  <2> SUFFICES ASSUME NEW s \in batches[b].items
               PROVE  Seen(row'[s]) = Seen(batches[b].before[s])
    BY DEF Restores
  <2>4. /\ batches[b].items \in SUBSET Pupil /\ batches[b].before \in Rows
    <3>1. batches[b] \in [from : Year, status : {"EXECUTED", "REVERSED"},
                          items : SUBSET Pupil, before : Rows, after : Rows]
      BY <2>1, BatchTypes DEF EnrolmentInv
    <3> QED BY <3>1
  <2>5. ASSUME NEW y \in Year
        PROVE  [row'[s][y] EXCEPT !.batch = NoBatch]
                  = [batches[b].before[s][y] EXCEPT !.batch = NoBatch]
    <3>1. /\ row'[s][y].status = batches[b].before[s][y].status
          /\ row'[s][y].open = batches[b].before[s][y].open
          /\ row'[s][y].roll = batches[b].before[s][y].roll
      BY <2>1, <2>2, GivenBack DEF Untouched
    <3>2. row'[s][y] \in Entry /\ batches[b].before[s][y] \in Entry
      BY <2>3, <2>4 DEF EnrolmentInv, EnrolmentTypeOK, Rows
    <3> QED BY <3>1, <3>2, SeenAlike
  <2> QED BY <2>5 DEF Seen
<1> QED BY <1>1, EnrolmentInit0, EnrolmentStep, PTL DEF EnrolmentSpec, ReversalRestores

-----------------------------------------------------------------------------
(* The timetable of a branch and the copies of a book (Academics) *)

Issued == {n \in DOMAIN loans : loans[n] = "ISSUED"}
At2(pc) == {h \in Office : AtDesk(h, pc)}
Lending(h) == desk[h].pc \in {"lend", "decrement"}

AcademicsTypeOK ==
    /\ grid \in [Place -> Staff \cup {Vacant, Nobody}] /\ till \in [Place -> Nat]
    /\ available \in Int /\ loans \in Seq({"ISSUED", "RETURNED"})
    /\ DOMAIN desk = Office
    /\ \A h \in Office :
          /\ AtDesk(h, "add") =>
                /\ desk[h].place \in Place /\ desk[h].who \in Staff \cup {Nobody}
                /\ desk[h].end \in Finish
          /\ AtDesk(h, "solve") => desk[h].keep \subseteq Class /\ desk[h].bells \in Grids
          /\ AtDesk(h, "return") => desk[h].n \in DOMAIN loans

\* What a handler read of the rows still covers those there are.
Fits(h) ==
    /\ AtDesk(h, "add") /\ desk[h].who # Nobody => ~Clash(desk[h].place, desk[h].who)
    /\ AtDesk(h, "solve") =>
          \A p \in Place :
             p[1] \in desk[h].keep /\ p[2] \in DOMAIN desk[h].bells
                /\ grid[p] \notin {Vacant, Nobody}
             => p \in DOMAIN desk[h].locks /\ desk[h].locks[p] = grid[p]

\* No teacher has two rows that start together.
NeverTogether ==
    \A p, q \in {r \in Filled : r[1] \in Class} :
        p # q /\ p[2] = q[2] /\ grid[p] # Nobody => grid[p] # grid[q]

GridInv ==
    "grid" \notin crossed => NeverTogether /\ \A h \in Office \ behind : Fits(h)

LendInv ==
    "lend" \notin crossed =>
        /\ available >= 0
        /\ \A g, h \in Office : Lending(g) /\ Lending(h) => g = h /\ available >= 1

CopiesInv ==
    "return" \notin crossed =>
        available + Cardinality(Issued)
            = Copies + Cardinality(At2("decrement")) - Cardinality(At2("increment"))

AcademicsInv == AcademicsTypeOK /\ GridInv /\ LendInv /\ CopiesInv

LEMMA NobodyThere ==
    ASSUME \A h \in Office : desk[h].pc = "free"
    PROVE  At2("decrement") = {} /\ At2("increment") = {}
BY DEF At2, AtDesk

LEMMA AcademicsInit0 == AcademicsInit => AcademicsInv
<1> SUFFICES ASSUME AcademicsInit PROVE AcademicsInv
  OBVIOUS
<1> USE DEF AcademicsInit
<1>1. AcademicsTypeOK
  <2>1. DOMAIN desk = Office /\ \A h \in Office : desk[h].pc = "free"
    BY DEF NoWork
  <2>2. loans \in Seq({"ISSUED", "RETURNED"})
    OBVIOUS
  <2> QED BY <2>1, <2>2, AcademicsAssumption DEF AcademicsTypeOK, AtDesk
<1>2. GridInv
  <2>1. NeverTogether
    BY DEF NeverTogether, Filled
  <2> QED BY <2>1 DEF GridInv, Fits, AtDesk, NoWork
<1>3. LendInv
  BY AcademicsAssumption DEF LendInv, Lending, NoWork
<1>4. CopiesInv
  <2>1. Issued = {}
    <3>1. DOMAIN loans = 1 .. 0
      OBVIOUS
    <3> QED BY <3>1 DEF Issued
  <2>2. At2("decrement") = {} /\ At2("increment") = {}
    <3>1. \A h \in Office : desk[h].pc = "free"
      BY DEF NoWork
    <3> QED BY <3>1, NobodyThere
  <2>3. /\ Cardinality(Issued) = 0 /\ Cardinality(At2("decrement")) = 0
        /\ Cardinality(At2("increment")) = 0
    BY <2>1, <2>2, FS_EmptySet
  <2>4. available = Copies /\ Copies \in Int
    BY AcademicsAssumption
  <2> HIDE DEF AcademicsInit
  <2> QED BY <2>3, <2>4 DEF CopiesInv
<1> QED BY <1>1, <1>2, <1>3, <1>4 DEF AcademicsInv

\* A handler's next state, and who is at a step then.
LEMMA TakesStep ==
    ASSUME AcademicsTypeOK, NEW h \in Office, NEW s, Takes(h, s)
    PROVE  /\ DOMAIN desk' = Office /\ desk'[h] = s
           /\ \A g \in Office \ {h} : desk'[g] = desk[g]
           /\ \A pc : At2(pc)' = IF s.pc = pc THEN At2(pc) \cup {h} ELSE At2(pc) \ {h}
<1>1. /\ DOMAIN desk' = Office /\ desk'[h] = s
      /\ \A g \in Office \ {h} : desk'[g] = desk[g]
  BY DEF AcademicsTypeOK, Takes
<1> QED BY <1>1 DEF At2, AtDesk

LEMMA Counts ==
    ASSUME AcademicsTypeOK, NEW h \in Office, NEW pc
    PROVE  /\ Cardinality(At2(pc)) \in Nat
           /\ Cardinality(At2(pc) \cup {h}) =
                 Cardinality(At2(pc)) + (IF AtDesk(h, pc) THEN 0 ELSE 1)
           /\ Cardinality(At2(pc) \ {h}) =
                 Cardinality(At2(pc)) - (IF AtDesk(h, pc) THEN 1 ELSE 0)
<1>1. At2(pc) \in SUBSET Office /\ (h \in At2(pc) <=> AtDesk(h, pc))
  BY DEF At2
<1>2. IsFiniteSet(At2(pc))
  BY <1>1, FS_Subset, AcademicsAssumption
<1>3. Cardinality(At2(pc)) \in Nat
  BY <1>2, FS_CardinalityType
<1>4. Cardinality(At2(pc) \cup {h}) =
         IF h \in At2(pc) THEN Cardinality(At2(pc)) ELSE Cardinality(At2(pc)) + 1
  BY <1>2, FS_AddElement
<1>5. Cardinality(At2(pc) \ {h}) =
         IF h \in At2(pc) THEN Cardinality(At2(pc)) - 1 ELSE Cardinality(At2(pc))
  BY <1>2, FS_RemoveElement
<1> QED BY <1>1, <1>3, <1>4, <1>5

LEMMA IssuedFinite ==
    ASSUME AcademicsTypeOK
    PROVE  IsFiniteSet(Issued) /\ Cardinality(Issued) \in Nat
<1>1. Len(loans) \in Nat /\ DOMAIN loans = 1 .. Len(loans)
  BY DEF AcademicsTypeOK
<1>2. IsFiniteSet(1 .. Len(loans))
  BY <1>1, FS_Interval
<1>3. Issued \in SUBSET (1 .. Len(loans))
  BY <1>1 DEF Issued
<1>4. IsFiniteSet(Issued)
  BY <1>2, <1>3, FS_Subset
<1> QED BY <1>4, FS_CardinalityType

\* Handlers that move while neither the books nor the counts do.
LEMMA BooksKept ==
    ASSUME AcademicsInv, NEW h \in Office, NEW s, Takes(h, s), UNCHANGED books,
           ~Lending(h), ~AtDesk(h, "increment"),
           s.pc \notin {"lend", "decrement", "increment"},
           crossed \ {"grid"} = crossed' \ {"grid"}
    PROVE  LendInv' /\ CopiesInv'
<1>1. /\ DOMAIN desk' = Office /\ desk'[h] = s
      /\ \A g \in Office \ {h} : desk'[g] = desk[g]
      /\ \A pc : At2(pc)' = IF s.pc = pc THEN At2(pc) \cup {h} ELSE At2(pc) \ {h}
  BY TakesStep DEF AcademicsInv
<1>2. \A g \in Office : Lending(g)' => Lending(g)
  BY <1>1 DEF Lending
<1>3. LendInv'
  BY <1>2 DEF AcademicsInv, LendInv, books
<1>4. At2("decrement")' = At2("decrement") /\ At2("increment")' = At2("increment")
  BY <1>1 DEF At2, AtDesk, Lending
<1>5. Issued' = Issued
  BY DEF Issued, books
<1> QED BY <1>3, <1>4, <1>5 DEF AcademicsInv, CopiesInv, books

\* Handlers that move while the rows stay.
LEMMA GridKept ==
    ASSUME AcademicsInv, NEW h \in Office, NEW s, Takes(h, s), UNCHANGED grid,
           "grid" \in crossed => "grid" \in crossed', behind \ {h} \subseteq behind',
           h \notin behind' => Fits(h)'
    PROVE  GridInv'
<1>1. /\ DOMAIN desk' = Office /\ desk'[h] = s
      /\ \A g \in Office \ {h} : desk'[g] = desk[g]
  BY TakesStep DEF AcademicsInv
<1>2. \A g \in Office \ {h} : Fits(g) => Fits(g)'
  BY <1>1 DEF Fits, AtDesk, Clash
<1>3. NeverTogether => NeverTogether'
  BY DEF NeverTogether, Filled
<1> QED BY <1>2, <1>3 DEF AcademicsInv, GridInv

\* Handlers that move while the tables keep their types.
LEMMA TypesKept ==
    ASSUME AcademicsTypeOK, NEW h \in Office, NEW s, Takes(h, s),
           s.pc = "add" => /\ s.place \in Place /\ s.who \in Staff \cup {Nobody}
                           /\ s.end \in Finish,
           s.pc = "solve" => s.keep \subseteq Class /\ s.bells \in Grids,
           s.pc = "return" => s.n \in DOMAIN loans,
           DOMAIN loans \subseteq DOMAIN loans',
           grid' \in [Place -> Staff \cup {Vacant, Nobody}], till' \in [Place -> Nat],
           available' \in Int, loans' \in Seq({"ISSUED", "RETURNED"})
    PROVE  AcademicsTypeOK'
<1>1. /\ DOMAIN desk' = Office /\ desk'[h] = s
      /\ \A g \in Office \ {h} : desk'[g] = desk[g]
  BY TakesStep
<1>2. \A g \in Office :
         /\ AtDesk(g, "add")' =>
               /\ desk'[g].place \in Place /\ desk'[g].who \in Staff \cup {Nobody}
               /\ desk'[g].end \in Finish
         /\ AtDesk(g, "solve")' => desk'[g].keep \subseteq Class /\ desk'[g].bells \in Grids
         /\ AtDesk(g, "return")' => desk'[g].n \in DOMAIN loans'
  BY <1>1 DEF AcademicsTypeOK, AtDesk
<1> QED BY <1>1, <1>2 DEF AcademicsTypeOK

LEMMA CheckSlotStep ==
    ASSUME AcademicsInv, NEW h \in Office, NEW place \in Place, NEW who \in Staff \cup {Nobody},
           NEW end \in Finish, CheckSlot(h, place, who, end)
    PROVE  AcademicsInv'
<1> DEFINE s == [pc |-> "add", place |-> place, who |-> who, end |-> end]
<1>0. s.pc = "add" /\ s.place = place /\ s.who = who /\ s.end = end
  OBVIOUS
<1>1. /\ Takes(h, s) /\ desk[h] = NoWork /\ UNCHANGED <<grid, till, books, behind, crossed>>
      /\ who = Nobody \/ ~Clash(place, who)
  BY DEF CheckSlot, Starts
<1> HIDE DEF s
<1>2. desk'[h] = s
  BY <1>1, TakesStep DEF AcademicsInv
<1>3. Fits(h)'
  BY <1>0, <1>1, <1>2 DEF Fits, AtDesk, Clash
<1>4. GridInv'
  BY <1>1, <1>3, GridKept
<1>5. LendInv' /\ CopiesInv'
  BY <1>0, <1>1, BooksKept DEF Lending, AtDesk, NoWork
<1>6. AcademicsTypeOK'
  BY <1>0, <1>1, TypesKept DEF AcademicsInv, AcademicsTypeOK, books
<1> QED BY <1>4, <1>5, <1>6 DEF AcademicsInv

LEMMA BuildProblemStep ==
    ASSUME AcademicsInv, NEW h \in Office, NEW keep \in SUBSET Class, NEW bells \in Grids,
           BuildProblem(h, keep, bells)
    PROVE  AcademicsInv'
<1> DEFINE locks == Restrict(grid, Locked(keep, bells))
           s == [pc |-> "solve", keep |-> keep, bells |-> bells, locks |-> locks]
<1>0. s.pc = "solve" /\ s.keep = keep /\ s.bells = bells /\ s.locks = locks
  OBVIOUS
<1>1. Takes(h, s) /\ desk[h] = NoWork /\ UNCHANGED <<grid, till, books, behind, crossed>>
  BY DEF BuildProblem, Starts
<1>2. \A p \in Place : p[1] \in keep /\ p[2] \in DOMAIN bells /\ grid[p] \notin {Vacant, Nobody}
                       => p \in DOMAIN locks /\ locks[p] = grid[p]
  BY DEF Restrict, Locked, Filled
<1> HIDE DEF s, locks
<1>3. desk'[h] = s
  BY <1>1, TakesStep DEF AcademicsInv
<1>4. Fits(h)'
  BY <1>0, <1>1, <1>2, <1>3 DEF Fits, AtDesk
<1>5. GridInv'
  BY <1>1, <1>4, GridKept
<1>6. LendInv' /\ CopiesInv'
  BY <1>0, <1>1, BooksKept DEF Lending, AtDesk, NoWork
<1>7. AcademicsTypeOK'
  BY <1>0, <1>1, TypesKept DEF AcademicsInv, AcademicsTypeOK, books
<1> QED BY <1>5, <1>6, <1>7 DEF AcademicsInv

\* After an insertion no handler but those behind still relies on the rows.
LEMMA NobodyElse ==
    ASSUME AcademicsInv, NEW h \in Office, Takes(h, NoWork), Inserted(h)
    PROVE  /\ \A g \in Office \ behind' : Fits(g)'
           /\ "grid" \notin crossed' => "grid" \notin crossed /\ h \notin behind
           /\ crossed \ {"grid"} = crossed' \ {"grid"}
<1>1. /\ desk'[h] = NoWork /\ \A g \in Office \ {h} : desk'[g] = desk[g]
  BY TakesStep DEF AcademicsInv
<1>2. \A g \in Office \ behind' : ~AtDesk(g, "add")' /\ ~AtDesk(g, "solve")'
  BY <1>1 DEF Inserted, AtDesk, NoWork
<1> QED BY <1>2 DEF Inserted, Fits

LEMMA AddSlotStep ==
    ASSUME AcademicsInv, NEW h \in Office, AddSlot(h)
    PROVE  AcademicsInv'
<1>1. AtDesk(h, "add") /\ Takes(h, NoWork) /\ UNCHANGED <<available, loans>>
  BY DEF AddSlot, books
<1>2. PICK place \in Place, who \in Staff \cup {Nobody}, end \in Finish :
         place = desk[h].place /\ who = desk[h].who /\ end = desk[h].end
  BY <1>1 DEF AcademicsInv, AcademicsTypeOK
<1>3. NoWork.pc = "free"
  BY DEF NoWork
<1>4. CASE grid[place] = Vacant
  <2>1. /\ grid' = [grid EXCEPT ![place] = who] /\ till' = [till EXCEPT ![place] = end]
        /\ Inserted(h)
    BY <1>2, <1>4 DEF AddSlot
  <2>2. grid' \in [Place -> Staff \cup {Vacant, Nobody}] /\ till' \in [Place -> Nat]
    BY <1>2, <2>1, AcademicsAssumption DEF AcademicsInv, AcademicsTypeOK
  <2>3. AcademicsTypeOK'
    BY <1>1, <1>3, <2>2, TypesKept DEF AcademicsInv, AcademicsTypeOK
  <2>4. /\ \A g \in Office \ behind' : Fits(g)'
        /\ "grid" \notin crossed' => "grid" \notin crossed /\ h \notin behind
        /\ crossed \ {"grid"} = crossed' \ {"grid"}
    BY <1>1, <2>1, NobodyElse
  <2>5. LendInv' /\ CopiesInv'
    BY <1>1, <1>3, <2>4, BooksKept DEF Lending, AtDesk, books
  <2>6. ASSUME "grid" \notin crossed' PROVE NeverTogether'
    <3>1. NeverTogether /\ Fits(h) /\ "grid" \notin crossed
      BY <2>4, <2>6 DEF AcademicsInv, GridInv
    <3>2. who = Nobody \/ ~Clash(place, who)
      BY <1>1, <1>2, <3>1 DEF Fits
    <3> SUFFICES ASSUME NEW p \in Place, NEW q \in Place, p # q, p[2] = q[2],
                        p[1] \in Class, q[1] \in Class,
                        grid'[p] \notin {Vacant, Nobody}, grid'[q] = grid'[p]
                 PROVE  FALSE
      BY DEF NeverTogether, Filled
    <3>3. p[1] # q[1]
      BY DEF Place
    <3>4. grid \in [Place -> Staff \cup {Vacant, Nobody}]
      BY DEF AcademicsInv, AcademicsTypeOK
    <3>5. p # place /\ q # place
      BY <2>1, <3>2, <3>3, <3>4 DEF Clash
    <3> QED BY <2>1, <3>1, <3>4, <3>5 DEF NeverTogether, Filled
  <2>7. GridInv'
    BY <2>4, <2>6 DEF GridInv
  <2> QED BY <2>3, <2>5, <2>7 DEF AcademicsInv
<1>5. CASE grid[place] # Vacant
  <2>1. behind' = behind \ {h} /\ UNCHANGED <<grid, till, crossed>>
    BY <1>2, <1>5 DEF AddSlot
  <2>2. desk'[h] = NoWork
    BY <1>1, TakesStep DEF AcademicsInv
  <2>3. Fits(h)'
    BY <1>3, <2>2 DEF Fits, AtDesk
  <2>4. GridInv'
    BY <1>1, <2>1, <2>3, GridKept
  <2>5. LendInv' /\ CopiesInv'
    BY <1>1, <1>3, <2>1, BooksKept DEF Lending, AtDesk, books
  <2>6. AcademicsTypeOK'
    BY <1>1, <1>3, <2>1, TypesKept DEF AcademicsInv, AcademicsTypeOK
  <2> QED BY <2>4, <2>5, <2>6 DEF AcademicsInv
<1> QED BY <1>4, <1>5

LEMMA DeleteSlotStep ==
    ASSUME AcademicsInv, NEW place \in Filled, DeleteSlot(place)
    PROVE  AcademicsInv'
<1>1. /\ grid' = [grid EXCEPT ![place] = Vacant] /\ till' = [till EXCEPT ![place] = 0]
      /\ place \in Place
      /\ UNCHANGED <<available, loans, desk, behind, crossed>>
  BY DEF DeleteSlot, Filled, books
<1>2. grid \in [Place -> Staff \cup {Vacant, Nobody}]
  BY DEF AcademicsInv, AcademicsTypeOK
<1>3. \A p \in Place : grid'[p] = IF p = place THEN Vacant ELSE grid[p]
  BY <1>1, <1>2
<1>4. AcademicsTypeOK'
  <2>1. grid' \in [Place -> Staff \cup {Vacant, Nobody}] /\ till' \in [Place -> Nat]
    BY <1>1, <1>2 DEF AcademicsInv, AcademicsTypeOK
  <2> QED BY <1>1, <2>1 DEF AcademicsInv, AcademicsTypeOK, AtDesk
<1>5. ASSUME NeverTogether, "grid" \notin crossed PROVE NeverTogether'
  <2> SUFFICES ASSUME NEW p \in Place, NEW q \in Place, p # q, p[2] = q[2],
                      p[1] \in Class, q[1] \in Class,
                      grid'[p] \notin {Vacant, Nobody}, grid'[q] = grid'[p]
               PROVE  FALSE
    BY DEF NeverTogether, Filled
  <2>1. grid[p] = grid'[p] /\ grid[q] = grid'[q]
    BY <1>3
  <2>2. p \in Filled /\ q \in Filled /\ grid[p] # Nobody /\ grid[p] = grid[q]
    BY <2>1 DEF Filled
  <2> QED BY <1>5, <2>2 DEF NeverTogether
<1>6. ASSUME NEW h \in Office, Fits(h) PROVE Fits(h)'
  <2>1. AtDesk(h, "add") => desk[h].who # Vacant
    BY AcademicsAssumption DEF AcademicsInv, AcademicsTypeOK, Vacant, Nobody
  <2>2. ASSUME AtDesk(h, "add"), ~Clash(desk[h].place, desk[h].who)
        PROVE  ~Clash(desk[h].place, desk[h].who)'
    BY <1>1, <1>3, <2>1, <2>2 DEF Clash
  <2> QED BY <1>1, <1>3, <1>6, <2>2 DEF Fits, AtDesk
<1>7. GridInv'
  BY <1>1, <1>5, <1>6 DEF AcademicsInv, GridInv
<1>8. LendInv' /\ CopiesInv'
  BY <1>1 DEF AcademicsInv, LendInv, Lending, CopiesInv, Issued, At2, AtDesk
<1> QED BY <1>4, <1>7, <1>8 DEF AcademicsInv

LEMMA PersistStep ==
    ASSUME AcademicsInv, NEW h \in Office, Persist(h)
    PROVE  AcademicsInv'
<1>1. AtDesk(h, "solve") /\ Takes(h, NoWork) /\ UNCHANGED <<available, loans>>
  BY DEF Persist, books
<1>2. PICK keep \in SUBSET Class, bells \in Grids : keep = desk[h].keep /\ bells = desk[h].bells
  BY <1>1 DEF AcademicsInv, AcademicsTypeOK
<1>3. NoWork.pc = "free"
  BY DEF NoWork
<1>4. grid \in [Place -> Staff \cup {Vacant, Nobody}]
  BY DEF AcademicsInv, AcademicsTypeOK
<1> DEFINE new == {p \in Place : p[1] \in Class \ keep}
           taught(b) == {p \in new \cap DOMAIN b : b[p] # Vacant}
<1>5. CASE behind' = behind \ {h} /\ UNCHANGED <<grid, till, crossed>>
  <2>1. desk'[h] = NoWork
    BY <1>1, TakesStep DEF AcademicsInv
  <2>2. Fits(h)'
    BY <1>3, <2>1 DEF Fits, AtDesk
  <2>3. GridInv'
    BY <1>1, <1>5, <2>2, GridKept
  <2>4. LendInv' /\ CopiesInv'
    BY <1>1, <1>3, <1>5, BooksKept DEF Lending, AtDesk, books
  <2>5. AcademicsTypeOK'
    BY <1>1, <1>3, <1>5, TypesKept DEF AcademicsInv, AcademicsTypeOK
  <2> QED BY <2>3, <2>4, <2>5 DEF AcademicsInv
<1>6. ASSUME NEW b \in Solved(desk[h].locks, bells), Inserted(h),
             grid' = [p \in Place |-> IF p \in taught(b) THEN b[p]
                                      ELSE IF p \in new THEN Vacant ELSE grid[p]],
             till' = [p \in Place |-> IF p \in taught(b) THEN bells[p[2]]
                                      ELSE IF p \in new THEN 0 ELSE till[p]]
      PROVE  AcademicsInv'
  <2>1. /\ b \in [Class \X DOMAIN bells -> Staff \cup {Vacant}]
        /\ \A p \in DOMAIN desk[h].locks : b[p] = desk[h].locks[p]
        /\ \A p, q \in Class \X DOMAIN bells :
              p # q /\ p[2] = q[2] /\ b[p] # Vacant => b[p] # b[q]
    BY DEF Solved
  <2>9. /\ taught(b) \subseteq new /\ taught(b) \subseteq Class \X DOMAIN bells
        /\ \A p \in taught(b) : b[p] \in Staff /\ bells[p[2]] \in Nat
    BY <2>1, AcademicsAssumption
  <2> HIDE DEF taught
  <2>2. \A p \in Place : grid'[p] = IF p \in taught(b) THEN b[p]
                                    ELSE IF p \in new THEN Vacant ELSE grid[p]
    BY <1>6
  <2>3. grid' \in [Place -> Staff \cup {Vacant, Nobody}] /\ till' \in [Place -> Nat]
    <3>1. grid' \in [Place -> Staff \cup {Vacant, Nobody}]
      BY <1>4, <1>6, <2>9
    <3>2. till \in [Place -> Nat]
      BY DEF AcademicsInv, AcademicsTypeOK
    <3>3. till' \in [Place -> Nat]
      BY <1>6, <2>9, <3>2
    <3> QED BY <3>1, <3>3
  <2>4. AcademicsTypeOK'
    BY <1>1, <1>3, <2>3, TypesKept DEF AcademicsInv, AcademicsTypeOK
  <2>5. /\ \A g \in Office \ behind' : Fits(g)'
        /\ "grid" \notin crossed' => "grid" \notin crossed /\ h \notin behind
        /\ crossed \ {"grid"} = crossed' \ {"grid"}
    BY <1>1, <1>6, NobodyElse
  <2>6. LendInv' /\ CopiesInv'
    BY <1>1, <1>3, <2>5, BooksKept DEF Lending, AtDesk, books
  <2>7. ASSUME "grid" \notin crossed' PROVE NeverTogether'
    <3>1. NeverTogether /\ Fits(h) /\ "grid" \notin crossed
      BY <2>5, <2>7 DEF AcademicsInv, GridInv
    <3>2. \A p \in Place :
             p[1] \in keep /\ p[2] \in DOMAIN bells /\ grid[p] \notin {Vacant, Nobody}
             => b[p] = grid[p]
      BY <1>1, <1>2, <2>1, <3>1 DEF Fits
    <3>3. \A p \in new : grid'[p] # Vacant => p \in Class \X DOMAIN bells /\ grid'[p] = b[p]
      BY <2>2, <2>9
    <3>4. \A p \in Place : p[1] \in Class /\ p \notin new => p[1] \in keep /\ grid'[p] = grid[p]
      BY <2>2, <2>9
    <3>5. \A p \in Place : p[1] \in Class /\ p[2] \in DOMAIN bells => p \in Class \X DOMAIN bells
      BY DEF Place
    <3>6. ASSUME NEW p \in new, NEW q \in Place, p # q, p[2] = q[2], q[1] \in Class,
                 grid'[p] \notin {Vacant, Nobody}, grid'[q] = grid'[p]
          PROVE  FALSE
      <4>1. p \in Class \X DOMAIN bells /\ grid'[p] = b[p] /\ q[2] \in DOMAIN bells
        BY <3>3, <3>6
      <4>2. q \in Class \X DOMAIN bells
        BY <3>5, <3>6, <4>1
      <4>3. grid'[q] = b[q]
        BY <3>2, <3>3, <3>4, <3>6, <4>1
      <4> QED BY <2>1, <3>6, <4>1, <4>2, <4>3
    <3> SUFFICES ASSUME NEW p \in Place, NEW q \in Place, p # q, p[2] = q[2],
                        p[1] \in Class, q[1] \in Class,
                        grid'[p] \notin {Vacant, Nobody}, grid'[q] = grid'[p]
                 PROVE  FALSE
      BY DEF NeverTogether, Filled
    <3>7. p \notin new /\ q \notin new
      BY <3>6
    <3>8. grid[p] = grid'[p] /\ grid[q] = grid'[q]
      BY <3>4, <3>7
    <3>9. p \in Filled /\ q \in Filled /\ grid[p] # Nobody /\ grid[p] = grid[q]
      BY <3>8 DEF Filled
    <3> QED BY <3>1, <3>9 DEF NeverTogether
  <2>8. GridInv'
    BY <2>5, <2>7 DEF GridInv
  <2> QED BY <2>4, <2>6, <2>8 DEF AcademicsInv
<1> QED BY <1>2, <1>5, <1>6 DEF Persist

\* A book on its way over the counter touches no row of the timetable.
LEMMA GridOfOthers ==
    ASSUME AcademicsInv, NEW h \in Office, NEW s, Takes(h, s), UNCHANGED grid,
           s.pc \notin {"add", "solve"}, "grid" \in crossed => "grid" \in crossed',
           behind \ {h} \subseteq behind'
    PROVE  GridInv'
<1>1. desk'[h] = s
  BY TakesStep DEF AcademicsInv
<1>2. Fits(h)'
  BY <1>1 DEF Fits, AtDesk
<1> QED BY <1>2, GridKept

LEMMA FindBookStep == ASSUME AcademicsInv, NEW h \in Office, FindBook(h) PROVE AcademicsInv'
<1> DEFINE s == [pc |-> "lend"]
<1>0. s.pc = "lend"
  OBVIOUS
<1>1. /\ Takes(h, s) /\ desk[h] = NoWork /\ UNCHANGED <<grid, till, books, behind>> /\ available > 0
      /\ crossed \subseteq crossed' /\ crossed' \subseteq crossed \cup {"lend"}
      /\ (\E g \in Office : Lending(g)) => "lend" \in crossed'
  BY DEF FindBook, Starts, Lending
<1> HIDE DEF s
<1>2. /\ DOMAIN desk' = Office /\ desk'[h] = s
      /\ \A g \in Office \ {h} : desk'[g] = desk[g]
      /\ \A pc : At2(pc)' = IF s.pc = pc THEN At2(pc) \cup {h} ELSE At2(pc) \ {h}
  BY <1>1, TakesStep DEF AcademicsInv
<1>3. AcademicsTypeOK'
  BY <1>0, <1>1, TypesKept DEF AcademicsInv, AcademicsTypeOK, books
<1>4. GridInv'
  BY <1>0, <1>1, GridOfOthers
<1>5. \A g \in Office : Lending(g)' => g = h \/ "lend" \in crossed'
  BY <1>1, <1>2 DEF Lending
<1>6. available \in Int
  BY DEF AcademicsInv, AcademicsTypeOK
<1>7. LendInv'
  BY <1>1, <1>5, <1>6 DEF LendInv, books
<1>8. h \notin At2("decrement") /\ h \notin At2("increment")
  BY <1>1 DEF At2, AtDesk, NoWork
<1>9. At2("decrement")' = At2("decrement") /\ At2("increment")' = At2("increment")
  BY <1>0, <1>2, <1>8
<1>10. Issued' = Issued
  BY <1>1 DEF Issued, books
<1>11. CopiesInv'
  BY <1>1, <1>9, <1>10 DEF AcademicsInv, CopiesInv, books
<1> QED BY <1>3, <1>4, <1>7, <1>11 DEF AcademicsInv

LEMMA CreateIssueStep == ASSUME AcademicsInv, NEW h \in Office, CreateIssue(h) PROVE AcademicsInv'
<1> DEFINE s == [pc |-> "decrement"]
<1>0. s.pc = "decrement"
  OBVIOUS
<1>1. /\ AtDesk(h, "lend") /\ Takes(h, s) /\ loans' = Append(loans, "ISSUED")
      /\ UNCHANGED <<grid, till, available, behind, crossed>>
  BY DEF CreateIssue
<1> HIDE DEF s
<1>2. /\ DOMAIN desk' = Office /\ desk'[h] = s
      /\ \A g \in Office \ {h} : desk'[g] = desk[g]
      /\ \A pc : At2(pc)' = IF s.pc = pc THEN At2(pc) \cup {h} ELSE At2(pc) \ {h}
  BY <1>1, TakesStep DEF AcademicsInv
<1>3. loans \in Seq({"ISSUED", "RETURNED"}) /\ available \in Int
  BY DEF AcademicsInv, AcademicsTypeOK
<1>4. PICK k \in Nat : k = Len(loans) + 1
  BY <1>3
<1>5. /\ loans' \in Seq({"ISSUED", "RETURNED"}) /\ DOMAIN loans = 1 .. k - 1
      /\ DOMAIN loans' = 1 .. k /\ loans'[k] = "ISSUED"
      /\ \A n \in 1 .. k - 1 : loans'[n] = loans[n]
  BY <1>1, <1>3, <1>4
<1>6. AcademicsTypeOK'
  BY <1>0, <1>1, <1>3, <1>5, TypesKept DEF AcademicsInv, AcademicsTypeOK
<1>7. GridInv'
  BY <1>0, <1>1, GridOfOthers
<1>8. \A g \in Office : Lending(g)' => Lending(g)
  BY <1>0, <1>1, <1>2 DEF Lending, AtDesk
<1>9. LendInv'
  BY <1>1, <1>8 DEF AcademicsInv, LendInv
<1>10. Issued' = Issued \cup {k} /\ k \notin Issued
  <2>1. k \in 1 .. k /\ k \notin 1 .. k - 1 /\ 1 .. k = (1 .. k - 1) \cup {k}
    BY <1>3, <1>4
  <2> QED BY <1>5, <2>1 DEF Issued
<1>11. Cardinality(Issued') = Cardinality(Issued) + 1 /\ Cardinality(Issued) \in Nat
  BY <1>10, IssuedFinite, FS_AddElement DEF AcademicsInv
<1>12. /\ At2("increment")' = At2("increment")
       /\ At2("decrement")' = At2("decrement") \cup {h}
  BY <1>0, <1>1, <1>2 DEF At2, AtDesk
<1>13. /\ Cardinality(At2("decrement") \cup {h}) = Cardinality(At2("decrement")) + 1
       /\ Cardinality(At2("decrement")) \in Nat /\ Cardinality(At2("increment")) \in Nat
  BY <1>1, Counts DEF AtDesk, AcademicsInv
<1>14. CopiesInv'
  <2>1. /\ Cardinality(At2("decrement")') = Cardinality(At2("decrement")) + 1
        /\ Cardinality(At2("increment")') = Cardinality(At2("increment"))
    BY <1>12, <1>13
  <2> QED BY <1>1, <1>3, <1>11, <1>13, <2>1, AcademicsAssumption DEF AcademicsInv, CopiesInv
<1> QED BY <1>6, <1>7, <1>9, <1>14 DEF AcademicsInv

LEMMA DecrementStep == ASSUME AcademicsInv, NEW h \in Office, Decrement(h) PROVE AcademicsInv'
<1>1. /\ AtDesk(h, "decrement") /\ Takes(h, NoWork) /\ available' = available - 1
      /\ UNCHANGED <<grid, till, loans, behind, crossed>>
  BY DEF Decrement
<1>0. NoWork.pc = "free"
  BY DEF NoWork
<1>2. /\ DOMAIN desk' = Office /\ desk'[h] = NoWork
      /\ \A g \in Office \ {h} : desk'[g] = desk[g]
      /\ \A pc : At2(pc)' = IF NoWork.pc = pc THEN At2(pc) \cup {h} ELSE At2(pc) \ {h}
  BY <1>1, TakesStep DEF AcademicsInv
<1>3. available \in Int /\ available' \in Int
  BY <1>1 DEF AcademicsInv, AcademicsTypeOK
<1>4. AcademicsTypeOK'
  BY <1>0, <1>1, <1>3, TypesKept DEF AcademicsInv, AcademicsTypeOK
<1>5. GridInv'
  BY <1>0, <1>1, GridOfOthers
<1>6. Lending(h) /\ \A g \in Office : Lending(g)' => Lending(g) /\ g # h
  BY <1>0, <1>1, <1>2 DEF Lending, AtDesk
<1>7. LendInv'
  BY <1>1, <1>3, <1>6 DEF AcademicsInv, LendInv
<1>8. Issued' = Issued
  BY <1>1 DEF Issued
<1>9. /\ At2("increment")' = At2("increment")
      /\ At2("decrement")' = At2("decrement") \ {h}
  BY <1>0, <1>1, <1>2 DEF At2, AtDesk
<1>10. /\ Cardinality(At2("decrement") \ {h}) = Cardinality(At2("decrement")) - 1
       /\ Cardinality(At2("decrement")) \in Nat /\ Cardinality(At2("increment")) \in Nat
  BY <1>1, Counts DEF AtDesk, AcademicsInv
<1>11. Cardinality(Issued) \in Nat
  BY IssuedFinite DEF AcademicsInv
<1>12. CopiesInv'
  <2>1. /\ Cardinality(At2("decrement")') = Cardinality(At2("decrement")) - 1
        /\ Cardinality(At2("increment")') = Cardinality(At2("increment"))
        /\ Cardinality(Issued') = Cardinality(Issued)
    BY <1>8, <1>9, <1>10
  <2> QED BY <1>1, <1>3, <1>10, <1>11, <2>1, AcademicsAssumption DEF AcademicsInv, CopiesInv
<1> QED BY <1>4, <1>5, <1>7, <1>12 DEF AcademicsInv

LEMMA FindIssueStep ==
    ASSUME AcademicsInv, NEW h \in Office, NEW n \in DOMAIN loans, FindIssue(h, n)
    PROVE  AcademicsInv'
<1> DEFINE s == [pc |-> "return", n |-> n]
<1>0. s.pc = "return" /\ s.n = n
  OBVIOUS
<1>1. Takes(h, s) /\ desk[h] = NoWork /\ UNCHANGED <<grid, till, books, behind, crossed>>
  BY DEF FindIssue
<1> HIDE DEF s
<1>2. AcademicsTypeOK'
  BY <1>0, <1>1, TypesKept DEF AcademicsInv, AcademicsTypeOK, books
<1>3. GridInv'
  BY <1>0, <1>1, GridOfOthers
<1>4. LendInv' /\ CopiesInv'
  BY <1>0, <1>1, BooksKept DEF Lending, AtDesk, NoWork
<1> QED BY <1>2, <1>3, <1>4 DEF AcademicsInv

LEMMA CloseIssueStep == ASSUME AcademicsInv, NEW h \in Office, CloseIssue(h) PROVE AcademicsInv'
<1> DEFINE s == [pc |-> "increment"]
<1>0. s.pc = "increment"
  OBVIOUS
<1>3. loans \in Seq({"ISSUED", "RETURNED"}) /\ available \in Int
  BY DEF AcademicsInv, AcademicsTypeOK
<1>1. PICK n \in DOMAIN loans : n = desk[h].n
  BY DEF CloseIssue, AcademicsInv, AcademicsTypeOK
<1>2. /\ AtDesk(h, "return") /\ Takes(h, s) /\ loans' = [loans EXCEPT ![n] = "RETURNED"]
      /\ UNCHANGED <<grid, till, available, behind>> /\ crossed \subseteq crossed'
      /\ crossed' \subseteq crossed \cup {"return"}
      /\ loans[n] = "RETURNED" => "return" \in crossed'
  BY <1>1 DEF CloseIssue
<1> HIDE DEF s
<1>4. /\ DOMAIN desk' = Office /\ desk'[h] = s
      /\ \A g \in Office \ {h} : desk'[g] = desk[g]
      /\ \A pc : At2(pc)' = IF s.pc = pc THEN At2(pc) \cup {h} ELSE At2(pc) \ {h}
  BY <1>2, TakesStep DEF AcademicsInv
<1>5. /\ loans' \in Seq({"ISSUED", "RETURNED"}) /\ DOMAIN loans' = DOMAIN loans
      /\ loans'[n] = "RETURNED" /\ \A m \in DOMAIN loans \ {n} : loans'[m] = loans[m]
      /\ loans[n] \in {"ISSUED", "RETURNED"}
  BY <1>1, <1>2, <1>3
<1>6. AcademicsTypeOK'
  BY <1>0, <1>2, <1>3, <1>5, TypesKept DEF AcademicsInv, AcademicsTypeOK
<1>7. GridInv'
  BY <1>0, <1>2, GridOfOthers
<1>8. \A g \in Office : Lending(g)' => Lending(g)
  BY <1>0, <1>2, <1>4 DEF Lending, AtDesk
<1>9. LendInv'
  BY <1>2, <1>8 DEF AcademicsInv, LendInv
<1>10. Issued' = Issued \ {n}
  BY <1>1, <1>5 DEF Issued
<1>11. Cardinality(Issued \ {n}) = IF n \in Issued THEN Cardinality(Issued) - 1
                                   ELSE Cardinality(Issued)
  BY IssuedFinite, FS_RemoveElement DEF AcademicsInv
<1>12. /\ At2("increment")' = At2("increment") \cup {h}
       /\ At2("decrement")' = At2("decrement")
  BY <1>0, <1>2, <1>4 DEF At2, AtDesk
<1>13. /\ Cardinality(At2("increment") \cup {h}) = Cardinality(At2("increment")) + 1
       /\ Cardinality(At2("decrement")) \in Nat /\ Cardinality(At2("increment")) \in Nat
  BY <1>2, Counts DEF AtDesk, AcademicsInv
<1>14. CopiesInv'
  <2> SUFFICES ASSUME "return" \notin crossed'
               PROVE  available' + Cardinality(Issued')
                      = Copies + Cardinality(At2("decrement")') - Cardinality(At2("increment")')
    BY DEF CopiesInv
  <2>1. "return" \notin crossed /\ n \in Issued
    BY <1>2, <1>5 DEF Issued
  <2>2. /\ Cardinality(At2("decrement")') = Cardinality(At2("decrement"))
        /\ Cardinality(At2("increment")') = Cardinality(At2("increment")) + 1
        /\ Cardinality(Issued') = Cardinality(Issued) - 1 /\ Cardinality(Issued) \in Nat
    BY <1>10, <1>11, <1>12, <1>13, <2>1, IssuedFinite DEF AcademicsInv
  <2>3. available + Cardinality(Issued)
           = Copies + Cardinality(At2("decrement")) - Cardinality(At2("increment"))
    BY <2>1 DEF AcademicsInv, CopiesInv
  <2>4. available' = available /\ available \in Int /\ Copies \in Int
    BY <1>2, <1>3, AcademicsAssumption
  <2>5. Cardinality(At2("decrement")) \in Int /\ Cardinality(At2("increment")) \in Int
    BY <1>13
  <2> QED BY <2>2, <2>3, <2>4, <2>5
<1> QED BY <1>6, <1>7, <1>9, <1>14 DEF AcademicsInv

LEMMA IncrementStep == ASSUME AcademicsInv, NEW h \in Office, Increment(h) PROVE AcademicsInv'
<1>1. /\ AtDesk(h, "increment") /\ Takes(h, NoWork) /\ available' = available + 1
      /\ UNCHANGED <<grid, till, loans, behind, crossed>>
  BY DEF Increment
<1>0. NoWork.pc = "free"
  BY DEF NoWork
<1>2. /\ DOMAIN desk' = Office /\ desk'[h] = NoWork
      /\ \A g \in Office \ {h} : desk'[g] = desk[g]
      /\ \A pc : At2(pc)' = IF NoWork.pc = pc THEN At2(pc) \cup {h} ELSE At2(pc) \ {h}
  BY <1>1, TakesStep DEF AcademicsInv
<1>3. available \in Int /\ available' \in Int
  BY <1>1 DEF AcademicsInv, AcademicsTypeOK
<1>4. AcademicsTypeOK'
  BY <1>0, <1>1, <1>3, TypesKept DEF AcademicsInv, AcademicsTypeOK
<1>5. GridInv'
  BY <1>0, <1>1, GridOfOthers
<1>6. \A g \in Office : Lending(g)' => Lending(g)
  BY <1>0, <1>1, <1>2 DEF Lending, AtDesk
<1>7. LendInv'
  BY <1>1, <1>3, <1>6 DEF AcademicsInv, LendInv
<1>8. Issued' = Issued
  BY <1>1 DEF Issued
<1>9. /\ At2("decrement")' = At2("decrement")
      /\ At2("increment")' = At2("increment") \ {h}
  BY <1>0, <1>1, <1>2 DEF At2, AtDesk
<1>10. /\ Cardinality(At2("increment") \ {h}) = Cardinality(At2("increment")) - 1
       /\ Cardinality(At2("decrement")) \in Nat /\ Cardinality(At2("increment")) \in Nat
  BY <1>1, Counts DEF AtDesk, AcademicsInv
<1>11. Cardinality(Issued) \in Nat
  BY IssuedFinite DEF AcademicsInv
<1>12. CopiesInv'
  <2>1. /\ Cardinality(At2("decrement")') = Cardinality(At2("decrement"))
        /\ Cardinality(At2("increment")') = Cardinality(At2("increment")) - 1
        /\ Cardinality(Issued') = Cardinality(Issued)
    BY <1>8, <1>9, <1>10
  <2> QED BY <1>1, <1>3, <1>10, <1>11, <2>1, AcademicsAssumption DEF AcademicsInv, CopiesInv
<1> QED BY <1>4, <1>5, <1>7, <1>12 DEF AcademicsInv

LEMMA HandlerDiesStep ==
    ASSUME AcademicsInv, NEW h \in Office, HandlerDies(h) PROVE AcademicsInv'
<1>1. /\ Takes(h, NoWork) /\ behind' = behind \ {h} /\ UNCHANGED <<grid, till, available, loans>>
      /\ crossed \subseteq crossed' /\ crossed' \subseteq crossed \cup {"return"}
      /\ AtDesk(h, "decrement") \/ AtDesk(h, "increment") => "return" \in crossed'
  BY DEF HandlerDies, books, AtDesk
<1>0. NoWork.pc = "free"
  BY DEF NoWork
<1>2. /\ DOMAIN desk' = Office /\ desk'[h] = NoWork
      /\ \A g \in Office \ {h} : desk'[g] = desk[g]
      /\ \A pc : At2(pc)' = IF NoWork.pc = pc THEN At2(pc) \cup {h} ELSE At2(pc) \ {h}
  BY <1>1, TakesStep DEF AcademicsInv
<1>3. AcademicsTypeOK'
  BY <1>0, <1>1, TypesKept DEF AcademicsInv, AcademicsTypeOK
<1>4. GridInv'
  BY <1>0, <1>1, GridOfOthers
<1>5. \A g \in Office : Lending(g)' => Lending(g)
  BY <1>0, <1>2 DEF Lending
<1>6. LendInv'
  BY <1>1, <1>5 DEF AcademicsInv, LendInv
<1>7. "return" \notin crossed' => /\ At2("decrement")' = At2("decrement")
                                  /\ At2("increment")' = At2("increment")
  BY <1>0, <1>1, <1>2 DEF At2, AtDesk
<1>8. Issued' = Issued
  BY <1>1 DEF Issued
<1>9. CopiesInv'
  BY <1>1, <1>7, <1>8 DEF AcademicsInv, CopiesInv
<1> QED BY <1>3, <1>4, <1>6, <1>9 DEF AcademicsInv

LEMMA AcademicsStep == AcademicsInv /\ [AcademicsNext]_academicsVars => AcademicsInv'
<1> SUFFICES ASSUME AcademicsInv, [AcademicsNext]_academicsVars PROVE AcademicsInv'
  OBVIOUS
<1>1. CASE UNCHANGED academicsVars
  BY <1>1 DEF academicsVars, books, AcademicsInv, AcademicsTypeOK, GridInv, LendInv, CopiesInv,
              Fits, Clash, Lending, Issued, At2, AtDesk, NeverTogether, Filled
<1>2. CASE AcademicsNext
  BY <1>2, CheckSlotStep, AddSlotStep, PersistStep, BuildProblemStep, FindBookStep,
     CreateIssueStep, DecrementStep, FindIssueStep, CloseIssueStep, IncrementStep,
     HandlerDiesStep, DeleteSlotStep
     DEF AcademicsNext, Schedule, Lend, Return
<1> QED BY <1>1, <1>2

\* Within the branch's year no teacher has two rows that start together, and two
\* that overlap are not two periods of one grid, unless a request wrote with rows it
\* had not seen; and copies on the shelf, lent out and in a handler's hands add up
\* (academic-service index.ts:485-518, timetable.ts:123-160).
THEOREM SchoolHouseAgreesHolds == AcademicsSpec => []SchoolHouseAgrees
<1>1. AcademicsInv => SchoolHouseAgrees
  <2> SUFFICES ASSUME AcademicsInv PROVE ShelfAgrees /\ TeacherInOnePlace
    BY DEF SchoolHouseAgrees
  <2>1. /\ Doing("decrement") = Cardinality(At2("decrement"))
        /\ Doing("increment") = Cardinality(At2("increment"))
        /\ Cardinality({n \in DOMAIN loans : loans[n] = "ISSUED"}) = Cardinality(Issued)
    BY DEF Doing, At2, Issued
  <2>2. ShelfAgrees
    BY <2>1 DEF ShelfAgrees, AcademicsInv, CopiesInv, LendInv
  <2>3. TeacherInOnePlace
    <3> SUFFICES ASSUME "grid" \notin crossed,
                        NEW p \in Filled, NEW q \in Filled, p[1] \in Class, q[1] \in Class,
                        p # q, grid[p] # Nobody, grid[p] = grid[q]
                 PROVE  /\ p[2] # q[2]
                        /\ Meet(p, q) =>
                              ~\E g \in Grids : Orderly(g) /\ HoursOf(g, p) /\ HoursOf(g, q)
      BY DEF TeacherInOnePlace
    <3>1. p[2] # q[2]
      BY DEF AcademicsInv, GridInv, NeverTogether
    <3>2. p[2] \in Nat /\ q[2] \in Nat
      BY AcademicsAssumption DEF Filled, Place
    <3>3. ASSUME NEW g \in Grids, Orderly(g), HoursOf(g, p), HoursOf(g, q)
          PROVE  ~Meet(p, q)
      <4>1. /\ p[2] \in DOMAIN g /\ till[p] = g[p[2]] /\ g[p[2]] \in Nat
            /\ q[2] \in DOMAIN g /\ till[q] = g[q[2]] /\ g[q[2]] \in Nat
        BY <3>3, AcademicsAssumption DEF HoursOf
      <4>2. till[p] <= q[2] \/ till[q] <= p[2]
        BY <3>1, <3>2, <3>3, <4>1 DEF Orderly
      <4> QED BY <3>2, <4>1, <4>2 DEF Meet
    <3> QED BY <3>1, <3>3
  <2> QED BY <2>2, <2>3
<1> QED BY <1>1, AcademicsInit0, AcademicsStep, PTL DEF AcademicsSpec

-----------------------------------------------------------------------------
(* Counting the lessons of a board *)

\* The lessons of a board that the demands in W ask for.
AskedBy(p, W, B) == {l \in B : \E i \in W : Wants(p.demands[i], l)}

\* Two sets with nothing in common.
LEMMA ApartUnion ==
    ASSUME NEW S, NEW T, IsFiniteSet(S), IsFiniteSet(T), S \cap T = {}
    PROVE  /\ IsFiniteSet(S \cup T)
           /\ Cardinality(S \cup T) = Cardinality(S) + Cardinality(T)
           /\ Cardinality(S) \in Nat /\ Cardinality(T) \in Nat
<1>1. Cardinality(S) \in Nat /\ Cardinality(T) \in Nat
  BY FS_CardinalityType
<1>2. Cardinality(S \cap T) = 0
  BY FS_EmptySet
<1>3. /\ IsFiniteSet(S \cup T)
      /\ Cardinality(S \cup T) = Cardinality(S) + Cardinality(T) - Cardinality(S \cap T)
  BY FS_Union
<1> QED BY <1>1, <1>2, <1>3

\* A demand asks for the lessons of its own, so demands that are met add up.
LEMMA LoadCounts ==
    ASSUME NEW p, ProblemOK(p), NEW B, IsFiniteSet(B), DemandMet(p, B),
           NEW W \in SUBSET Demand(p)
    PROVE  Load(p, W) = Cardinality(AskedBy(p, W, B))
<1> DEFINE f == [i \in Demand(p) |-> p.demands[i].perWeek]
           G == {T \in SUBSET W : SumFunctionOnSet(f, T) = Cardinality(AskedBy(p, T, B))}
<1>0. IsFiniteSet(W) /\ \A i \in W : f[i] \in Nat
  BY FS_Subset DEF ProblemOK
<1>1. ASSUME NEW T \in SUBSET W, \A U \in SUBSET T : U # T => U \in G
      PROVE  T \in G
  <2>1. CASE T = {}
    <3>1. AskedBy(p, T, B) = {}
      BY <2>1 DEF AskedBy
    <3> QED BY <2>1, <3>1, SumEmpty, FS_EmptySet
  <2>2. CASE T # {}
    <3>1. PICK a \in T : TRUE
      BY <2>2
    <3> DEFINE R == T \ {a}
    <3>2. SumFunctionOnSet(f, R) = Cardinality(AskedBy(p, R, B))
      BY <1>1, <3>1
    <3>3. SumFunctionOnSet(f, T) = f[a] + SumFunctionOnSet(f, R)
      <4>1. IsFiniteSet(T) /\ \A x \in T : f[x] \in Int
        BY <1>0, FS_Subset
      <4> HIDE DEF f
      <4> QED BY <3>1, <4>1, SumRemove
    <3>4. f[a] = Cardinality(Held(p.demands[a], B))
      BY <3>1 DEF DemandMet
    <3>5. /\ IsFiniteSet(AskedBy(p, R, B)) /\ IsFiniteSet(Held(p.demands[a], B))
      BY FS_Subset DEF AskedBy, Held
    <3>6. AskedBy(p, T, B) = AskedBy(p, R, B) \cup Held(p.demands[a], B)
      BY <3>1 DEF AskedBy, Held
    <3>7. AskedBy(p, R, B) \cap Held(p.demands[a], B) = {}
      <4> SUFFICES ASSUME NEW l \in B, NEW i \in R, Wants(p.demands[i], l),
                          Wants(p.demands[a], l)
                   PROVE  FALSE
        BY DEF AskedBy, Held
      <4>1. Wants(p.demands[i], p.demands[a])
        BY DEF Wants
      <4> QED BY <3>1, <4>1 DEF ProblemOK
    <3>8. Cardinality(AskedBy(p, T, B)) =
             Cardinality(AskedBy(p, R, B)) + Cardinality(Held(p.demands[a], B))
      BY <3>5, <3>6, <3>7, ApartUnion
    <3>9. /\ Cardinality(AskedBy(p, R, B)) \in Nat
          /\ Cardinality(Held(p.demands[a], B)) \in Nat
      BY <3>5, FS_CardinalityType
    <3> HIDE DEF R, f
    <3> QED BY <3>2, <3>3, <3>4, <3>8, <3>9
  <2> QED BY <2>1, <2>2
<1>2. W \in G
  <2> HIDE DEF G
  <2> QED BY <1>0, <1>1, FiniteInduction
<1> QED BY <1>2 DEF Load

\* So many a day on every day is so many times the days.
LEMMA DayBound ==
    ASSUME NEW B, IsFiniteSet(B), B \subseteq Slot, NEW c \in Nat,
           \A wday \in Day : Cardinality(OnDay(B, wday)) <= c
    PROVE  Cardinality(B) <= c * Cardinality(Day)
<1> DEFINE on(T) == {l \in B : l.at[1] \in T}
           G == {T \in SUBSET Day : Cardinality(on(T)) <= c * Cardinality(T)}
<1>0. IsFiniteSet(Day)
  BY EngineAssumption
<1>1. ASSUME NEW T \in SUBSET Day, \A U \in SUBSET T : U # T => U \in G
      PROVE  T \in G
  <2>0. IsFiniteSet(T) /\ Cardinality(T) \in Nat
    BY <1>0, FS_Subset, FS_CardinalityType
  <2>1. CASE T = {}
    <3>1. on(T) = {}
      BY <2>1
    <3> QED BY <2>1, <3>1, FS_EmptySet
  <2>2. CASE T # {}
    <3>1. PICK a \in T : TRUE
      BY <2>2
    <3> DEFINE R == T \ {a}
    <3>2. Cardinality(on(R)) <= c * Cardinality(R)
      BY <1>1, <3>1
    <3>3. IsFiniteSet(on(R)) /\ IsFiniteSet(OnDay(B, a))
      BY FS_Subset DEF OnDay
    <3>4. on(T) = on(R) \cup OnDay(B, a) /\ on(R) \cap OnDay(B, a) = {}
      BY <3>1 DEF OnDay
    <3>5. Cardinality(on(T)) = Cardinality(on(R)) + Cardinality(OnDay(B, a))
      BY <3>3, <3>4, ApartUnion
    <3>6. IsFiniteSet(R) /\ Cardinality(T) = Cardinality(R) + 1 /\ Cardinality(R) \in Nat
      <4>1. IsFiniteSet(R) /\ Cardinality(R) = Cardinality(T) - 1
        BY <2>0, <3>1, FS_RemoveElement
      <4>2. Cardinality(R) \in Nat
        BY <4>1, FS_CardinalityType
      <4> HIDE DEF R
      <4> QED BY <2>0, <4>1, <4>2
    <3>7. Cardinality(OnDay(B, a)) <= c
      BY <3>1
    <3>8. PICK m \in Nat, n \in Nat, k \in Nat :
            /\ m = Cardinality(on(R)) /\ n = Cardinality(OnDay(B, a)) /\ k = Cardinality(R)
      BY <3>3, <3>6, FS_CardinalityType
    <3>9. m + n <= c * (k + 1)
      <4>1. m <= c * k /\ n <= c
        BY <3>2, <3>7, <3>8
      <4>2. c * k \in Nat /\ c * (k + 1) = c * k + c
        OBVIOUS
      <4> QED BY <4>1, <4>2
    <3> HIDE DEF on, R
    <3> QED BY <3>5, <3>6, <3>8, <3>9
  <2> QED BY <2>1, <2>2
<1>2. Day \in G
  <2> HIDE DEF G
  <2> QED BY <1>0, <1>1, FiniteInduction
<1>3. on(Day) = B
  BY DEF Slot, Hour
<1> QED BY <1>2, <1>3

\* Of P periods in a row, every other one at most.
LEMMA NonAdjacent ==
    ASSUME NEW P \in Nat, NEW S \in SUBSET (1 .. P), \A a, b \in S : a # b + 1
    PROVE  Cardinality(S) <= (P + 1) \div 2
<1> DEFINE T == 1 .. ((P + 1) \div 2)
           f == [n \in S |-> (n + 1) \div 2]
<1>0. (P + 1) \div 2 \in Nat
  OBVIOUS
<1>1. f \in [S -> T]
  OBVIOUS
<1>2. ASSUME NEW a \in S, NEW b \in S, f[a] = f[b] PROVE a = b
  <2>1. (a + 1) \div 2 = (b + 1) \div 2 /\ a \in Nat /\ b \in Nat
    BY <1>2
  <2>2. a # b + 1 /\ b # a + 1
    OBVIOUS
  <2> QED BY <2>1, <2>2
<1>3. f \in Injection(S, T)
  BY <1>1, <1>2 DEF Injection, IsInjective
<1>4. IsFiniteSet(T) /\ Cardinality(T) = (P + 1) \div 2
  BY <1>0, FS_Interval
<1> QED BY <1>3, <1>4, FS_Injection

-----------------------------------------------------------------------------
(* What a legal board says of the arithmetic done before the search *)

\* Every lesson is one some demand asks for, with that demand's teacher.
Fitted(p, B) ==
    \A l \in B : \E i \in Demand(p) :
        Wants(p.demands[i], l) /\ p.demands[i].teacher = l.teacher

TaughtBy(p, t) == {i \in Demand(p) : p.demands[i].teacher = t}

\* A teacher's load is the number of lessons they have.
LEMMA LoadTaught ==
    ASSUME NEW p, ProblemOK(p), NEW B, IsFiniteSet(B), DemandMet(p, B), Fitted(p, B), NEW t
    PROVE  Load(p, TaughtBy(p, t)) = Cardinality(Taught(t, B))
<1>1. AskedBy(p, TaughtBy(p, t), B) = Taught(t, B)
  <2>1. ASSUME NEW l \in B, NEW i \in TaughtBy(p, t), Wants(p.demands[i], l)
        PROVE  l.teacher = t
    <3>1. PICK j \in Demand(p) : Wants(p.demands[j], l) /\ p.demands[j].teacher = l.teacher
      BY DEF Fitted
    <3>2. Wants(p.demands[i], p.demands[j])
      BY <2>1, <3>1 DEF Wants
    <3>3. i = j
      BY <3>2 DEF ProblemOK, TaughtBy
    <3> QED BY <3>1, <3>3 DEF TaughtBy
  <2>2. ASSUME NEW l \in B, l.teacher = t
        PROVE  \E i \in TaughtBy(p, t) : Wants(p.demands[i], l)
    BY <2>2 DEF Fitted, TaughtBy
  <2> QED BY <2>1, <2>2 DEF AskedBy, Taught
<1> QED BY <1>1, LoadCounts DEF TaughtBy

LEMMA HoursAreFew ==
    /\ IsFiniteSet(Hour) /\ Cardinality(Hour) \in Nat
    /\ IsFiniteSet(Day) /\ Cardinality(Day) \in Nat
    /\ \A c \in Hour : c = <<c[1], c[2]>> /\ c[1] \in Day /\ c[2] \in 1 .. Periods
    /\ \A d \in Day, n \in 1 .. Periods : <<d, n>> \in Hour
<1>1. IsFiniteSet(Day) /\ IsFiniteSet(1 .. Periods)
  BY EngineAssumption, FS_Interval
<1>2. IsFiniteSet(Hour)
  BY <1>1, FS_Product DEF Hour
<1> QED BY <1>1, <1>2, FS_CardinalityType DEF Hour

\* Lessons that are never at one hour are as few as the hours.
LEMMA OneAnHour ==
    ASSUME NEW B, B \subseteq Slot, \A a, b \in B : a.at = b.at => a = b
    PROVE  Cardinality(B) <= Cardinality(Hour)
<1> DEFINE f == [l \in B |-> l.at]
<1>1. f \in Injection(B, Hour)
  BY DEF Injection, IsInjective, Slot
<1> QED BY <1>1, HoursAreFew, FS_Injection

LEMMA MinOfTwo ==
    ASSUME NEW a \in Nat, NEW b \in Nat
    PROVE  Min({a, b}) = IF a <= b THEN a ELSE b
BY DEF Min

\* A teacher who never has two periods in a row has half a day at most.
LEMMA SpacedDay ==
    ASSUME NEW B, B \subseteq Slot, NEW wday,
           \A a, b \in B : a.at = b.at => a = b,
           \A a, b \in B : ~(a.at[1] = b.at[1] /\ a.at[2] = b.at[2] + 1)
    PROVE  Cardinality(OnDay(B, wday)) <= (Periods + 1) \div 2
<1> DEFINE S == {l.at[2] : l \in OnDay(B, wday)}
           f == [l \in OnDay(B, wday) |-> l.at[2]]
<1>0. \A l \in OnDay(B, wday) : l \in B /\ l.at \in Hour /\ l.at[1] = wday
  BY DEF OnDay, Slot
<1>1. S \subseteq 1 .. Periods
  BY <1>0, HoursAreFew
<1>2. \A a, b \in S : a # b + 1
  BY <1>0
<1>3. f \in Injection(OnDay(B, wday), S)
  <2>1. ASSUME NEW a \in OnDay(B, wday), NEW b \in OnDay(B, wday), a.at[2] = b.at[2]
        PROVE  a = b
    <3>1. a.at = b.at
      BY <1>0, <2>1, HoursAreFew
    <3> QED BY <1>0, <3>1
  <2> QED BY <2>1 DEF Injection, IsInjective
<1>4. Periods \in Nat
  BY EngineAssumption
<1>5. IsFiniteSet(S) /\ Cardinality(S) <= (Periods + 1) \div 2
  <2>1. IsFiniteSet(1 .. Periods)
    BY <1>4, FS_Interval
  <2> HIDE DEF S
  <2> QED BY <1>1, <1>2, <1>4, <2>1, FS_Subset, NonAdjacent
<1>6. Cardinality(OnDay(B, wday)) <= Cardinality(S) /\ IsFiniteSet(OnDay(B, wday))
  BY <1>3, <1>5, FS_Injection
<1> HIDE DEF S
<1> QED
  <2>1. Cardinality(S) \in Nat /\ Cardinality(OnDay(B, wday)) \in Nat /\ (Periods + 1) \div 2 \in Nat
    BY <1>4, <1>5, <1>6, FS_CardinalityType
  <2> QED BY <1>5, <1>6, <2>1

\* Where there is a legal board, the arithmetic finds nothing against it.
LEMMA LegalIsFeasible ==
    ASSUME NEW p, ProblemOK(p), p.rooms = <<>>, NEW B, IsFiniteSet(B), B \subseteq Slot,
           CheckFull(p, B), Fitted(p, B)
    PROVE  StaticFeasibility(p)
<1>0. NoClash(B) /\ TeachersKept(p, B) /\ SubjectsSpread(p, B) /\ DemandMet(p, B)
  BY DEF CheckFull, Lawful
<1>1. ASSUME NEW s \in Section
      PROVE  Load(p, {i \in Demand(p) : p.demands[i].section = s}) <= Cardinality(Hour)
  <2> DEFINE W == {i \in Demand(p) : p.demands[i].section = s}
             C == AskedBy(p, W, B)
  <2>1. Load(p, W) = Cardinality(C)
    BY <1>0, LoadCounts
  <2>2. C \subseteq Slot
    BY DEF AskedBy
  <2>3. \A a, b \in C : a.at = b.at => a = b
    BY <1>0 DEF AskedBy, NoClash, Wants
  <2> QED BY <2>1, <2>2, <2>3, OneAnHour
<1>2. ASSUME NEW t \in DOMAIN p.teacher
      PROVE  LET total == Load(p, {i \in Demand(p) : p.demands[i].teacher = t})
                 rule == p.teacher[t]
             IN  /\ rule.maxPerWeek > 0 => total <= rule.maxPerWeek
                 /\ total <= DayCap(rule) * Cardinality(Day)
  <2> DEFINE rule == p.teacher[t]
             C == Taught(t, B)
  <2>1. Load(p, {i \in Demand(p) : p.demands[i].teacher = t}) = Cardinality(C)
    BY <1>0, LoadTaught DEF TaughtBy
  <2>2. rule.maxPerWeek > 0 => Cardinality(C) <= rule.maxPerWeek
    BY <1>0 DEF TeachersKept
  <2>3. C \subseteq Slot /\ IsFiniteSet(C)
    BY FS_Subset DEF Taught
  <2>4. \A a, b \in C : a.at = b.at => a = b
    BY <1>0 DEF Taught, NoClash
  <2>5. rule.maxPerDay \in Nat /\ (Periods + 1) \div 2 \in Nat
    BY EngineAssumption DEF ProblemOK
  <2>6. \A wday \in Day : Cardinality(OnDay(C, wday)) <= rule.maxPerDay
    BY <1>0 DEF TeachersKept
  <2>7. DayCap(rule) \in Nat /\ \A wday \in Day : Cardinality(OnDay(C, wday)) <= DayCap(rule)
    <3>1. CASE rule.spaced
      <4>1. \A a, b \in C : ~(a.at[1] = b.at[1] /\ a.at[2] = b.at[2] + 1)
        BY <1>0, <3>1 DEF TeachersKept
      <4>2. \A wday \in Day : Cardinality(OnDay(C, wday)) <= (Periods + 1) \div 2
        BY <2>3, <2>4, <4>1, SpacedDay
      <4>3. DayCap(rule) = IF rule.maxPerDay <= (Periods + 1) \div 2
                           THEN rule.maxPerDay ELSE (Periods + 1) \div 2
        BY <2>5, <3>1, MinOfTwo DEF DayCap
      <4> QED BY <2>5, <2>6, <4>2, <4>3
    <3>2. CASE ~rule.spaced
      BY <2>5, <2>6, <3>2 DEF DayCap
    <3> QED BY <3>1, <3>2
  <2>8. Cardinality(C) <= DayCap(rule) * Cardinality(Day)
    BY <2>3, <2>7, DayBound
  <2> QED BY <2>1, <2>2, <2>8
<1>3. ASSUME NEW i \in Demand(p)
      PROVE  LET d == p.demands[i] IN d.doubles \/ d.perWeek <= d.maxPerDay * Cardinality(Day)
  <2> DEFINE d == p.demands[i]
             C == Held(d, B)
  <2>1. SUFFICES ASSUME ~d.doubles PROVE d.perWeek <= d.maxPerDay * Cardinality(Day)
    OBVIOUS
  <2>2. C \subseteq Slot /\ IsFiniteSet(C) /\ d.maxPerDay \in Nat
    BY FS_Subset DEF Held, ProblemOK
  <2>3. \A wday \in Day : Cardinality(OnDay(C, wday)) <= d.maxPerDay
    BY <1>0, <2>1 DEF SubjectsSpread
  <2>4. Cardinality(C) = d.perWeek
    BY <1>0 DEF DemandMet
  <2> QED BY <2>2, <2>3, <2>4, DayBound
<1> QED BY <1>1, <1>2, <1>3 DEF StaticFeasibility

-----------------------------------------------------------------------------
(* Boards and their mirrors *)

\* The rules about a teacher that hold of a board in the making.
DaysKept(p, B) ==
    \A t \in DOMAIN p.teacher :
        LET rule == p.teacher[t]
            mine == Taught(t, B)
        IN  /\ \A l \in mine : l.at \notin rule.off
            /\ \A wday \in Day : Cardinality(OnDay(mine, wday)) <= rule.maxPerDay
            /\ rule.spaced => \A a, b \in mine :
                  ~(a.at[1] = b.at[1] /\ a.at[2] = b.at[2] + 1)

Good(p, B) == NoClash(B) /\ DaysKept(p, B) /\ SubjectsSpread(p, B) /\ RoomsFit(p, B)

LEMMA LawfulIsGood == ASSUME NEW p, NEW B, Lawful(p, B) PROVE Good(p, B)
BY DEF Lawful, Good, TeachersKept, DaysKept

\* Fewer of something finite are not more.
LEMMA FewerCount ==
    ASSUME NEW S, NEW T, IsFiniteSet(T), S \subseteq T, NEW c \in Nat, Cardinality(T) <= c
    PROVE  Cardinality(S) <= c
<1>1. IsFiniteSet(S) /\ Cardinality(S) <= Cardinality(T)
  BY FS_Subset
<1>2. Cardinality(S) \in Nat /\ Cardinality(T) \in Nat
  BY <1>1, FS_CardinalityType
<1> QED BY <1>1, <1>2

\* A board that is kept is kept with lessons taken away.
LEMMA GoodBelow ==
    ASSUME NEW p, ProblemOK(p), NEW B, IsFiniteSet(B), NEW A, A \subseteq B, Good(p, B)
    PROVE  Good(p, A)
<1>0. NoClash(B) /\ DaysKept(p, B) /\ SubjectsSpread(p, B) /\ RoomsFit(p, B)
  BY DEF Good
<1>1. NoClash(A) /\ RoomsFit(p, A)
  BY <1>0 DEF NoClash, RoomsFit
<1>2. ASSUME NEW t \in DOMAIN p.teacher, NEW wday \in Day
      PROVE  Cardinality(OnDay(Taught(t, A), wday)) <= p.teacher[t].maxPerDay
  <2>1. OnDay(Taught(t, A), wday) \subseteq OnDay(Taught(t, B), wday)
    BY DEF OnDay, Taught
  <2>2. IsFiniteSet(OnDay(Taught(t, B), wday))
    BY FS_Subset DEF OnDay, Taught
  <2>3. p.teacher[t].maxPerDay \in Nat
    BY DEF ProblemOK
  <2>4. Cardinality(OnDay(Taught(t, B), wday)) <= p.teacher[t].maxPerDay
    BY <1>0 DEF DaysKept
  <2> QED BY <2>1, <2>2, <2>3, <2>4, FewerCount
<1>3. ASSUME NEW t \in DOMAIN p.teacher
      PROVE  /\ \A l \in Taught(t, A) : l.at \notin p.teacher[t].off
             /\ p.teacher[t].spaced => \A a, b \in Taught(t, A) :
                   ~(a.at[1] = b.at[1] /\ a.at[2] = b.at[2] + 1)
  <2>1. Taught(t, A) \subseteq Taught(t, B)
    BY DEF Taught
  <2> QED BY <1>0, <2>1 DEF DaysKept
<1>4. DaysKept(p, A)
  BY <1>2, <1>3 DEF DaysKept
<1>5. ASSUME NEW i \in Demand(p), ~p.demands[i].doubles, NEW wday \in Day
      PROVE  Cardinality(OnDay(Held(p.demands[i], A), wday)) <= p.demands[i].maxPerDay
  <2>1. OnDay(Held(p.demands[i], A), wday) \subseteq OnDay(Held(p.demands[i], B), wday)
    BY DEF OnDay, Held
  <2>2. IsFiniteSet(OnDay(Held(p.demands[i], B), wday))
    BY FS_Subset DEF OnDay, Held
  <2>3. p.demands[i].maxPerDay \in Nat
    BY DEF ProblemOK
  <2>4. Cardinality(OnDay(Held(p.demands[i], B), wday)) <= p.demands[i].maxPerDay
    BY <1>0, <1>5 DEF SubjectsSpread
  <2> QED BY <2>1, <2>2, <2>3, <2>4, FewerCount
<1>6. SubjectsSpread(p, A)
  BY <1>5 DEF SubjectsSpread
<1> QED BY <1>1, <1>4, <1>6 DEF Good

\* So the locks of a legal board are lawful.
LEMMA LawfulBelow ==
    ASSUME NEW p, ProblemOK(p), NEW B, IsFiniteSet(B), p.locked \subseteq B, Lawful(p, B)
    PROVE  Lawful(p, p.locked)
<1>1. Good(p, p.locked)
  BY LawfulIsGood, GoodBelow
<1>2. ASSUME NEW t \in DOMAIN p.teacher, p.teacher[t].maxPerWeek > 0
      PROVE  Cardinality(Taught(t, p.locked)) <= p.teacher[t].maxPerWeek
  <2>1. Taught(t, p.locked) \subseteq Taught(t, B)
    BY DEF Taught
  <2>2. IsFiniteSet(Taught(t, B))
    BY FS_Subset DEF Taught
  <2>3. p.teacher[t].maxPerWeek \in Nat
    BY DEF ProblemOK
  <2>4. Cardinality(Taught(t, B)) <= p.teacher[t].maxPerWeek
    BY <1>2 DEF Lawful, TeachersKept
  <2> QED BY <2>1, <2>2, <2>3, <2>4, FewerCount
<1>3. TeachersKept(p, p.locked)
  BY <1>1, <1>2 DEF Good, DaysKept, TeachersKept
<1>4. LocksKept(p, p.locked)
  BY DEF LocksKept
<1> QED BY <1>1, <1>3, <1>4 DEF Good, Lawful

WithLesson(m, x) ==
    [section |-> m.section \cup {<<x.section, x.at>>},
     teacher |-> m.teacher \cup {<<x.teacher, x.at>>},
     room |-> m.room \cup (IF x.room = Unmanaged THEN {} ELSE {<<x.room, x.at>>}),
     subjectDay |-> [m.subjectDay EXCEPT ![<<x.section, x.subject, x.at[1]>>] = @ + 1],
     teacherDay |-> [m.teacherDay EXCEPT ![<<x.teacher, x.at[1]>>] = @ + 1]]

WithoutLesson(m, x) ==
    [section |-> m.section \ {<<x.section, x.at>>},
     teacher |-> m.teacher \ {<<x.teacher, x.at>>},
     room |-> m.room \ {<<x.room, x.at>>},
     subjectDay |-> [m.subjectDay EXCEPT ![<<x.section, x.subject, x.at[1]>>] = @ - 1],
     teacherDay |-> [m.teacherDay EXCEPT ![<<x.teacher, x.at[1]>>] = @ - 1]]

SubjectOn(B, k) == {l \in B : <<l.section, l.subject, l.at[1]>> = k}
TeacherOn(B, k) == {l \in B : <<l.teacher, l.at[1]>> = k}

LEMMA SlotKeys ==
    ASSUME NEW x \in Slot, x.teacher \in Teacher
    PROVE  /\ <<x.section, x.subject, x.at[1]>> \in Section \X Subject \X Day
           /\ <<x.teacher, x.at[1]>> \in Teacher \X Day
BY DEF Slot, Hour

\* The mirrors follow a lesson that is put on the board.
LEMMA MirrorAdds ==
    ASSUME NEW B, IsFiniteSet(B), B \subseteq Slot, NEW x \in Slot, x \notin B,
           x.teacher \in Teacher
    PROVE  MirrorOf(B \cup {x}) = WithLesson(MirrorOf(B), x)
<1> DEFINE C == B \cup {x}
           ks == <<x.section, x.subject, x.at[1]>>
           kt == <<x.teacher, x.at[1]>>
           s == [k \in Section \X Subject \X Day |-> Cardinality(SubjectOn(B, k))]
           t == [k \in Teacher \X Day |-> Cardinality(TeacherOn(B, k))]
<1>1. {<<l.section, l.at>> : l \in C} = {<<l.section, l.at>> : l \in B} \cup {<<x.section, x.at>>}
  OBVIOUS
<1>2. {<<l.teacher, l.at>> : l \in {b \in C : b.teacher # NoTeacher}} =
        {<<l.teacher, l.at>> : l \in {b \in B : b.teacher # NoTeacher}} \cup {<<x.teacher, x.at>>}
  <2>1. {b \in C : b.teacher # NoTeacher} = {b \in B : b.teacher # NoTeacher} \cup {x}
    BY EngineAssumption
  <2> QED BY <2>1
<1>3. {<<l.room, l.at>> : l \in {b \in C : b.room # Unmanaged}} =
        {<<l.room, l.at>> : l \in {b \in B : b.room # Unmanaged}}
           \cup (IF x.room = Unmanaged THEN {} ELSE {<<x.room, x.at>>})
  <2>1. CASE x.room = Unmanaged
    <3>1. {b \in C : b.room # Unmanaged} = {b \in B : b.room # Unmanaged}
      BY <2>1
    <3> QED BY <2>1, <3>1
  <2>2. CASE x.room # Unmanaged
    <3>1. {b \in C : b.room # Unmanaged} = {b \in B : b.room # Unmanaged} \cup {x}
      BY <2>2
    <3> QED BY <2>2, <3>1
  <2> QED BY <2>1, <2>2
<1>4. [k \in Section \X Subject \X Day |-> Cardinality(SubjectOn(C, k))] = [s EXCEPT ![ks] = @ + 1]
  <2>1. ASSUME NEW k \in Section \X Subject \X Day, k # ks
        PROVE  SubjectOn(C, k) = SubjectOn(B, k)
    BY <2>1 DEF SubjectOn
  <2>2. SubjectOn(C, ks) = SubjectOn(B, ks) \cup {x} /\ x \notin SubjectOn(B, ks)
    BY DEF SubjectOn
  <2>3. IsFiniteSet(SubjectOn(B, ks))
    BY FS_Subset DEF SubjectOn
  <2>4. Cardinality(SubjectOn(C, ks)) = Cardinality(SubjectOn(B, ks)) + 1
    BY <2>2, <2>3, FS_AddElement
  <2>5. ks \in Section \X Subject \X Day
    BY SlotKeys
  <2> HIDE DEF C, ks
  <2> QED BY <2>1, <2>4, <2>5
<1>5. [k \in Teacher \X Day |-> Cardinality(TeacherOn(C, k))] = [t EXCEPT ![kt] = @ + 1]
  <2>1. ASSUME NEW k \in Teacher \X Day, k # kt
        PROVE  TeacherOn(C, k) = TeacherOn(B, k)
    BY <2>1 DEF TeacherOn
  <2>2. TeacherOn(C, kt) = TeacherOn(B, kt) \cup {x} /\ x \notin TeacherOn(B, kt)
    BY DEF TeacherOn
  <2>3. IsFiniteSet(TeacherOn(B, kt))
    BY FS_Subset DEF TeacherOn
  <2>4. Cardinality(TeacherOn(C, kt)) = Cardinality(TeacherOn(B, kt)) + 1
    BY <2>2, <2>3, FS_AddElement
  <2>5. kt \in Teacher \X Day
    BY SlotKeys
  <2> HIDE DEF C, kt
  <2> QED BY <2>1, <2>4, <2>5
<1> HIDE DEF C
<1> QED BY <1>1, <1>2, <1>3, <1>4, <1>5 DEF MirrorOf, WithLesson, SubjectOn, TeacherOn, C

\* And one that is taken off it again, where nothing else is in its place.
LEMMA MirrorDrops ==
    ASSUME NEW B, IsFiniteSet(B), B \subseteq Slot, NEW x \in B, NoClash(B),
           x.teacher \in Teacher
    PROVE  MirrorOf(B \ {x}) = WithoutLesson(MirrorOf(B), x)
<1> DEFINE C == B \ {x}
           ks == <<x.section, x.subject, x.at[1]>>
           kt == <<x.teacher, x.at[1]>>
           s == [k \in Section \X Subject \X Day |-> Cardinality(SubjectOn(B, k))]
           t == [k \in Teacher \X Day |-> Cardinality(TeacherOn(B, k))]
<1>0. \A l \in C : l.at = x.at => l.section # x.section /\ l.teacher # x.teacher
                                   /\ (l.room = Unmanaged \/ l.room # x.room)
  BY DEF NoClash
<1>1. {<<l.section, l.at>> : l \in C} = {<<l.section, l.at>> : l \in B} \ {<<x.section, x.at>>}
  BY <1>0
<1>2. {<<l.teacher, l.at>> : l \in {b \in C : b.teacher # NoTeacher}} =
        {<<l.teacher, l.at>> : l \in {b \in B : b.teacher # NoTeacher}} \ {<<x.teacher, x.at>>}
  BY <1>0
<1>3. {<<l.room, l.at>> : l \in {b \in C : b.room # Unmanaged}} =
        {<<l.room, l.at>> : l \in {b \in B : b.room # Unmanaged}} \ {<<x.room, x.at>>}
  BY <1>0
<1>4. [k \in Section \X Subject \X Day |-> Cardinality(SubjectOn(C, k))] = [s EXCEPT ![ks] = @ - 1]
  <2>1. ASSUME NEW k \in Section \X Subject \X Day, k # ks
        PROVE  SubjectOn(C, k) = SubjectOn(B, k)
    BY <2>1 DEF SubjectOn
  <2>2. SubjectOn(C, ks) = SubjectOn(B, ks) \ {x} /\ x \in SubjectOn(B, ks)
    BY DEF SubjectOn
  <2>3. IsFiniteSet(SubjectOn(B, ks))
    BY FS_Subset DEF SubjectOn
  <2>4. Cardinality(SubjectOn(C, ks)) = Cardinality(SubjectOn(B, ks)) - 1
    <3> HIDE DEF C, ks
    <3> QED BY <2>2, <2>3, FS_RemoveElement
  <2>5. ks \in Section \X Subject \X Day
    BY SlotKeys
  <2> HIDE DEF C, ks
  <2> QED BY <2>1, <2>4, <2>5
<1>5. [k \in Teacher \X Day |-> Cardinality(TeacherOn(C, k))] = [t EXCEPT ![kt] = @ - 1]
  <2>1. ASSUME NEW k \in Teacher \X Day, k # kt
        PROVE  TeacherOn(C, k) = TeacherOn(B, k)
    BY <2>1 DEF TeacherOn
  <2>2. TeacherOn(C, kt) = TeacherOn(B, kt) \ {x} /\ x \in TeacherOn(B, kt)
    BY DEF TeacherOn
  <2>3. IsFiniteSet(TeacherOn(B, kt))
    BY FS_Subset DEF TeacherOn
  <2>4. Cardinality(TeacherOn(C, kt)) = Cardinality(TeacherOn(B, kt)) - 1
    <3> HIDE DEF C, kt
    <3> QED BY <2>2, <2>3, FS_RemoveElement
  <2>5. kt \in Teacher \X Day
    BY SlotKeys
  <2> HIDE DEF C, kt
  <2> QED BY <2>1, <2>4, <2>5
<1> HIDE DEF C
<1> QED BY <1>1, <1>2, <1>3, <1>4, <1>5 DEF MirrorOf, WithoutLesson, SubjectOn, TeacherOn, C

-----------------------------------------------------------------------------
(* One more lesson: what the mirrors are asked, said of the board *)

FreeAt(p, B, d, c) ==
    LET rule == p.teacher[d.teacher] IN
    /\ \A l \in B : l.at = c => l.section # d.section /\ l.teacher # d.teacher
    /\ c \notin rule.off
    /\ Cardinality(OnDay(Taught(d.teacher, B), c[1])) + 1 <= rule.maxPerDay
    /\ rule.spaced => \A l \in Taught(d.teacher, B) : l.at \notin Beside(c)
    /\ d.doubles \/ Cardinality(OnDay(Held(d, B), c[1])) + 1 <= d.maxPerDay

LEMMA BesideIs ==
    ASSUME NEW c \in Hour, NEW h \in Hour
    PROVE  h \in Beside(c) <=> h[1] = c[1] /\ (h[2] = c[2] + 1 \/ c[2] = h[2] + 1)
<1>1. h = <<h[1], h[2]>> /\ c = <<c[1], c[2]>>
  BY HoursAreFew
<1>2. h[2] \in Nat /\ c[2] \in Nat
  BY HoursAreFew
<1> QED BY <1>1, <1>2 DEF Beside

LEMMA MirrorCounts ==
    ASSUME NEW B, NEW d, NEW c \in Hour,
           d.section \in Section, d.subject \in Subject, d.teacher \in Teacher
    PROVE  LET m == MirrorOf(B) IN
           /\ m.teacherDay[<<d.teacher, c[1]>>] = Cardinality(OnDay(Taught(d.teacher, B), c[1]))
           /\ m.subjectDay[<<d.section, d.subject, c[1]>>] = Cardinality(OnDay(Held(d, B), c[1]))
<1>1. c[1] \in Day
  BY HoursAreFew
<1>2. TeacherOn(B, <<d.teacher, c[1]>>) = OnDay(Taught(d.teacher, B), c[1])
  BY DEF TeacherOn, OnDay, Taught
<1>3. SubjectOn(B, <<d.section, d.subject, c[1]>>) = OnDay(Held(d, B), c[1])
  BY DEF SubjectOn, OnDay, Held, Wants
<1>4. MirrorOf(B).teacherDay[<<d.teacher, c[1]>>] = Cardinality(TeacherOn(B, <<d.teacher, c[1]>>))
  BY <1>1 DEF MirrorOf, TeacherOn
<1>5. MirrorOf(B).subjectDay[<<d.section, d.subject, c[1]>>] =
        Cardinality(SubjectOn(B, <<d.section, d.subject, c[1]>>))
  BY <1>1 DEF MirrorOf, SubjectOn
<1> QED BY <1>2, <1>3, <1>4, <1>5

LEMMA MirrorSets ==
    ASSUME NEW B
    PROVE  /\ \A s, c : <<s, c>> \in MirrorOf(B).section <=> \E l \in B : l.at = c /\ l.section = s
           /\ \A t, c : <<t, c>> \in MirrorOf(B).teacher <=>
                 \E l \in B : l.at = c /\ l.teacher = t /\ t # NoTeacher
           /\ \A r, c : <<r, c>> \in MirrorOf(B).room <=>
                 \E l \in B : l.at = c /\ l.room = r /\ r # Unmanaged
BY DEF MirrorOf

\* Every candidate is free, and where rooms are unmanaged nothing else is.
LEMMA CandidatesAreFree ==
    ASSUME ProblemOK(problem), NEW B, B \subseteq Slot, mirror = MirrorOf(B),
           NEW i \in Demand(problem), NEW c \in Candidates(problem.demands[i])
    PROVE  c \in Hour /\ FreeAt(problem, B, problem.demands[i], c)
<1> DEFINE d == problem.demands[i]
           rule == problem.teacher[d.teacher]
<1>1. c \in Hour /\ CanPlace(d, c, PickRoom(d, c))
  BY DEF Candidates
<1>2. /\ d.section \in Section /\ d.subject \in Subject
      /\ d.teacher \in Teacher /\ d.teacher # NoTeacher
  BY EngineAssumption DEF ProblemOK
<1>3. \A l \in B : l.at = c => l.section # d.section /\ l.teacher # d.teacher
  BY <1>1, <1>2, MirrorSets DEF CanPlace
<1>4. c \notin rule.off
  BY <1>1 DEF CanPlace
<1>5. Cardinality(OnDay(Taught(d.teacher, B), c[1])) + 1 <= rule.maxPerDay
  BY <1>1, <1>2, MirrorCounts DEF CanPlace
<1>6. d.doubles \/ Cardinality(OnDay(Held(d, B), c[1])) + 1 <= d.maxPerDay
  BY <1>1, <1>2, MirrorCounts DEF CanPlace
<1>7. ASSUME rule.spaced, NEW l \in Taught(d.teacher, B), l.at \in Beside(c)
      PROVE  FALSE
  <2>1. <<d.teacher, l.at>> \notin mirror.teacher
    BY <1>1, <1>7 DEF CanPlace
  <2> QED BY <2>1, <1>2, <1>7, MirrorSets DEF Taught
<1> QED BY <1>1, <1>3, <1>4, <1>5, <1>6, <1>7 DEF FreeAt

LEMMA FreeAreCandidates ==
    ASSUME ProblemOK(problem), NEW B, B \subseteq Slot, mirror = MirrorOf(B),
           problem.rooms = <<>>, problem.locked \subseteq B,
           NEW i \in Demand(problem), NEW c \in Hour, FreeAt(problem, B, problem.demands[i], c)
    PROVE  c \in Candidates(problem.demands[i])
<1> DEFINE d == problem.demands[i]
           rule == problem.teacher[d.teacher]
<1>1. PickRoom(d, c) = Unmanaged
  BY DEF PickRoom
<1>2. /\ d.section \in Section /\ d.subject \in Subject
      /\ d.teacher \in Teacher /\ d.teacher # NoTeacher
  BY EngineAssumption DEF ProblemOK
<1>0. /\ \A s, h : <<s, h>> \in mirror.section <=> \E l \in B : l.at = h /\ l.section = s
      /\ \A t, h : <<t, h>> \in mirror.teacher <=>
            \E l \in B : l.at = h /\ l.teacher = t /\ t # NoTeacher
  BY MirrorSets
<1>3. /\ <<d.section, c>> \notin mirror.section
      /\ <<d.teacher, c>> \notin mirror.teacher
  BY <1>0 DEF FreeAt
<1>4. /\ c \notin rule.off
      /\ mirror.teacherDay[<<d.teacher, c[1]>>] + 1 <= rule.maxPerDay
      /\ d.doubles \/ mirror.subjectDay[<<d.section, d.subject, c[1]>>] + 1 <= d.maxPerDay
  BY <1>2, MirrorCounts DEF FreeAt
<1>5. ASSUME rule.spaced, NEW h \in Beside(c), <<d.teacher, h>> \in mirror.teacher
      PROVE  FALSE
  <2>1. PICK l \in B : l.at = h /\ l.teacher = d.teacher
    BY <1>0, <1>5
  <2> QED BY <1>5, <2>1 DEF FreeAt, Taught
<1>6. CanPlace(d, c, Unmanaged)
  BY <1>3, <1>4, <1>5 DEF CanPlace
<1>7. ~\E k \in problem.locked : k.section = d.section /\ k.at = c
  BY DEF FreeAt
<1>8. Unmanaged # NoFit
  BY DEF Unmanaged, NoFit
<1> QED BY <1>1, <1>6, <1>7, <1>8 DEF Candidates

\* A lesson of a demand.
Fills(p, i, x) ==
    /\ x.section = p.demands[i].section /\ x.subject = p.demands[i].subject
    /\ x.teacher = p.demands[i].teacher

\* A free hour keeps the board good, with any room that is free and fits.
LEMMA FreeIsGood ==
    ASSUME NEW p, ProblemOK(p), NEW B, B \subseteq Slot, IsFiniteSet(B), Good(p, B),
           NEW i \in Demand(p), NEW x \in Slot, Fills(p, i, x),
           FreeAt(p, B, p.demands[i], x.at),
           x.room # Unmanaged =>
              /\ \A l \in B : l.at = x.at => l.room # x.room
              /\ \E n \in DOMAIN p.rooms : p.rooms[n].id = x.room
                                           /\ RoomFits(p, p.demands[i], p.rooms[n])
    PROVE  x \notin B /\ Good(p, B \cup {x})
<1> DEFINE d == p.demands[i]
           C == B \cup {x}
<1>0. NoClash(B) /\ DaysKept(p, B) /\ SubjectsSpread(p, B) /\ RoomsFit(p, B)
  BY DEF Good
<1>1. \A l \in B : l.at = x.at => l.section # x.section /\ l.teacher # x.teacher
  BY DEF FreeAt, Fills
<1>2. x \notin B
  BY <1>1
<1>3. NoClash(C)
  <2> SUFFICES ASSUME NEW a \in C, NEW b \in C, a # b, a.at = b.at
               PROVE  /\ a.teacher # b.teacher /\ a.section # b.section
                      /\ a.room = Unmanaged \/ a.room # b.room
    BY DEF NoClash
  <2>1. CASE a \in B /\ b \in B
    BY <1>0, <2>1 DEF NoClash
  <2>2. CASE a = x /\ b \in B
    BY <1>1, <2>2
  <2>3. CASE a \in B /\ b = x
    BY <1>1, <2>3
  <2> QED BY <2>1, <2>2, <2>3
<1>4. x.at \in Hour /\ x.at[1] \in Day
  BY HoursAreFew DEF Slot
<1>5. ASSUME NEW t \in DOMAIN p.teacher, t # d.teacher
      PROVE  Taught(t, C) = Taught(t, B)
  BY <1>5 DEF Taught, Fills
<1>6. Taught(d.teacher, C) = Taught(d.teacher, B) \cup {x} /\ d.teacher \in DOMAIN p.teacher
  BY DEF Taught, Fills, ProblemOK
<1>7. DaysKept(p, C)
  <2> SUFFICES ASSUME NEW t \in DOMAIN p.teacher
               PROVE  LET rule == p.teacher[t]
                          mine == Taught(t, C)
                      IN  /\ \A l \in mine : l.at \notin rule.off
                          /\ \A wday \in Day : Cardinality(OnDay(mine, wday)) <= rule.maxPerDay
                          /\ rule.spaced => \A a, b \in mine :
                                ~(a.at[1] = b.at[1] /\ a.at[2] = b.at[2] + 1)
    BY DEF DaysKept
  <2>1. CASE t # d.teacher
    BY <1>0, <1>5, <2>1 DEF DaysKept
  <2>2. CASE t = d.teacher
    <3> DEFINE rule == p.teacher[t]
               old == Taught(t, B)
    <3>1. Taught(t, C) = old \cup {x}
      BY <1>6, <2>2
    <3>2. \A l \in old \cup {x} : l.at \notin rule.off
      BY <1>0, <2>2 DEF DaysKept, FreeAt
    <3>3. ASSUME NEW wday \in Day PROVE Cardinality(OnDay(old \cup {x}, wday)) <= rule.maxPerDay
      <4>1. CASE wday # x.at[1]
        <5>1. OnDay(old \cup {x}, wday) = OnDay(old, wday)
          BY <4>1 DEF OnDay
        <5> QED BY <1>0, <5>1 DEF DaysKept
      <4>2. CASE wday = x.at[1]
        <5>1. OnDay(old \cup {x}, wday) = OnDay(old, wday) \cup {x}
          BY <4>2 DEF OnDay
        <5>2. x \notin OnDay(old, wday) /\ IsFiniteSet(OnDay(old, wday))
          BY <1>2, FS_Subset DEF OnDay, Taught
        <5>3. Cardinality(OnDay(old \cup {x}, wday)) = Cardinality(OnDay(old, wday)) + 1
          BY <5>1, <5>2, FS_AddElement
        <5>4. Cardinality(OnDay(old, wday)) + 1 <= rule.maxPerDay
          BY <2>2, <4>2 DEF FreeAt
        <5> QED BY <5>3, <5>4
      <4> QED BY <4>1, <4>2
    <3>4. ASSUME rule.spaced, NEW a \in old \cup {x}, NEW b \in old \cup {x},
                 a.at[1] = b.at[1], a.at[2] = b.at[2] + 1
          PROVE  FALSE
      <4>0. a.at \in Hour /\ b.at \in Hour
        BY <1>4 DEF Taught, Slot
      <4>00. a.at[2] \in Nat /\ b.at[2] \in Nat
        BY <4>0, HoursAreFew
      <4>1. CASE a \in old /\ b \in old
        BY <1>0, <3>4, <4>1 DEF DaysKept
      <4>2. CASE a = x /\ b \in old
        <5>1. b.at \in Beside(x.at)
          BY <1>4, <3>4, <4>0, <4>2, BesideIs
        <5> QED BY <2>2, <3>4, <4>2, <5>1 DEF FreeAt
      <4>3. CASE a \in old /\ b = x
        <5>1. a.at \in Beside(x.at)
          BY <1>4, <3>4, <4>0, <4>3, BesideIs
        <5> QED BY <2>2, <3>4, <4>3, <5>1 DEF FreeAt
      <4>4. CASE a = x /\ b = x
        BY <3>4, <4>00, <4>4
      <4> QED BY <4>1, <4>2, <4>3, <4>4
    <3> QED BY <3>1, <3>2, <3>3, <3>4
  <2> QED BY <2>1, <2>2
<1>8. SubjectsSpread(p, C)
  <2> SUFFICES ASSUME NEW j \in Demand(p), ~p.demands[j].doubles, NEW wday \in Day
               PROVE  Cardinality(OnDay(Held(p.demands[j], C), wday)) <= p.demands[j].maxPerDay
    BY DEF SubjectsSpread
  <2> DEFINE old == Held(p.demands[j], B)
  <2>0. Cardinality(OnDay(old, wday)) <= p.demands[j].maxPerDay
    BY <1>0 DEF SubjectsSpread
  <2>1. CASE j # i
    <3>1. ~Wants(p.demands[j], x)
      <4>1. Wants(p.demands[j], x) => Wants(p.demands[j], p.demands[i])
        BY DEF Wants, Fills
      <4> QED BY <2>1, <4>1 DEF ProblemOK
    <3>2. Held(p.demands[j], C) = old
      BY <3>1 DEF Held
    <3> QED BY <2>0, <3>2
  <2>2. CASE j = i /\ wday # x.at[1]
    <3>1. OnDay(Held(p.demands[j], C), wday) = OnDay(old, wday)
      BY <2>2 DEF Held, OnDay
    <3> QED BY <2>0, <3>1
  <2>3. CASE j = i /\ wday = x.at[1]
    <3>1. OnDay(Held(p.demands[j], C), wday) = OnDay(old, wday) \cup {x}
      BY <2>3 DEF Held, OnDay, Wants, Fills
    <3>2. x \notin OnDay(old, wday) /\ IsFiniteSet(OnDay(old, wday))
      BY <1>2, FS_Subset DEF OnDay, Held
    <3>3. Cardinality(OnDay(Held(p.demands[j], C), wday)) = Cardinality(OnDay(old, wday)) + 1
      BY <3>1, <3>2, FS_AddElement
    <3>4. Cardinality(OnDay(old, wday)) + 1 <= p.demands[j].maxPerDay
      BY <2>3 DEF FreeAt
    <3> QED BY <3>3, <3>4
  <2> QED BY <2>1, <2>2, <2>3
<1>9. RoomsFit(p, C)
  <2> SUFFICES ASSUME NEW l \in C, l.room # Unmanaged, p.rooms # <<>>
               PROVE  \E n \in DOMAIN p.rooms :
                        /\ p.rooms[n].id = l.room
                        /\ \A j \in Demand(p) :
                              Wants(p.demands[j], l) => RoomFits(p, p.demands[j], p.rooms[n])
                        /\ p.rooms[n].capacity = 0 \/ p.strength[l.section] <= p.rooms[n].capacity
    BY DEF RoomsFit
  <2>1. CASE l \in B
    BY <1>0, <2>1 DEF RoomsFit
  <2>2. CASE l = x
    <3>1. PICK n \in DOMAIN p.rooms : p.rooms[n].id = x.room /\ RoomFits(p, d, p.rooms[n])
      BY <2>2
    <3>2. ASSUME NEW j \in Demand(p), Wants(p.demands[j], x) PROVE j = i
      <4>1. Wants(p.demands[j], p.demands[i])
        BY <3>2 DEF Wants, Fills
      <4> QED BY <4>1 DEF ProblemOK
    <3>3. p.rooms[n].capacity = 0 \/ p.strength[x.section] <= p.rooms[n].capacity
      BY <3>1 DEF RoomFits, Fills
    <3> QED BY <2>2, <3>1, <3>2, <3>3
  <2> QED BY <2>1, <2>2
<1> QED BY <1>2, <1>3, <1>7, <1>8, <1>9 DEF Good

\* A lesson of a good board is free on any part of the board without it.
LEMMA GoodIsFree ==
    ASSUME NEW p, ProblemOK(p), NEW C, C \subseteq Slot, IsFiniteSet(C), Good(p, C),
           NEW B, B \subseteq C, NEW x \in C \ B, NEW i \in Demand(p), Fills(p, i, x)
    PROVE  FreeAt(p, B, p.demands[i], x.at)
<1> DEFINE d == p.demands[i]
           rule == p.teacher[d.teacher]
           A == B \cup {x}
<1>0. Good(p, A)
  BY GoodBelow
<1>1. NoClash(A) /\ DaysKept(p, A) /\ SubjectsSpread(p, A)
  BY <1>0 DEF Good
<1>2. \A l \in B : l.at = x.at => l.section # d.section /\ l.teacher # d.teacher
  BY <1>1 DEF NoClash, Fills
<1>3. x.at \in Hour /\ x.at[1] \in Day /\ d.teacher \in DOMAIN p.teacher /\ IsFiniteSet(B)
  BY HoursAreFew, FS_Subset DEF Slot, ProblemOK
<1>4. x \in Taught(d.teacher, A) /\ Taught(d.teacher, B) \subseteq Taught(d.teacher, A)
  BY DEF Taught, Fills
<1>5. x.at \notin rule.off
  BY <1>1, <1>3, <1>4 DEF DaysKept
<1>6. Cardinality(OnDay(Taught(d.teacher, B), x.at[1])) + 1 <= rule.maxPerDay
  <2> DEFINE old == OnDay(Taught(d.teacher, B), x.at[1])
  <2>1. OnDay(Taught(d.teacher, A), x.at[1]) = old \cup {x}
    BY DEF OnDay, Taught, Fills
  <2>2. x \notin old /\ IsFiniteSet(old)
    BY <1>3, FS_Subset DEF OnDay, Taught
  <2>3. Cardinality(OnDay(Taught(d.teacher, A), x.at[1])) = Cardinality(old) + 1
    BY <2>1, <2>2, FS_AddElement
  <2>4. Cardinality(OnDay(Taught(d.teacher, A), x.at[1])) <= rule.maxPerDay
    BY <1>1, <1>3 DEF DaysKept
  <2> QED BY <2>3, <2>4
<1>7. ASSUME rule.spaced, NEW l \in Taught(d.teacher, B), l.at \in Beside(x.at) PROVE FALSE
  <2>1. l.at \in Hour
    BY DEF Taught, Slot
  <2>2. l.at[1] = x.at[1] /\ (l.at[2] = x.at[2] + 1 \/ x.at[2] = l.at[2] + 1)
    BY <1>3, <1>7, <2>1, BesideIs
  <2> QED BY <1>1, <1>3, <1>4, <1>7, <2>2 DEF DaysKept
<1>8. ASSUME ~d.doubles PROVE Cardinality(OnDay(Held(d, B), x.at[1])) + 1 <= d.maxPerDay
  <2> DEFINE old == OnDay(Held(d, B), x.at[1])
  <2>1. OnDay(Held(d, A), x.at[1]) = old \cup {x}
    BY DEF OnDay, Held, Wants, Fills
  <2>2. x \notin old /\ IsFiniteSet(old)
    BY <1>3, FS_Subset DEF OnDay, Held
  <2>3. Cardinality(OnDay(Held(d, A), x.at[1])) = Cardinality(old) + 1
    BY <2>1, <2>2, FS_AddElement
  <2>4. Cardinality(OnDay(Held(d, A), x.at[1])) <= d.maxPerDay
    BY <1>1, <1>3, <1>8 DEF SubjectsSpread
  <2> QED BY <2>3, <2>4
<1> QED BY <1>2, <1>5, <1>6, <1>7, <1>8 DEF FreeAt

-----------------------------------------------------------------------------
(* The lessons the search has chosen *)

LEMMA LeftIsNat == ASSUME NEW p, ProblemOK(p), NEW i \in Demand(p) PROVE Left(p, i) \in Nat
<1>1. IsFiniteSet(Held(p.demands[i], p.locked)) /\ p.demands[i].perWeek \in Nat
  BY FS_Subset DEF ProblemOK, Held
<1>2. Cardinality(Held(p.demands[i], p.locked)) \in Nat
  BY <1>1, FS_CardinalityType
<1> QED BY <1>1, <1>2 DEF Left

LEMMA LessonsAre ==
    ASSUME NEW p, ProblemOK(p)
    PROVE  /\ IsFiniteSet(ExpandDemands(p))
           /\ \A i \in Demand(p) : {i} \X (1 .. Left(p, i)) \subseteq ExpandDemands(p)
           /\ \A j \in ExpandDemands(p) :
                 /\ j = <<j[1], j[2]>> /\ j[1] \in Demand(p) /\ j[2] \in 1 .. Left(p, j[1])
                 /\ j \in {j[1]} \X (1 .. Left(p, j[1]))
                 /\ j[1] \in Nat /\ j[2] \in Nat
<1> DEFINE F == [i \in Demand(p) |-> {i} \X (1 .. Left(p, i))]
           all == {F[i] : i \in Demand(p)}
<1>1. ASSUME NEW i \in Demand(p) PROVE IsFiniteSet(F[i])
  <2>1. IsFiniteSet({i}) /\ IsFiniteSet(1 .. Left(p, i))
    <3>1. PICK n \in Nat : n = Left(p, i)
      BY LeftIsNat
    <3>2. IsFiniteSet(1 .. n)
      BY FS_Interval
    <3> QED BY <3>1, <3>2, FS_Singleton
  <2> QED BY <2>1, FS_Product
<1>2. IsFiniteSet(all)
  <2>1. F \in Surjection(Demand(p), all)
    BY DEF Surjection
  <2>2. IsFiniteSet(Demand(p))
    BY DEF ProblemOK
  <2> HIDE DEF all, F
  <2> QED BY <2>1, <2>2, FS_Surjection
<1>3. ExpandDemands(p) = UNION all
  BY DEF ExpandDemands
<1>4. IsFiniteSet(UNION all)
  <2>1. \A T \in all : IsFiniteSet(T)
    BY <1>1
  <2> HIDE DEF all
  <2> QED BY <1>2, <2>1, FS_UNION
<1>5. \A i \in Demand(p) : {i} \X (1 .. Left(p, i)) \subseteq ExpandDemands(p)
  BY DEF ExpandDemands
<1>6. ASSUME NEW j \in ExpandDemands(p)
      PROVE  /\ j = <<j[1], j[2]>> /\ j[1] \in Demand(p) /\ j[2] \in 1 .. Left(p, j[1])
             /\ j \in {j[1]} \X (1 .. Left(p, j[1]))
             /\ j[1] \in Nat /\ j[2] \in Nat
  <2>1. PICK i \in Demand(p) : j \in {i} \X (1 .. Left(p, i))
    BY <1>6 DEF ExpandDemands
  <2>2. j[1] = i /\ j[2] \in 1 .. Left(p, i) /\ j = <<j[1], j[2]>>
    BY <2>1
  <2>3. i \in Nat /\ j[2] \in Nat
    BY <2>2 DEF ProblemOK
  <2> QED BY <2>1, <2>2, <2>3
<1> QED BY <1>3, <1>4, <1>5, <1>6

\* A frame of the search, and the lesson it puts on the board.
Frame(p) == [lesson : ExpandDemands(p), at : Hour \cup {NoHour}, room : Room \cup {Unmanaged}, todo : SUBSET Hour]
Cell(p, f) == Put(f, p.demands[f.lesson[1]])
BoardTo(p, st, k) == p.locked \cup {Cell(p, st[n]) : n \in 1 .. k}

\* The first k frames have their lesson on the board, each in a place of its own.
Laid(p, st, k) ==
    \A n \in 1 .. k :
        /\ st[n].at \in Hour
        /\ Cell(p, st[n]) \notin BoardTo(p, st, n - 1)
        /\ p.rooms = <<>> => st[n].room = Unmanaged

\* No lesson is in two frames, and what a frame has left to try is free where it is.
Listed(p, st) ==
    /\ st \in Seq(Frame(p))
    /\ \A m, n \in 1 .. Len(st) : st[m].lesson = st[n].lesson => m = n
    /\ \A n \in 1 .. Len(st) : \A c \in st[n].todo :
          FreeAt(p, BoardTo(p, st, n - 1), p.demands[st[n].lesson[1]], c)

LEMMA CellIs ==
    ASSUME NEW p, ProblemOK(p), NEW f \in Frame(p), f.at \in Hour
    PROVE  /\ Cell(p, f) \in Slot /\ f.lesson[1] \in Demand(p) /\ Fills(p, f.lesson[1], Cell(p, f))
           /\ Cell(p, f).at = f.at /\ Cell(p, f).room = f.room
<1>1. f.lesson \in ExpandDemands(p) /\ f.room \in Room \cup {Unmanaged}
  BY DEF Frame
<1>2. f.lesson[1] \in Demand(p)
  BY <1>1, LessonsAre
<1> QED BY <1>1, <1>2 DEF Cell, Put, Slot, Fills, ProblemOK

LEMMA BoardSteps ==
    ASSUME NEW p, NEW st, NEW k \in Nat
    PROVE  BoardTo(p, st, k + 1) = BoardTo(p, st, k) \cup {Cell(p, st[k + 1])}
<1>1. 1 .. (k + 1) = (1 .. k) \cup {k + 1}
  OBVIOUS
<1> QED BY <1>1 DEF BoardTo

LEMMA BoardEmpty == ASSUME NEW p, NEW st PROVE BoardTo(p, st, 0) = p.locked
BY DEF BoardTo

LEMMA BoardSame ==
    ASSUME NEW p, NEW st, NEW tt, NEW k \in Nat, \A n \in 1 .. k : st[n] = tt[n]
    PROVE  BoardTo(p, st, k) = BoardTo(p, tt, k)
BY DEF BoardTo

LEMMA BoardIsSlots ==
    ASSUME NEW p, ProblemOK(p), NEW st \in Seq(Frame(p)), NEW k \in Nat, k <= Len(st),
           \A n \in 1 .. k : st[n].at \in Hour
    PROVE  /\ BoardTo(p, st, k) \subseteq Slot /\ IsFiniteSet(BoardTo(p, st, k))
           /\ p.locked \subseteq BoardTo(p, st, k)
           /\ \A m \in 0 .. k : BoardTo(p, st, m) \subseteq BoardTo(p, st, k)
<1> DEFINE F == [n \in 1 .. k |-> Cell(p, st[n])]
           all == {Cell(p, st[n]) : n \in 1 .. k}
<1>1. \A n \in 1 .. k : st[n] \in Frame(p)
  BY ElementOfSeq
<1>2. all \subseteq Slot
  BY <1>1, CellIs
<1>3. IsFiniteSet(all)
  <2>1. F \in Surjection(1 .. k, all)
    BY DEF Surjection
  <2>2. IsFiniteSet(1 .. k)
    BY FS_Interval
  <2> HIDE DEF all, F
  <2> QED BY <2>1, <2>2, FS_Surjection
<1>4. IsFiniteSet(p.locked) /\ p.locked \subseteq Slot
  BY DEF ProblemOK
<1>5. BoardTo(p, st, k) = p.locked \cup all
  BY DEF BoardTo
<1>6. \A m \in 0 .. k : 1 .. m \subseteq 1 .. k
  OBVIOUS
<1>7. \A m \in 0 .. k : BoardTo(p, st, m) \subseteq BoardTo(p, st, k)
  BY <1>6 DEF BoardTo
<1> HIDE DEF all
<1> QED BY <1>2, <1>3, <1>4, <1>5, <1>7, FS_Union

LEMMA Retopped ==
    ASSUME NEW F, NEW s \in Seq(F), s # <<>>, NEW f \in F
    PROVE  LET t == [s EXCEPT ![Len(s)] = f] IN
           /\ Len(s) \in Nat /\ Len(s) >= 1 /\ s[Len(s)] \in F
           /\ t \in Seq(F) /\ Len(t) = Len(s) /\ t[Len(s)] = f
           /\ t # <<>>
           /\ \A n \in 1 .. (Len(s) - 1) : t[n] = s[n] /\ n \in 1 .. Len(s)
<1>1. Len(s) \in Nat /\ Len(s) >= 1
  BY EmptySeq
<1>2. Len(s) \in 1 .. Len(s)
  BY <1>1
<1>3. s[Len(s)] \in F
  BY <1>2, ElementOfSeq
<1> DEFINE t == [s EXCEPT ![Len(s)] = f]
<1>4. /\ t \in Seq(F) /\ Len(t) = Len(s)
      /\ \A j \in 1 .. Len(s) : t[j] = IF j = Len(s) THEN f ELSE s[j]
  BY <1>2, ExceptSeq
<1>5. t # <<>>
  BY <1>1, <1>4, EmptySeq
<1> HIDE DEF t
<1>6. \A n \in 1 .. (Len(s) - 1) : t[n] = s[n] /\ n \in 1 .. Len(s)
  BY <1>1, <1>4
<1> QED BY <1>1, <1>2, <1>3, <1>4, <1>5, <1>6 DEF t

LEMMA Popped ==
    ASSUME NEW F, NEW s \in Seq(F), s # <<>>
    PROVE  LET t == SubSeq(s, 1, Len(s) - 1) IN
           /\ Len(s) \in Nat /\ Len(s) >= 1
           /\ t \in Seq(F) /\ Len(t) = Len(s) - 1
           /\ \A n \in 1 .. (Len(s) - 1) : t[n] = s[n] /\ n \in 1 .. Len(s)
<1>1. Len(s) \in Nat /\ Len(s) >= 1
  BY EmptySeq
<1>2. \A i \in 1 .. (Len(s) - 1) : s[i] \in F /\ i \in 1 .. Len(s)
  BY <1>1, ElementOfSeq
<1> DEFINE t == SubSeq(s, 1, Len(s) - 1)
<1>3. PICK n \in Int : n = Len(s) - 1
  BY <1>1
<1>4. /\ t \in Seq(F) /\ Len(t) = (IF 1 <= n THEN n - 1 + 1 ELSE 0)
      /\ \A i \in 1 .. n - 1 + 1 : t[i] = s[1 + i - 1]
  BY <1>2, <1>3, SubSeqProperties
<1>5. Len(t) = n
  BY <1>1, <1>3, <1>4
<1>6. \A i \in 1 .. n : t[i] = s[i]
  <2> SUFFICES ASSUME NEW i \in 1 .. n PROVE t[i] = s[i]
    OBVIOUS
  <2>1. i \in 1 .. n - 1 + 1 /\ 1 + i - 1 = i
    OBVIOUS
  <2> QED BY <1>4, <2>1
<1> QED BY <1>1, <1>2, <1>3, <1>4, <1>5, <1>6

LEMMA Pushed ==
    ASSUME NEW F, NEW s \in Seq(F), NEW f \in F
    PROVE  LET t == Append(s, f) IN
           /\ t \in Seq(F) /\ Len(t) = Len(s) + 1 /\ t[Len(s) + 1] = f /\ t # <<>>
           /\ Len(s) \in Nat
           /\ \A n \in 1 .. Len(s) : t[n] = s[n] /\ n \in 1 .. Len(t)
BY AppendProperties, LenProperties, EmptySeq

-----------------------------------------------------------------------------
(* The lesson chosen next is an open one *)

\* Of a table of numbers, an entry none is below.
LEMMA Least ==
    ASSUME NEW S, IsFiniteSet(S), S # {}, NEW f, \A x \in S : f[x] \in Nat
    PROVE  \E m \in S : \A x \in S : f[m] <= f[x]
<1> DEFINE g == [x \in S |-> 0 - f[x]]
<1>1. \A x \in S : g[x] \in Int /\ g[x] = 0 - f[x]
  OBVIOUS
<1> HIDE DEF g
<1>2. PICK m \in S : \A x \in S : g[x] <= g[m]
  BY <1>1, Greatest
<1> QED BY <1>1, <1>2

LEMMA MostIsOpen ==
    ASSUME ProblemOK(problem), Open # {}
    PROVE  MostConstrained \in Open
<1> DEFINE count == [i \in Open |-> Cardinality(Candidates(DemandOf(i)))]
           fewest == {i \in Open : \A j \in Open : count[i] <= count[j]}
           degree == [i \in fewest |-> Degree(i)]
           shared == {i \in fewest : \A j \in fewest : degree[i] >= degree[j]}
<1>0. IsFiniteSet(Lessons) /\ \A j \in Lessons : j[1] \in Nat /\ j[2] \in Nat /\ j = <<j[1], j[2]>>
  BY LessonsAre DEF Lessons
<1>1. IsFiniteSet(Open)
  BY <1>0, FS_Subset DEF Open
<1>2. \A i \in Open : count[i] \in Nat
  <2> TAKE i \in Open
  <2>1. IsFiniteSet(Candidates(DemandOf(i)))
    BY HoursAreFew, FS_Subset DEF Candidates
  <2> QED BY <2>1, FS_CardinalityType
<1>3. fewest # {} /\ IsFiniteSet(fewest)
  <2>1. \E m \in Open : \A x \in Open : count[m] <= count[x]
    <3> HIDE DEF count
    <3> QED BY <1>1, <1>2, Least
  <2>2. fewest # {}
    BY <2>1
  <2>3. IsFiniteSet(fewest)
    BY <1>1, FS_Subset
  <2> QED BY <2>2, <2>3
<1>4. \A i \in fewest : degree[i] \in Int
  <2> TAKE i \in fewest
  <2>1. IsFiniteSet({j \in Lessons : DemandOf(j).teacher = DemandOf(i).teacher})
    BY <1>0, FS_Subset
  <2>2. Degree(i) \in Nat
    BY <2>1, FS_CardinalityType DEF Degree
  <2> QED BY <2>2
<1>5. shared # {} /\ IsFiniteSet(shared)
  <2>1. \E m \in fewest : \A x \in fewest : degree[x] <= degree[m]
    <3> HIDE DEF fewest, degree
    <3> QED BY <1>3, <1>4, Greatest
  <2>2. PICK m \in fewest : \A x \in fewest : degree[x] <= degree[m]
    BY <2>1
  <2>3. m \in shared
    <3> HIDE DEF fewest, degree
    <3> QED BY <1>4, <2>2
  <2>4. IsFiniteSet(shared)
    BY <1>3, FS_Subset
  <2> QED BY <2>3, <2>4
<1>6. shared \subseteq Open /\ \A j \in shared : j[1] \in Nat /\ j[2] \in Nat
  BY <1>0 DEF Open
<1>7. \E i \in shared : \A j \in shared : i[1] < j[1] \/ (i[1] = j[1] /\ i[2] <= j[2])
  <2> HIDE DEF shared
  <2> DEFINE first == [j \in shared |-> j[1]]
  <2>1. \A j \in shared : first[j] \in Nat /\ first[j] = j[1]
    BY <1>6
  <2> HIDE DEF first
  <2>2. PICK m \in shared : \A x \in shared : first[m] <= first[x]
    BY <1>5, <2>1, Least
  <2> DEFINE ties == {j \in shared : j[1] = m[1]}
             second == [j \in ties |-> j[2]]
  <2>3. IsFiniteSet(ties) /\ m \in ties /\ \A j \in ties : second[j] \in Nat /\ second[j] = j[2]
    BY <1>5, <1>6, FS_Subset
  <2> HIDE DEF second
  <2>4. \E n \in ties : \A x \in ties : second[n] <= second[x]
    <3> HIDE DEF ties
    <3> QED BY <2>3, Least
  <2>5. PICK n \in ties : \A x \in ties : second[n] <= second[x]
    BY <2>4
  <2>6. n \in shared
    OBVIOUS
  <2> QED BY <1>6, <2>1, <2>2, <2>3, <2>5, <2>6
<1>8. MostConstrained = CHOOSE i \in shared : \A j \in shared : i[1] < j[1] \/ (i[1] = j[1] /\ i[2] <= j[2])
  BY DEF MostConstrained
<1> HIDE DEF shared
<1> QED BY <1>6, <1>7, <1>8

-----------------------------------------------------------------------------
(* The search: its mirrors are the board's, its board is good *)

Running == {"select", "try", "back", "check"}

\* Every frame has its lesson on the board, but the one being tried.
Depth(ph, st) == IF ph = "try" THEN Len(st) - 1 ELSE Len(st)

InSearch(p, ph, m, st) ==
    /\ p \in Problems
    /\ Lawful(p, p.locked) /\ StaticFeasibility(p)
    /\ Listed(p, st)
    /\ ph = "try" => st # <<>>
    /\ Laid(p, st, Depth(ph, st))
    /\ m = MirrorOf(BoardTo(p, st, Depth(ph, st)))
    /\ Good(p, BoardTo(p, st, Depth(ph, st)))
    /\ ph = "check" => \A j \in ExpandDemands(p) : \E n \in 1 .. Len(st) : st[n].lesson = j

SearchInv ==
    /\ phase \in Running \cup {"none", "new", "solved", "refused", "infeasible"}
    /\ phase = "new" => problem \in Problems /\ stack = <<>> /\ mirror = MirrorOf(problem.locked)
    /\ phase \in Running => InSearch(problem, phase, mirror, stack)
    /\ phase = "infeasible" => problem \in Problems
    /\ phase = "refused" => ~LocksFit(problem)

LEMMA DepthIs ==
    ASSUME NEW p, ProblemOK(p), NEW ph, NEW m, NEW st, InSearch(p, ph, m, st)
    PROVE  /\ st \in Seq(Frame(p)) /\ Len(st) \in Nat
           /\ Depth(ph, st) \in Nat /\ Depth(ph, st) <= Len(st)
           /\ \A n \in 1 .. Depth(ph, st) : st[n].at \in Hour
           /\ BoardTo(p, st, Depth(ph, st)) \subseteq Slot
           /\ IsFiniteSet(BoardTo(p, st, Depth(ph, st)))
           /\ p.locked \subseteq BoardTo(p, st, Depth(ph, st))
<1>1. st \in Seq(Frame(p)) /\ Len(st) \in Nat
  BY LenProperties DEF InSearch, Listed
<1>2. Depth(ph, st) \in Nat /\ Depth(ph, st) <= Len(st)
  BY <1>1, EmptySeq DEF InSearch, Depth
<1>3. \A n \in 1 .. Depth(ph, st) : st[n].at \in Hour
  BY DEF InSearch, Laid
<1> QED BY <1>1, <1>2, <1>3, BoardIsSlots

LEMMA ProblemsOK == ASSUME NEW p \in Problems PROVE ProblemOK(p)
BY EngineAssumption

\* The room picked is one that fits and is free.
LEMMA PickedRoom ==
    ASSUME ProblemOK(problem), NEW B, mirror = MirrorOf(B), NEW d, NEW c,
           PickRoom(d, c) # NoFit
    PROVE  LET r == PickRoom(d, c) IN
           /\ r \in Room \cup {Unmanaged}
           /\ problem.rooms = <<>> => r = Unmanaged
           /\ r # Unmanaged =>
                 /\ \A l \in B : l.at = c => l.room # r
                 /\ \E n \in DOMAIN problem.rooms :
                       problem.rooms[n].id = r /\ RoomFits(problem, d, problem.rooms[n])
<1> DEFINE fits == {n \in DOMAIN problem.rooms :
                      /\ RoomFits(problem, d, problem.rooms[n])
                      /\ <<problem.rooms[n].id, c>> \notin mirror.room}
<1>1. CASE problem.rooms = <<>>
  <2>1. PickRoom(d, c) = Unmanaged
    BY <1>1 DEF PickRoom
  <2> QED BY <2>1
<1>2. CASE problem.rooms # <<>>
  <2>1. fits # {} /\ PickRoom(d, c) = problem.rooms[Min(fits)].id
    BY <1>2 DEF PickRoom
  <2>2. IsFiniteSet(fits) /\ fits \subseteq Nat
    BY FS_Subset DEF ProblemOK
  <2>3. Min(fits) \in fits
    <3> HIDE DEF fits
    <3> DEFINE f == [n \in fits |-> n]
    <3>1. \A n \in fits : f[n] \in Nat /\ f[n] = n
      BY <2>2
    <3> HIDE DEF f
    <3>2. \E m \in fits : \A x \in fits : f[m] <= f[x]
      BY <2>1, <2>2, <3>1, Least
    <3>3. \E m \in fits : \A x \in fits : m <= x
      BY <3>1, <3>2
    <3> QED BY <3>3 DEF Min
  <2>4. PICK n \in DOMAIN problem.rooms :
           /\ PickRoom(d, c) = problem.rooms[n].id
           /\ RoomFits(problem, d, problem.rooms[n])
           /\ <<problem.rooms[n].id, c>> \notin mirror.room
    BY <2>1, <2>3
  <2>5. PickRoom(d, c) \in Room \cup {Unmanaged}
    BY <2>4 DEF ProblemOK
  <2>6. ASSUME NEW l \in B, l.at = c, l.room = PickRoom(d, c), PickRoom(d, c) # Unmanaged
        PROVE  FALSE
    <3>1. <<l.room, c>> \in mirror.room
      BY <2>6, MirrorSets
    <3> QED BY <2>4, <2>6, <3>1
  <2> QED BY <1>2, <2>4, <2>5, <2>6
<1> QED BY <1>1, <1>2

LEMMA StartKeeps == ASSUME SearchInv, StartSolve PROVE SearchInv'
<1>0. /\ phase = "new" /\ problem \in Problems /\ stack = <<>> /\ mirror = MirrorOf(problem.locked)
      /\ UNCHANGED <<mirror, stack, problem>>
  BY DEF SearchInv, StartSolve, Aside
<1>1. CASE Lawful(problem, problem.locked) /\ StaticFeasibility(problem)
  <2>1. phase' = "select"
    BY <1>1 DEF StartSolve, Goes
  <2>2. Listed(problem, <<>>) /\ Len(<<>>) = 0
    BY EmptySeq DEF Listed
  <2>3. Depth("select", <<>>) = 0
    BY <2>2 DEF Depth
  <2>4. Laid(problem, <<>>, 0)
    BY DEF Laid
  <2>5. BoardTo(problem, <<>>, 0) = problem.locked
    BY BoardEmpty
  <2>6. InSearch(problem, "select", mirror, <<>>)
    BY <1>0, <1>1, <2>2, <2>3, <2>4, <2>5, LawfulIsGood DEF InSearch
  <2> QED BY <1>0, <2>1, <2>6 DEF SearchInv, Running
<1>2. CASE ~(Lawful(problem, problem.locked) /\ StaticFeasibility(problem))
  <2>1. phase' = "infeasible"
    BY <1>2 DEF StartSolve, Goes
  <2> QED BY <1>0, <2>1 DEF SearchInv, Running
<1> QED BY <1>1, <1>2

\* The board in "select" is the whole stack's.
LEMMA BoardIs ==
    ASSUME NEW F, stack \in Seq(F)
    PROVE  /\ Board = BoardTo(problem, stack, Len(stack))
           /\ Placed = {stack[n].lesson : n \in 1 .. Len(stack)}
<1>1. DOMAIN stack = 1 .. Len(stack)
  BY LenProperties
<1> QED BY <1>1 DEF Board, BoardTo, Cell, DemandOf, Placed

LEMMA SelectKeeps == ASSUME SearchInv, SelectLesson PROVE SearchInv'
<1>0. /\ phase = "select" /\ InSearch(problem, phase, mirror, stack)
      /\ UNCHANGED <<mirror, problem>>
  BY DEF SearchInv, SelectLesson, Running, Aside
<1>1. ProblemOK(problem)
  BY <1>0, ProblemsOK DEF InSearch
<1>2. /\ stack \in Seq(Frame(problem)) /\ Len(stack) \in Nat
      /\ Depth(phase, stack) = Len(stack)
      /\ BoardTo(problem, stack, Len(stack)) \subseteq Slot
  BY <1>0, <1>1, DepthIs DEF Depth
<1>3. Placed = {stack[n].lesson : n \in 1 .. Len(stack)}
  BY <1>2, BoardIs
<1>4. CASE Open = {}
  <2>1. phase' = "check" /\ stack' = stack
    BY <1>4 DEF SelectLesson, Goes
  <2>2. \A j \in ExpandDemands(problem) : \E n \in 1 .. Len(stack) : stack[n].lesson = j
    BY <1>3, <1>4 DEF Open, Lessons
  <2>3. Depth("check", stack) = Depth("select", stack)
    BY DEF Depth
  <2>4. InSearch(problem, "check", mirror, stack)
    BY <1>0, <2>2, <2>3 DEF InSearch
  <2> QED BY <1>0, <2>1, <2>4 DEF SearchInv, Running
<1>5. CASE Open # {} /\ \E i \in Open : Candidates(DemandOf(i)) = {}
  <2>1. phase' = "back" /\ stack' = stack
    BY <1>5 DEF SelectLesson, Goes
  <2>2. Depth("back", stack) = Depth("select", stack)
    BY DEF Depth
  <2>3. InSearch(problem, "back", mirror, stack)
    BY <1>0, <2>2 DEF InSearch
  <2> QED BY <1>0, <2>1, <2>3 DEF SearchInv, Running
<1>6. CASE Open # {} /\ ~\E i \in Open : Candidates(DemandOf(i)) = {}
  <2>1. PICK i \in Open : i = MostConstrained
    BY <1>1, <1>6, MostIsOpen
  <2>0. PICK few \in Shortlists(Candidates(DemandOf(i))) :
           /\ stack' = Append(stack, [lesson |-> i, at |-> NoHour, room |-> Unmanaged, todo |-> few])
           /\ phase' = "try"
    BY <1>6, <2>1 DEF SelectLesson, Goes
  <2> DEFINE f == [lesson |-> i, at |-> NoHour, room |-> Unmanaged, todo |-> few]
  <2>2. phase' = "try" /\ stack' = Append(stack, f)
    BY <2>0
  <2>3. i \in ExpandDemands(problem) /\ \A n \in 1 .. Len(stack) : stack[n].lesson # i
    BY <1>3 DEF Open, Lessons
  <2>4. f \in Frame(problem)
    <3>1. few \subseteq Hour
      BY DEF Candidates, Shortlists
    <3> QED BY <2>3, <3>1 DEF Frame
  <2>5. PICK st : st = Append(stack, f)
    OBVIOUS
  <2>6. /\ st \in Seq(Frame(problem)) /\ Len(st) = Len(stack) + 1 /\ st[Len(stack) + 1] = f
        /\ st # <<>>
        /\ \A n \in 1 .. Len(stack) : st[n] = stack[n]
    <3> HIDE DEF f
    <3> QED BY <1>2, <2>4, <2>5, Pushed
  <2>7. \A n \in 1 .. Len(st) : n \in 1 .. Len(stack) \/ n = Len(stack) + 1
    BY <1>2, <2>6
  <2>8. \A m, n \in 1 .. Len(st) : st[m].lesson = st[n].lesson => m = n
    <3>1. f.lesson = i
      OBVIOUS
    <3> HIDE DEF f
    <3>2. \A m, n \in 1 .. Len(stack) : stack[m].lesson = stack[n].lesson => m = n
      BY <1>0 DEF InSearch, Listed
    <3> QED BY <2>3, <2>6, <2>7, <3>1, <3>2
  <2>9. \A k \in 0 .. Len(stack) : BoardTo(problem, st, k) = BoardTo(problem, stack, k)
    <3> TAKE k \in 0 .. Len(stack)
    <3>1. k \in Nat /\ \A n \in 1 .. k : st[n] = stack[n]
      BY <1>2, <2>6
    <3> HIDE DEF f
    <3> QED BY <3>1, BoardSame
  <2>10. ASSUME NEW n \in 1 .. Len(st), NEW c \in st[n].todo
         PROVE  FreeAt(problem, BoardTo(problem, st, n - 1), problem.demands[st[n].lesson[1]], c)
    <3>1. CASE n \in 1 .. Len(stack)
      <4>1. n - 1 \in 0 .. Len(stack) /\ st[n] = stack[n]
        BY <2>6, <1>2, <3>1
      <4> QED BY <1>0, <2>9, <2>10, <3>1, <4>1 DEF InSearch, Listed
    <3>2. CASE n = Len(stack) + 1
      <4>1. st[n] = f /\ n - 1 = Len(stack) /\ Len(stack) \in 0 .. Len(stack)
        BY <1>2, <2>6, <3>2
      <4>2. i[1] \in Demand(problem)
        BY <1>1, <2>3, LessonsAre
      <4>3. c \in Candidates(problem.demands[i[1]])
        BY <2>10, <4>1 DEF DemandOf, Shortlists
      <4>4. mirror = MirrorOf(BoardTo(problem, stack, Len(stack)))
        BY <1>0, <1>2 DEF InSearch
      <4>5. FreeAt(problem, BoardTo(problem, stack, Len(stack)), problem.demands[i[1]], c)
        BY <1>1, <1>2, <4>2, <4>3, <4>4, CandidatesAreFree
      <4> QED BY <2>9, <4>1, <4>5
    <3> QED BY <2>7, <3>1, <3>2
  <2>11. Listed(problem, st)
    <3> HIDE DEF f
    <3> QED BY <2>6, <2>8, <2>10 DEF Listed
  <2>12. Depth("try", st) = Len(stack) /\ Len(stack) \in 0 .. Len(stack)
    BY <1>2, <2>6 DEF Depth
  <2>13. Laid(problem, st, Len(stack))
    <3> SUFFICES ASSUME NEW n \in 1 .. Len(stack)
                 PROVE  /\ st[n].at \in Hour
                        /\ Cell(problem, st[n]) \notin BoardTo(problem, st, n - 1)
                        /\ problem.rooms = <<>> => st[n].room = Unmanaged
      BY DEF Laid
    <3>1. n - 1 \in 0 .. Len(stack) /\ st[n] = stack[n]
      BY <1>2, <2>6
    <3> QED BY <1>0, <1>2, <2>9, <3>1 DEF InSearch, Laid
  <2>14. InSearch(problem, "try", mirror, st)
    <3> HIDE DEF f
    <3> QED BY <1>0, <1>2, <2>6, <2>9, <2>11, <2>12, <2>13 DEF InSearch
  <2> HIDE DEF f
  <2> QED BY <1>0, <2>2, <2>5, <2>14 DEF SearchInv, Running
<1> QED BY <1>4, <1>5, <1>6

\* The frame on top becomes f, for the same lesson and with no more to try.
Retops(p, st, f, t) ==
    /\ Listed(p, st) /\ st # <<>>
    /\ f \in Frame(p) /\ f.lesson = st[Len(st)].lesson /\ f.todo \subseteq st[Len(st)].todo
    /\ t = [st EXCEPT ![Len(st)] = f]

LEMMA RetopKeeps ==
    ASSUME NEW p, NEW st, NEW f, NEW t, Retops(p, st, f, t)
    PROVE  /\ Listed(p, t) /\ Len(t) = Len(st) /\ t # <<>> /\ t[Len(st)] = f
           /\ \A k \in 0 .. (Len(st) - 1) :
                 /\ BoardTo(p, t, k) = BoardTo(p, st, k)
                 /\ Laid(p, st, k) => Laid(p, t, k)
<1>0. /\ Listed(p, st) /\ st \in Seq(Frame(p)) /\ st # <<>>
      /\ f \in Frame(p) /\ f.lesson = st[Len(st)].lesson /\ f.todo \subseteq st[Len(st)].todo
      /\ t = [st EXCEPT ![Len(st)] = f]
  BY DEF Retops, Listed
<1>2. /\ Len(st) \in Nat /\ Len(st) >= 1 /\ st[Len(st)] \in Frame(p)
      /\ t \in Seq(Frame(p)) /\ Len(t) = Len(st) /\ t[Len(st)] = f
      /\ t # <<>>
      /\ \A n \in 1 .. (Len(st) - 1) : t[n] = st[n] /\ n \in 1 .. Len(st)
  BY <1>0, Retopped
<1>3. \A n \in 1 .. Len(t) :
         /\ n \in 1 .. Len(st) /\ (n = Len(st) \/ n \in 1 .. (Len(st) - 1))
         /\ t[n].lesson = st[n].lesson /\ t[n].todo \subseteq st[n].todo
         /\ n - 1 \in 0 .. (Len(st) - 1)
  <2> TAKE n \in 1 .. Len(t)
  <2>1. /\ n \in 1 .. Len(st) /\ (n = Len(st) \/ n \in 1 .. (Len(st) - 1))
        /\ n - 1 \in 0 .. (Len(st) - 1)
    BY <1>2
  <2>2. CASE n = Len(st)
    BY <1>0, <1>2, <2>1, <2>2
  <2>3. CASE n \in 1 .. (Len(st) - 1)
    BY <1>2, <2>1, <2>3
  <2> QED BY <2>1, <2>2, <2>3
<1>4. \A k \in 0 .. (Len(st) - 1) : BoardTo(p, t, k) = BoardTo(p, st, k)
  <2> TAKE k \in 0 .. (Len(st) - 1)
  <2>1. k \in Nat /\ \A n \in 1 .. k : t[n] = st[n]
    BY <1>2
  <2> QED BY <2>1 DEF BoardTo
<1>5. Listed(p, t)
  <2>1. \A m, n \in 1 .. Len(t) : t[m].lesson = t[n].lesson => m = n
    BY <1>0, <1>3 DEF Listed
  <2>2. ASSUME NEW n \in 1 .. Len(t), NEW c \in t[n].todo
        PROVE  FreeAt(p, BoardTo(p, t, n - 1), p.demands[t[n].lesson[1]], c)
    BY <1>0, <1>3, <1>4, <2>2 DEF Listed
  <2> QED BY <1>2, <2>1, <2>2 DEF Listed
<1>6. ASSUME NEW k \in 0 .. (Len(st) - 1), Laid(p, st, k) PROVE Laid(p, t, k)
  <2> SUFFICES ASSUME NEW n \in 1 .. k
               PROVE  /\ t[n].at \in Hour
                      /\ Cell(p, t[n]) \notin BoardTo(p, t, n - 1)
                      /\ p.rooms = <<>> => t[n].room = Unmanaged
    BY DEF Laid
  <2>1. n - 1 \in 0 .. (Len(st) - 1) /\ t[n] = st[n]
    BY <1>2
  <2> QED BY <1>4, <1>6, <2>1 DEF Laid
<1> QED BY <1>2, <1>4, <1>5, <1>6

LEMMA PopKeeps ==
    ASSUME NEW p, NEW st, Listed(p, st), st # <<>>
    PROVE  LET t == SubSeq(st, 1, Len(st) - 1) IN
           /\ Listed(p, t) /\ Len(t) = Len(st) - 1 /\ Len(t) \in Nat
           /\ \A n \in 1 .. Len(t) : t[n] = st[n]
           /\ BoardTo(p, t, Len(t)) = BoardTo(p, st, Len(t))
           /\ Laid(p, st, Len(t)) => Laid(p, t, Len(t))
<1>0. st \in Seq(Frame(p))
  BY DEF Listed
<1>1. PICK t : t = SubSeq(st, 1, Len(st) - 1)
  OBVIOUS
<1>2. /\ Len(st) \in Nat /\ Len(st) >= 1
      /\ t \in Seq(Frame(p)) /\ Len(t) = Len(st) - 1
      /\ \A n \in 1 .. (Len(st) - 1) : t[n] = st[n] /\ n \in 1 .. Len(st)
  BY <1>0, <1>1, Popped
<1>3. Len(t) \in Nat /\ \A n \in 1 .. Len(t) : t[n] = st[n] /\ n \in 1 .. Len(st)
  BY <1>2
<1>4. \A k \in 0 .. Len(t) : BoardTo(p, t, k) = BoardTo(p, st, k)
  <2> TAKE k \in 0 .. Len(t)
  <2>1. k \in Nat /\ \A n \in 1 .. k : t[n] = st[n]
    BY <1>3
  <2> QED BY <2>1, BoardSame
<1>5. \A n \in 1 .. Len(t) : n - 1 \in 0 .. Len(t)
  BY <1>3
<1>6. Listed(p, t)
  <2>1. \A m, n \in 1 .. Len(t) : t[m].lesson = t[n].lesson => m = n
    BY <1>3 DEF Listed
  <2>2. ASSUME NEW n \in 1 .. Len(t), NEW c \in t[n].todo
        PROVE  FreeAt(p, BoardTo(p, t, n - 1), p.demands[t[n].lesson[1]], c)
    BY <1>3, <1>4, <1>5, <2>2 DEF Listed
  <2> QED BY <1>2, <2>1, <2>2 DEF Listed
<1>7. ASSUME Laid(p, st, Len(t)) PROVE Laid(p, t, Len(t))
  <2> SUFFICES ASSUME NEW n \in 1 .. Len(t)
               PROVE  /\ t[n].at \in Hour
                      /\ Cell(p, t[n]) \notin BoardTo(p, t, n - 1)
                      /\ p.rooms = <<>> => t[n].room = Unmanaged
    BY DEF Laid
  <2> QED BY <1>3, <1>4, <1>5, <1>7 DEF Laid
<1>8. Len(t) \in 0 .. Len(t)
  BY <1>3
<1> QED BY <1>1, <1>2, <1>3, <1>4, <1>6, <1>7, <1>8

LEMMA TryKeeps == ASSUME SearchInv, NEW c, TryHour(c) PROVE SearchInv'
<1>0. /\ phase = "try" /\ InSearch(problem, phase, mirror, stack) /\ c \in Top.todo
      /\ UNCHANGED problem
  BY DEF SearchInv, TryHour, Running, Aside
<1>1. ProblemOK(problem)
  BY <1>0, ProblemsOK DEF InSearch
<1>2. /\ stack \in Seq(Frame(problem)) /\ stack # <<>> /\ Len(stack) \in Nat /\ Len(stack) >= 1
      /\ Depth(phase, stack) = Len(stack) - 1 /\ Listed(problem, stack)
  <2>1. stack \in Seq(Frame(problem)) /\ stack # <<>> /\ Listed(problem, stack)
    BY <1>0 DEF InSearch, Listed
  <2>2. Len(stack) \in Nat \ {0}
    BY <2>1, EmptySeq
  <2> QED BY <1>0, <2>1, <2>2 DEF Depth
<1> DEFINE k == Len(stack) - 1
           B == BoardTo(problem, stack, k)
           i == Top.lesson[1]
           d == problem.demands[i]
           r == PickRoom(d, c)
<1>3. /\ B \subseteq Slot /\ IsFiniteSet(B) /\ mirror = MirrorOf(B) /\ Good(problem, B)
      /\ Laid(problem, stack, k)
  BY <1>0, <1>1, <1>2, DepthIs DEF InSearch
<1>4. /\ Top \in Frame(problem) /\ Len(stack) \in 1 .. Len(stack) /\ k + 1 = Len(stack)
      /\ k \in Nat /\ k \in 0 .. k
  BY <1>2, ElementOfSeq DEF Top
<1>5. /\ c \in Hour /\ i \in Demand(problem) /\ FreeAt(problem, B, d, c)
      /\ Top.lesson \in ExpandDemands(problem) /\ Top.todo \subseteq Hour
      /\ d.section \in Section /\ d.subject \in Subject /\ d.teacher \in Teacher
  <2>1. /\ Top.lesson \in ExpandDemands(problem) /\ Top.todo \subseteq Hour
    BY <1>4 DEF Frame
  <2>2. i \in Demand(problem)
    BY <1>1, <2>1, LessonsAre
  <2>3. FreeAt(problem, B, d, c)
    BY <1>0, <1>2, <1>4 DEF Listed, Top
  <2>4. d.section \in Section /\ d.subject \in Subject /\ d.teacher \in Teacher
    BY <1>1, <2>2 DEF ProblemOK
  <2> QED BY <1>0, <2>1, <2>2, <2>3, <2>4
<1>6. DemandOf(Top.lesson) = d
  BY DEF DemandOf
<1> HIDE DEF k, B, i, d
<1>7. CASE r = NoFit
  <2> DEFINE f == [Top EXCEPT !.todo = @ \ {c}]
  <2>1. f \in Frame(problem) /\ f.lesson = Top.lesson /\ f.todo \subseteq Top.todo
    BY <1>4 DEF Frame
  <2>2. stack' = [stack EXCEPT ![Len(stack)] = f] /\ UNCHANGED <<mirror, phase>>
    BY <1>6, <1>7 DEF TryHour, Retop
  <2>3. PICK t : t = [stack EXCEPT ![Len(stack)] = f]
    OBVIOUS
  <2> HIDE DEF f
  <2>4. /\ Listed(problem, t) /\ Len(t) = Len(stack) /\ t # <<>>
        /\ \A n \in 0 .. (Len(stack) - 1) :
              /\ BoardTo(problem, t, n) = BoardTo(problem, stack, n)
              /\ Laid(problem, stack, n) => Laid(problem, t, n)
    <3>1. Retops(problem, stack, f, t)
      BY <1>2, <2>1, <2>3 DEF Retops, Top
    <3> QED BY <3>1, RetopKeeps
  <2>5. Depth("try", t) = k /\ BoardTo(problem, t, k) = B /\ Laid(problem, t, k)
    BY <1>3, <1>4, <2>4 DEF Depth, k, B
  <2>6. InSearch(problem, "try", mirror, t)
    BY <1>0, <1>3, <2>4, <2>5 DEF InSearch
  <2> QED BY <1>0, <2>2, <2>3, <2>6 DEF SearchInv
<1>8. CASE r # NoFit
  <2> DEFINE f == [Top EXCEPT !.todo = @ \ {c}, !.at = c, !.room = r]
             x == Cell(problem, f)
  <2>0. /\ r \in Room \cup {Unmanaged}
        /\ problem.rooms = <<>> => r = Unmanaged
        /\ r # Unmanaged =>
              /\ \A l \in B : l.at = c => l.room # r
              /\ \E n \in DOMAIN problem.rooms :
                    problem.rooms[n].id = r /\ RoomFits(problem, d, problem.rooms[n])
    BY <1>1, <1>3, <1>8, PickedRoom
  <2> HIDE DEF r
  <2>1. /\ f \in Frame(problem) /\ f.lesson = Top.lesson /\ f.todo \subseteq Top.todo
        /\ f.at = c /\ f.room = r
    BY <1>4, <1>5, <2>0 DEF Frame
  <2>2. /\ stack' = [stack EXCEPT ![Len(stack)] = f] /\ phase' = "select"
        /\ DoPlace(d, c, r)
    BY <1>6, <1>8 DEF TryHour, Retop, Goes, r
  <2>3. PICK t : t = [stack EXCEPT ![Len(stack)] = f]
    OBVIOUS
  <2>4. x \in Slot /\ Fills(problem, i, x) /\ x.at = c /\ x.room = r
    <3>1. f.lesson[1] = i
      BY <2>1 DEF i
    <3> HIDE DEF f
    <3> QED BY <1>1, <1>5, <2>1, <3>1, CellIs
  <2> HIDE DEF f
  <2>5. /\ Listed(problem, t) /\ Len(t) = Len(stack) /\ t # <<>> /\ t[Len(stack)] = f
        /\ \A n \in 0 .. (Len(stack) - 1) :
              /\ BoardTo(problem, t, n) = BoardTo(problem, stack, n)
              /\ Laid(problem, stack, n) => Laid(problem, t, n)
    <3>1. Retops(problem, stack, f, t)
      BY <1>2, <2>1, <2>3 DEF Retops, Top
    <3> QED BY <3>1, RetopKeeps
  <2>6. BoardTo(problem, t, k) = B /\ Laid(problem, t, k)
    BY <1>3, <1>4, <2>5 DEF k, B
  <2>7. BoardTo(problem, t, Len(t)) = B \cup {x}
    <3>1. BoardTo(problem, t, k + 1) = BoardTo(problem, t, k) \cup {Cell(problem, t[k + 1])}
      BY <1>4, BoardSteps
    <3> QED BY <1>4, <2>5, <2>6, <3>1
  <2> HIDE DEF x
  <2>8. x \notin B /\ Good(problem, B \cup {x})
    <3>1. FreeAt(problem, B, problem.demands[i], x.at)
      BY <1>5, <2>4 DEF d
    <3>2. x.room # Unmanaged =>
              /\ \A l \in B : l.at = x.at => l.room # x.room
              /\ \E n \in DOMAIN problem.rooms : problem.rooms[n].id = x.room
                              /\ RoomFits(problem, problem.demands[i], problem.rooms[n])
      BY <2>0, <2>4 DEF d
    <3> QED BY <1>1, <1>3, <1>5, <2>4, <3>1, <3>2, FreeIsGood
  <2>9. mirror' = MirrorOf(B \cup {x})
    <3>2. x.section = d.section /\ x.subject = d.subject /\ x.teacher = d.teacher
      BY <2>4 DEF Fills, d
    <3>1. MirrorOf(B \cup {x}) = WithLesson(mirror, x)
      BY <1>3, <1>5, <2>4, <2>8, <3>2, MirrorAdds
    <3>3. mirror' = WithLesson(mirror, x)
      BY <2>2, <2>4, <3>2 DEF DoPlace, WithLesson
    <3> QED BY <3>1, <3>3
  <2>10. Laid(problem, t, Len(t))
    <3> SUFFICES ASSUME NEW n \in 1 .. Len(t)
                 PROVE  /\ t[n].at \in Hour
                        /\ Cell(problem, t[n]) \notin BoardTo(problem, t, n - 1)
                        /\ problem.rooms = <<>> => t[n].room = Unmanaged
      BY DEF Laid
    <3>1. n \in 1 .. k \/ (n = Len(stack) /\ n - 1 = k)
      BY <1>4, <2>5
    <3>2. CASE n \in 1 .. k
      BY <2>6, <3>2 DEF Laid
    <3>3. CASE n = Len(stack) /\ n - 1 = k
      <4>1. t[n] = f /\ Cell(problem, t[n]) = x
        BY <2>5, <3>3 DEF x
      <4> QED BY <1>5, <2>0, <2>1, <2>6, <2>8, <3>3, <4>1
    <3> QED BY <3>1, <3>2, <3>3
  <2>11. Depth("select", t) = Len(t)
    BY DEF Depth
  <2>12. InSearch(problem, "select", mirror', t)
    BY <1>0, <2>5, <2>7, <2>8, <2>9, <2>10, <2>11 DEF InSearch
  <2> QED BY <1>0, <2>2, <2>3, <2>12 DEF SearchInv, Running
<1> QED BY <1>7, <1>8

\* search returns: the lesson being tried is chosen no more.
LEMMA ReturnKeeps ==
    ASSUME SearchInv, NothingLeft \/ SliceIsOver
    PROVE  SearchInv'
<1>0. /\ phase = "try" /\ InSearch(problem, phase, mirror, stack)
      /\ UNCHANGED <<mirror, problem>> /\ phase' = "back" /\ stack' = Pop
  BY DEF SearchInv, NothingLeft, SliceIsOver, Running, Aside, Goes
<1>1. Listed(problem, stack) /\ stack # <<>>
  BY <1>0 DEF InSearch
<1>2. PICK t : t = SubSeq(stack, 1, Len(stack) - 1)
  OBVIOUS
<1>3. /\ Listed(problem, t) /\ Len(t) = Len(stack) - 1
      /\ BoardTo(problem, t, Len(t)) = BoardTo(problem, stack, Len(t))
      /\ Laid(problem, stack, Len(t)) => Laid(problem, t, Len(t))
  BY <1>1, <1>2, PopKeeps
<1>4. Depth("try", stack) = Len(t) /\ Depth("back", t) = Len(t)
  BY <1>3 DEF Depth
<1>5. InSearch(problem, "back", mirror, t)
  BY <1>0, <1>3, <1>4 DEF InSearch
<1> QED BY <1>0, <1>2, <1>5 DEF SearchInv, Running, Pop

LEMMA BacktrackKeeps == ASSUME SearchInv, Backtrack PROVE SearchInv'
<1>0. /\ phase = "back" /\ InSearch(problem, phase, mirror, stack) /\ stack # <<>>
      /\ UNCHANGED problem /\ phase' = "try"
      /\ UndoPlace(DemandOf(Top.lesson), Top)
  BY DEF SearchInv, Backtrack, Running, Aside, Goes
<1>1. ProblemOK(problem)
  BY <1>0, ProblemsOK DEF InSearch
<1>2. /\ stack \in Seq(Frame(problem)) /\ Len(stack) \in Nat /\ Len(stack) >= 1
      /\ Depth(phase, stack) = Len(stack) /\ Listed(problem, stack)
  <2>1. stack \in Seq(Frame(problem)) /\ Listed(problem, stack)
    BY <1>0 DEF InSearch, Listed
  <2>2. Len(stack) \in Nat \ {0}
    BY <1>0, <2>1, EmptySeq
  <2> QED BY <1>0, <2>1, <2>2 DEF Depth
<1> DEFINE k == Len(stack) - 1
           B == BoardTo(problem, stack, k)
           C == BoardTo(problem, stack, Len(stack))
           x == Cell(problem, Top)
           f == [Top EXCEPT !.at = NoHour, !.room = Unmanaged]
<1>3. /\ C \subseteq Slot /\ IsFiniteSet(C) /\ mirror = MirrorOf(C) /\ Good(problem, C)
      /\ Laid(problem, stack, Len(stack))
  BY <1>0, <1>1, <1>2, DepthIs DEF InSearch
<1>4. /\ Top \in Frame(problem) /\ Len(stack) \in 1 .. Len(stack) /\ k + 1 = Len(stack)
      /\ k \in Nat /\ k \in 0 .. k
  BY <1>2, ElementOfSeq DEF Top
<1>5. C = B \cup {x} /\ x \notin B
  <2>1. BoardTo(problem, stack, k + 1) = BoardTo(problem, stack, k) \cup {Cell(problem, stack[k + 1])}
    <3>1. PICK n \in Nat : n = k
      BY <1>4
    <3> QED BY <3>1, BoardSteps
  <2>2. x \notin B
    BY <1>3, <1>4 DEF Laid, Top
  <2> QED BY <1>4, <2>1, <2>2 DEF Top
<1>6. /\ f \in Frame(problem) /\ f.lesson = Top.lesson /\ f.todo \subseteq Top.todo
  BY <1>4 DEF Frame
<1>7. mirror' = MirrorOf(B)
  <2>0. x.teacher \in Teacher
    <3>1. Top.lesson[1] \in Demand(problem)
      BY <1>1, <1>4, LessonsAre DEF Frame
    <3>2. x.teacher = problem.demands[Top.lesson[1]].teacher
      BY DEF Cell, Put
    <3> HIDE DEF x
    <3> QED BY <1>1, <3>1, <3>2 DEF ProblemOK
  <2>1. MirrorOf(C \ {x}) = WithoutLesson(MirrorOf(C), x)
    BY <1>3, <1>5, <2>0, MirrorDrops DEF Good
  <2>2. C \ {x} = B
    BY <1>5
  <2>3. mirror' = WithoutLesson(mirror, x)
    BY <1>0 DEF UndoPlace, WithoutLesson, Cell, Put, DemandOf
  <2> QED BY <1>3, <2>1, <2>2, <2>3
<1>8. Good(problem, B)
  BY <1>1, <1>3, <1>5, GoodBelow
<1>9. PICK t : t = [stack EXCEPT ![Len(stack)] = f]
  OBVIOUS
<1>10. stack' = t
  BY <1>9 DEF Backtrack, Retop
<1> HIDE DEF f
<1>11. /\ Listed(problem, t) /\ Len(t) = Len(stack) /\ t # <<>>
       /\ \A n \in 0 .. (Len(stack) - 1) :
             /\ BoardTo(problem, t, n) = BoardTo(problem, stack, n)
             /\ Laid(problem, stack, n) => Laid(problem, t, n)
  <2>1. Retops(problem, stack, f, t)
    BY <1>0, <1>2, <1>6, <1>9 DEF Retops, Top
  <2> QED BY <2>1, RetopKeeps
<1>12. Laid(problem, stack, k)
  BY <1>3, <1>4 DEF Laid
<1>13. Depth("try", t) = k /\ BoardTo(problem, t, k) = B /\ Laid(problem, t, k)
  BY <1>4, <1>11, <1>12 DEF Depth
<1> HIDE DEF B
<1>14. InSearch(problem, "try", mirror', t)
  BY <1>0, <1>7, <1>8, <1>11, <1>13 DEF InSearch
<1> QED BY <1>0, <1>10, <1>14 DEF SearchInv, Running

LEMMA RestartKeeps == ASSUME SearchInv, Restarts PROVE SearchInv'
<1>0. /\ phase = "back" /\ InSearch(problem, phase, mirror, stack) /\ stack = <<>>
      /\ UNCHANGED <<problem, stack>>
  BY DEF SearchInv, Restarts, Running, Aside
<1>1. CASE attempt < MaxRestarts
  <2>1. phase' = "select" /\ mirror' = MirrorOf(problem.locked)
    BY <1>1 DEF Restarts, Goes, ResetDynamic
  <2>2. Depth("select", stack) = Depth("back", stack) /\ Len(stack) = 0
    BY <1>0, EmptySeq DEF Depth
  <2>3. BoardTo(problem, stack, Depth("select", stack)) = problem.locked
    BY <2>2, BoardEmpty DEF Depth
  <2>4. InSearch(problem, "select", mirror', stack)
    BY <1>0, <2>1, <2>2, <2>3 DEF InSearch
  <2> QED BY <1>0, <2>1, <2>4 DEF SearchInv, Running
<1>2. CASE ~(attempt < MaxRestarts)
  <2>1. phase' = "infeasible"
    BY <1>2 DEF Restarts, Goes
  <2> QED BY <1>0, <2>1 DEF SearchInv, Running, InSearch
<1> QED BY <1>1, <1>2

-----------------------------------------------------------------------------
(* A board the search completes is a legal one *)

\* A demand has no more locks than lessons: what is left is the rest.
LEMMA LocksWithin ==
    ASSUME NEW p, ProblemOK(p), LocksFit(p), NEW i \in Demand(p)
    PROVE  /\ Left(p, i) \in Nat /\ p.demands[i].perWeek \in Nat
           /\ IsFiniteSet(Held(p.demands[i], p.locked))
           /\ Cardinality(Held(p.demands[i], p.locked)) \in Nat
           /\ Cardinality(Held(p.demands[i], p.locked)) + Left(p, i) = p.demands[i].perWeek
<1> DEFINE locks == Held(p.demands[i], p.locked)
<1>1. IsFiniteSet(locks) /\ p.demands[i].perWeek \in Nat
  BY FS_Subset DEF ProblemOK, Held
<1>2. Cardinality(locks) \in Nat
  BY <1>1, FS_CardinalityType
<1>3. Cardinality(locks) <= p.demands[i].perWeek
  <2>1. CASE locks = {}
    BY <1>1, <2>1, FS_EmptySet
  <2>2. CASE locks # {}
    <3>1. PICK k \in p.locked : Wants(p.demands[i], k)
      BY <2>2 DEF Held
    <3>2. PICK j \in Demand(p) : /\ Wants(p.demands[j], k)
                                 /\ Cardinality(Held(p.demands[j], p.locked)) <= p.demands[j].perWeek
      BY <3>1 DEF LocksFit
    <3>3. Wants(p.demands[i], p.demands[j])
      BY <3>1, <3>2 DEF Wants
    <3>4. i = j
      BY <3>3 DEF ProblemOK
    <3> QED BY <3>2, <3>4
  <2> QED BY <2>1, <2>2
<1>4. Left(p, i) = p.demands[i].perWeek - Cardinality(locks)
  BY <1>1, <1>2, <1>3 DEF Left
<1> HIDE DEF locks
<1>5. Left(p, i) \in Nat /\ Cardinality(locks) + Left(p, i) = p.demands[i].perWeek
  BY <1>1, <1>2, <1>3, <1>4
<1> QED BY <1>1, <1>2, <1>5 DEF locks

LEMMA LeftCount ==
    ASSUME NEW p, ProblemOK(p), NEW i \in Demand(p)
    PROVE  /\ IsFiniteSet({i} \X (1 .. Left(p, i)))
           /\ Cardinality({i} \X (1 .. Left(p, i))) = Left(p, i)
<1>1. PICK n \in Nat : n = Left(p, i)
  BY LeftIsNat
<1>2. IsFiniteSet(1 .. n) /\ Cardinality(1 .. n) = n
  BY FS_Interval
<1>3. IsFiniteSet({i}) /\ Cardinality({i}) = 1
  BY FS_Singleton
<1>4. /\ IsFiniteSet({i} \X (1 .. n))
      /\ Cardinality({i} \X (1 .. n)) = Cardinality({i}) * Cardinality(1 .. n)
  BY <1>2, <1>3, FS_Product
<1>5. Cardinality({i} \X (1 .. n)) = 1 * n
  BY <1>2, <1>3, <1>4
<1> QED BY <1>1, <1>4, <1>5

LEMMA CellsApart ==
    ASSUME NEW p, NEW st, NEW k \in Nat, Laid(p, st, k)
    PROVE  /\ \A n \in 1 .. k : Cell(p, st[n]) \notin p.locked
           /\ \A m, n \in 1 .. k : Cell(p, st[m]) = Cell(p, st[n]) => m = n
<1>1. \A n \in 1 .. k : Cell(p, st[n]) \notin p.locked
  BY DEF Laid, BoardTo
<1>2. ASSUME NEW m \in 1 .. k, NEW n \in 1 .. k, m < n, Cell(p, st[m]) = Cell(p, st[n])
      PROVE  FALSE
  <2>1. m \in 1 .. (n - 1)
    BY <1>2
  <2>2. Cell(p, st[m]) \in BoardTo(p, st, n - 1)
    BY <2>1 DEF BoardTo
  <2> QED BY <1>2, <2>2 DEF Laid
<1>3. \A m, n \in 1 .. k : m < n \/ n < m \/ m = n
  OBVIOUS
<1> QED BY <1>1, <1>2, <1>3

\* With every lesson placed, every demand has what it asks for.
LEMMA CompleteIsMet ==
    ASSUME NEW p, ProblemOK(p), LocksFit(p), NEW m, NEW st, InSearch(p, "check", m, st)
    PROVE  DemandMet(p, BoardTo(p, st, Len(st)))
<1> DEFINE L == Len(st)
           B == BoardTo(p, st, L)
<1>0. /\ st \in Seq(Frame(p)) /\ L \in Nat /\ Depth("check", st) = L
      /\ \A n \in 1 .. L : st[n].at \in Hour
      /\ B \subseteq Slot /\ IsFiniteSet(B) /\ Laid(p, st, L)
  <2>1. Depth("check", st) = L
    BY DEF Depth
  <2> QED BY <2>1, DepthIs DEF InSearch
<1>1. /\ \A n \in 1 .. L : Cell(p, st[n]) \notin p.locked
      /\ \A a, n \in 1 .. L : Cell(p, st[a]) = Cell(p, st[n]) => a = n
  BY <1>0, CellsApart
<1>2. /\ \A j \in ExpandDemands(p) : \E n \in 1 .. L : st[n].lesson = j
      /\ \A a, n \in 1 .. L : st[a].lesson = st[n].lesson => a = n
  BY DEF InSearch, Listed
<1>3. \A n \in 1 .. L : st[n] \in Frame(p) /\ st[n].lesson \in ExpandDemands(p)
  <2> TAKE n \in 1 .. L
  <2>1. st[n] \in Frame(p)
    BY <1>0, ElementOfSeq
  <2> QED BY <2>1 DEF Frame
<1>4. \A n \in 1 .. L : st[n].lesson[1] \in Demand(p) /\ Fills(p, st[n].lesson[1], Cell(p, st[n]))
  BY <1>0, <1>3, CellIs
<1> SUFFICES ASSUME NEW i \in Demand(p)
             PROVE  Cardinality(Held(p.demands[i], B)) = p.demands[i].perWeek
  BY DEF DemandMet
<1> DEFINE J == {i} \X (1 .. Left(p, i))
           E == {l \in Held(p.demands[i], B) : l \notin p.locked}
           pos(j) == CHOOSE n \in 1 .. L : st[n].lesson = j
           g == [j \in J |-> Cell(p, st[pos(j)])]
<1>5. J \subseteq ExpandDemands(p) /\ \A j \in J : j[1] = i
  BY LessonsAre
<1>6. \A j \in J : pos(j) \in 1 .. L /\ st[pos(j)].lesson = j
  BY <1>2, <1>5
<1>7. \A n \in 1 .. L : pos(st[n].lesson) = n
  BY <1>2
<1> HIDE DEF pos
<1>8. \A l \in E : \E n \in 1 .. L : l = Cell(p, st[n]) /\ st[n].lesson \in J
  <2> TAKE l \in E
  <2>1. PICK n \in 1 .. L : l = Cell(p, st[n])
    BY DEF BoardTo, Held
  <2>2. Wants(p.demands[i], l)
    BY DEF Held
  <2>3. Wants(p.demands[i], p.demands[st[n].lesson[1]])
    BY <1>4, <2>1, <2>2 DEF Wants, Fills
  <2>4. st[n].lesson[1] = i
    BY <1>4, <2>3 DEF ProblemOK
  <2>5. st[n].lesson \in J
    BY <1>3, <2>4, LessonsAre
  <2> QED BY <2>1, <2>5
<1>9. \A j \in J : g[j] \in E
  <2> TAKE j \in J
  <2>1. g[j] = Cell(p, st[pos(j)]) /\ pos(j) \in 1 .. L /\ st[pos(j)].lesson[1] = i
    BY <1>5, <1>6
  <2>2. g[j] \in B
    BY <2>1 DEF BoardTo
  <2>3. Wants(p.demands[i], g[j])
    BY <1>4, <2>1 DEF Wants, Fills
  <2> HIDE DEF g
  <2> QED BY <1>1, <2>1, <2>2, <2>3 DEF Held
<1>10. g \in Injection(J, E)
  <2>1. ASSUME NEW a \in J, NEW b \in J, g[a] = g[b] PROVE a = b
    <3>1. pos(a) = pos(b)
      BY <1>1, <1>6, <2>1
    <3> QED BY <1>6, <3>1
  <2> QED BY <1>9, <2>1 DEF Injection, IsInjective
<1>11. g \in Surjection(J, E)
  <2>1. \A l \in E : \E j \in J : g[j] = l
    <3> TAKE l \in E
    <3>1. PICK n \in 1 .. L : l = Cell(p, st[n]) /\ st[n].lesson \in J
      BY <1>8
    <3>2. g[st[n].lesson] = l
      BY <1>7, <3>1
    <3> QED BY <3>1, <3>2
  <2> QED BY <1>9, <2>1 DEF Surjection
<1>12. IsFiniteSet(E)
  BY <1>0, FS_Subset DEF Held
<1>13. Cardinality(E) = Left(p, i)
  <2> HIDE DEF E, g, J
  <2>1. Cardinality(J) = Cardinality(E)
    BY <1>10, <1>11, <1>12, FS_Injection
  <2> QED BY <2>1, LeftCount DEF J
<1>14. Held(p.demands[i], B) = Held(p.demands[i], p.locked) \cup E
       /\ Held(p.demands[i], p.locked) \cap E = {}
  BY DEF Held, BoardTo
<1> HIDE DEF E, B
<1>15. /\ IsFiniteSet(Held(p.demands[i], p.locked))
       /\ Cardinality(Held(p.demands[i], p.locked)) + Left(p, i) = p.demands[i].perWeek
  BY LocksWithin
<1>16. Cardinality(Held(p.demands[i], B)) = Cardinality(Held(p.demands[i], p.locked)) + Cardinality(E)
  BY <1>12, <1>14, <1>15, ApartUnion
<1> QED BY <1>13, <1>15, <1>16

LEMMA CompleteIsLegal ==
    ASSUME NEW p, ProblemOK(p), LocksFit(p), NEW m, NEW st, InSearch(p, "check", m, st)
    PROVE  CheckFull(p, BoardTo(p, st, Len(st)))
<1> DEFINE L == Len(st)
           B == BoardTo(p, st, L)
<1>0. /\ st \in Seq(Frame(p)) /\ L \in Nat
      /\ \A n \in 1 .. L : st[n].at \in Hour
      /\ B \subseteq Slot /\ IsFiniteSet(B) /\ Good(p, B)
      /\ p.locked \subseteq B
  <2>1. Depth("check", st) = L
    BY DEF Depth
  <2> QED BY <2>1, DepthIs DEF InSearch
<1>1. DemandMet(p, B)
  BY CompleteIsMet
<1>2. Fitted(p, B)
  <2>1. ASSUME NEW l \in p.locked
        PROVE  \E i \in Demand(p) : Wants(p.demands[i], l) /\ p.demands[i].teacher = l.teacher
    BY DEF LocksFit
  <2>2. ASSUME NEW n \in 1 .. L
        PROVE  \E i \in Demand(p) : /\ Wants(p.demands[i], Cell(p, st[n]))
                                    /\ p.demands[i].teacher = Cell(p, st[n]).teacher
    <3>1. st[n] \in Frame(p)
      BY <1>0, ElementOfSeq
    <3>2. st[n].lesson[1] \in Demand(p) /\ Fills(p, st[n].lesson[1], Cell(p, st[n]))
      BY <1>0, <3>1, CellIs
    <3> QED BY <3>2 DEF Fills, Wants
  <2> QED BY <2>1, <2>2 DEF Fitted, BoardTo
<1> HIDE DEF B
<1>3. ASSUME NEW t \in DOMAIN p.teacher, p.teacher[t].maxPerWeek > 0
      PROVE  Cardinality(Taught(t, B)) <= p.teacher[t].maxPerWeek
  <2>1. Load(p, TaughtBy(p, t)) = Cardinality(Taught(t, B))
    BY <1>0, <1>1, <1>2, LoadTaught
  <2>2. Load(p, TaughtBy(p, t)) <= p.teacher[t].maxPerWeek
    BY <1>3 DEF InSearch, StaticFeasibility, TaughtBy
  <2> QED BY <2>1, <2>2
<1>4. TeachersKept(p, B)
  BY <1>0, <1>3 DEF Good, DaysKept, TeachersKept
<1>5. LocksKept(p, B)
  BY <1>0 DEF LocksKept
<1> QED BY <1>0, <1>1, <1>4, <1>5 DEF CheckFull, Lawful, Good, B

LEMMA CheckKeeps == ASSUME SearchInv, CheckResult PROVE SearchInv'
<1>0. /\ phase = "check" /\ InSearch(problem, "check", mirror, stack) /\ UNCHANGED problem
  BY DEF SearchInv, CheckResult, Running, Aside
<1>1. ProblemOK(problem) /\ stack \in Seq(Frame(problem))
  BY <1>0, ProblemsOK DEF InSearch, Listed
<1>2. Board = BoardTo(problem, stack, Len(stack))
  BY <1>1, BoardIs
<1>3. CASE CheckFull(problem, Board)
  <2>1. phase' = "solved"
    BY <1>3 DEF CheckResult, Goes
  <2> QED BY <2>1 DEF SearchInv, Running
<1>4. CASE ~CheckFull(problem, Board)
  <2>1. phase' = "refused"
    BY <1>4 DEF CheckResult, Goes
  <2>2. ~LocksFit(problem)
    BY <1>0, <1>1, <1>2, <1>4, CompleteIsLegal
  <2> QED BY <1>0, <2>1, <2>2 DEF SearchInv, Running
<1> QED BY <1>3, <1>4

LEMMA InitSearch == EngineInit => SearchInv
BY DEF EngineInit, Fresh, ResetDynamic, SearchInv, Running, NoProblem

LEMMA NextSearch == SearchInv /\ [EngineNext]_engineVars => SearchInv'
<1> SUFFICES ASSUME SearchInv, [EngineNext]_engineVars PROVE SearchInv'
  OBVIOUS
<1>1. CASE Solve
  BY <1>1, StartKeeps, SelectKeeps, ReturnKeeps, BacktrackKeeps, RestartKeeps, CheckKeeps,
     TryKeeps DEF Solve
<1>2. CASE SuggestSubstitutions \/ UNCHANGED engineVars
  <2>1. UNCHANGED <<problem, phase, mirror, stack>>
    BY <1>2 DEF SuggestSubstitutions, engineVars
  <2> QED BY <2>1 DEF SearchInv
<1> QED BY <1>1, <1>2 DEF EngineNext

-----------------------------------------------------------------------------
(* A legal board is ahead of the search until it is given up *)

Legal(p, hours) == hours \in [ExpandDemands(p) -> Hour] /\ CheckFull(p, BoardOf(p, hours))

\* The first k frames are as on the legal board.
Agree(st, hours, k) == \A n \in 1 .. k : st[n].at = hours[st[n].lesson]

\* They are up to a frame that has the board's next hour left to try.
Ahead(st, hours) ==
    \E n \in 1 .. Len(st) : Agree(st, hours, n - 1) /\ hours[st[n].lesson] \in st[n].todo

Hope(ph, st, hours) ==
    /\ ph # "infeasible"
    /\ ph = "select" => Ahead(st, hours) \/ Agree(st, hours, Len(st))
    /\ ph \in {"try", "back"} => Ahead(st, hours)
Hopeful(p, ph, st) == \A hours : Legal(p, hours) => Hope(ph, st, hours)

\* Locks that fit, rooms left alone.
Promising(p) == LocksFit(p) /\ p.rooms = <<>>

HopeInv ==
    /\ gaveUp \in BOOLEAN
    /\ ~gaveUp /\ Promising(problem) => Hopeful(problem, phase, stack)

\* The lesson a legal board has for <<i, n>>.
Spot(p, hours, j) == Put([at |-> hours[j], room |-> Unmanaged], p.demands[j[1]])

LEMMA SpotIs ==
    ASSUME NEW p, ProblemOK(p), NEW hours \in [ExpandDemands(p) -> Hour], NEW j \in ExpandDemands(p)
    PROVE  /\ Spot(p, hours, j) \in Slot /\ j[1] \in Demand(p) /\ Fills(p, j[1], Spot(p, hours, j))
           /\ Spot(p, hours, j).at = hours[j]
           /\ Spot(p, hours, j) \in BoardOf(p, hours)
<1>1. j[1] \in Demand(p) /\ hours[j] \in Hour
  BY LessonsAre
<1>2. Spot(p, hours, j) \in BoardOf(p, hours)
  BY DEF BoardOf, Spot
<1> QED BY <1>1, <1>2 DEF Spot, Put, Slot, Fills, ProblemOK

LEMMA LegalBoardIs ==
    ASSUME NEW p, ProblemOK(p), NEW hours \in [ExpandDemands(p) -> Hour]
    PROVE  /\ BoardOf(p, hours) = p.locked \cup {Spot(p, hours, j) : j \in ExpandDemands(p)}
           /\ BoardOf(p, hours) \subseteq Slot /\ IsFiniteSet(BoardOf(p, hours))
           /\ LocksFit(p) => Fitted(p, BoardOf(p, hours))
<1> DEFINE E == {Spot(p, hours, j) : j \in ExpandDemands(p)}
           F == [j \in ExpandDemands(p) |-> Spot(p, hours, j)]
<1>1. BoardOf(p, hours) = p.locked \cup E
  BY DEF BoardOf, Spot
<1>2. E \subseteq Slot
  BY SpotIs
<1>3. IsFiniteSet(E)
  <2>1. F \in Surjection(ExpandDemands(p), E)
    BY DEF Surjection
  <2>2. IsFiniteSet(ExpandDemands(p))
    BY LessonsAre
  <2> HIDE DEF E, F
  <2> QED BY <2>1, <2>2, FS_Surjection
<1>4. IsFiniteSet(p.locked) /\ p.locked \subseteq Slot
  BY DEF ProblemOK
<1>5. ASSUME LocksFit(p) PROVE Fitted(p, p.locked \cup E)
  <2>1. ASSUME NEW l \in p.locked
        PROVE  \E i \in Demand(p) : Wants(p.demands[i], l) /\ p.demands[i].teacher = l.teacher
    BY <1>5 DEF LocksFit
  <2>2. ASSUME NEW l \in E
        PROVE  \E i \in Demand(p) : Wants(p.demands[i], l) /\ p.demands[i].teacher = l.teacher
    <3>1. PICK j \in ExpandDemands(p) : l = Spot(p, hours, j)
      OBVIOUS
    <3>2. j[1] \in Demand(p) /\ Fills(p, j[1], l)
      BY <3>1, SpotIs
    <3> QED BY <3>2 DEF Fills, Wants
  <2> QED BY <2>1, <2>2 DEF Fitted
<1>6. IsFiniteSet(p.locked \cup E)
  <2> HIDE DEF E
  <2> QED BY <1>3, <1>4, FS_Union
<1> HIDE DEF E
<1> QED BY <1>1, <1>2, <1>4, <1>5, <1>6 DEF E

\* Every lesson of a legal board is one of its own: two in one place would not
\* make up the number asked for.
LEMMA SpotsApart ==
    ASSUME NEW p, ProblemOK(p), LocksFit(p), NEW hours, Legal(p, hours)
    PROVE  /\ \A j \in ExpandDemands(p) : Spot(p, hours, j) \notin p.locked
           /\ \A j, k \in ExpandDemands(p) : Spot(p, hours, j) = Spot(p, hours, k) => j = k
<1>0. hours \in [ExpandDemands(p) -> Hour] /\ DemandMet(p, BoardOf(p, hours))
  BY DEF Legal, CheckFull
<1> DEFINE B == BoardOf(p, hours)
<1>1. ASSUME NEW i \in Demand(p)
      PROVE  LET J == {i} \X (1 .. Left(p, i)) IN
             /\ \A j \in J : Spot(p, hours, j) \notin p.locked
             /\ \A j, k \in J : Spot(p, hours, j) = Spot(p, hours, k) => j = k
  <2> DEFINE J == {i} \X (1 .. Left(p, i))
             E == {l \in Held(p.demands[i], B) : l \notin p.locked}
             K == {j \in J : Spot(p, hours, j) \notin p.locked}
             g == [j \in K |-> Spot(p, hours, j)]
  <2>1. J \subseteq ExpandDemands(p) /\ \A j \in J : j[1] = i
    BY LessonsAre
  <2>2. IsFiniteSet(J) /\ Cardinality(J) = Left(p, i)
    BY LeftCount
  <2>3. \A j \in K : g[j] \in E
    <3> TAKE j \in K
    <3>1. g[j] = Spot(p, hours, j) /\ j \in ExpandDemands(p) /\ j[1] = i
      BY <2>1
    <3>2. g[j] \in B /\ Fills(p, i, g[j])
      BY <1>0, <3>1, SpotIs
    <3> QED BY <3>2 DEF Held, Wants, Fills
  <2>4. \A l \in E : \E j \in K : g[j] = l
    <3> TAKE l \in E
    <3>1. PICK j \in ExpandDemands(p) : l = Spot(p, hours, j)
      BY <1>0, LegalBoardIs DEF Held
    <3>2. j[1] \in Demand(p) /\ Fills(p, j[1], l)
      BY <1>0, <3>1, SpotIs
    <3>3. Wants(p.demands[i], p.demands[j[1]])
      BY <3>2 DEF Wants, Fills, Held
    <3>4. j[1] = i
      BY <3>2, <3>3 DEF ProblemOK
    <3>5. j \in J
      BY <3>4, LessonsAre
    <3> QED BY <3>1, <3>5
  <2>5. g \in Surjection(K, E)
    BY <2>3, <2>4 DEF Surjection
  <2>6. IsFiniteSet(K) /\ Cardinality(K) <= Cardinality(J) /\ (Cardinality(J) = Cardinality(K) => J = K)
    <3>1. K \in SUBSET J
      OBVIOUS
    <3> HIDE DEF J, K
    <3> QED BY <2>2, <3>1, FS_Subset
  <2>7. /\ IsFiniteSet(E) /\ Cardinality(E) <= Cardinality(K)
        /\ Cardinality(E) = Cardinality(K) => g \in Injection(K, E)
    <3> HIDE DEF E, K, g
    <3> QED BY <2>5, <2>6, FS_Surjection
  <2>8. Cardinality(E) = Left(p, i)
    <3>1. /\ IsFiniteSet(Held(p.demands[i], p.locked))
          /\ Cardinality(Held(p.demands[i], p.locked)) \in Nat /\ Left(p, i) \in Nat
          /\ Cardinality(Held(p.demands[i], p.locked)) + Left(p, i) = p.demands[i].perWeek
      BY LocksWithin
    <3>2. /\ Held(p.demands[i], B) = Held(p.demands[i], p.locked) \cup E
          /\ Held(p.demands[i], p.locked) \cap E = {}
      BY <1>0, LegalBoardIs DEF Held
    <3>3. Cardinality(Held(p.demands[i], B)) = p.demands[i].perWeek
      BY <1>0 DEF DemandMet
    <3> HIDE DEF E, B
    <3>4. /\ Cardinality(Held(p.demands[i], B)) =
                Cardinality(Held(p.demands[i], p.locked)) + Cardinality(E)
          /\ Cardinality(E) \in Nat
      BY <2>7, <3>1, <3>2, ApartUnion
    <3> QED BY <3>1, <3>3, <3>4
  <2>9. Cardinality(K) \in Nat /\ Cardinality(J) \in Nat /\ Cardinality(E) \in Nat
    BY <2>2, <2>6, <2>7, FS_CardinalityType
  <2>10. J = K /\ g \in Injection(K, E)
    <3> HIDE DEF J, K, E, g
    <3> QED BY <2>2, <2>6, <2>7, <2>8, <2>9
  <2>11. \A j, k \in J : Spot(p, hours, j) = Spot(p, hours, k) => j = k
    BY <2>10 DEF Injection, IsInjective
  <2> QED BY <2>10, <2>11
<1>2. \A j \in ExpandDemands(p) : j[1] \in Demand(p) /\ j \in {j[1]} \X (1 .. Left(p, j[1]))
  BY LessonsAre
<1>3. ASSUME NEW j \in ExpandDemands(p), NEW k \in ExpandDemands(p),
             Spot(p, hours, j) = Spot(p, hours, k)
      PROVE  j = k
  <2>1. Fills(p, j[1], Spot(p, hours, j)) /\ Fills(p, k[1], Spot(p, hours, j))
    BY <1>0, <1>3, SpotIs
  <2>2. Wants(p.demands[j[1]], p.demands[k[1]])
    BY <2>1 DEF Wants, Fills
  <2>3. j[1] = k[1]
    BY <1>2, <2>2 DEF ProblemOK
  <2> QED BY <1>1, <1>2, <1>3, <2>3
<1> QED BY <1>1, <1>2, <1>3

LEMMA LegalIsStatic ==
    ASSUME NEW p, ProblemOK(p), Promising(p), NEW hours, Legal(p, hours)
    PROVE  /\ Lawful(p, p.locked) /\ StaticFeasibility(p)
           /\ Good(p, BoardOf(p, hours))
<1> DEFINE B == BoardOf(p, hours)
<1>1. hours \in [ExpandDemands(p) -> Hour] /\ CheckFull(p, B) /\ LocksFit(p) /\ p.rooms = <<>>
  BY DEF Legal, Promising
<1>2. B \subseteq Slot /\ IsFiniteSet(B) /\ Fitted(p, B) /\ p.locked \subseteq B
  BY <1>1, LegalBoardIs
<1>3. Lawful(p, B)
  BY <1>1 DEF CheckFull
<1> HIDE DEF B
<1> QED BY <1>1, <1>2, <1>3, LawfulBelow, LawfulIsGood, LegalIsFeasible DEF B

\* While the frames agree with a legal board, its next hour is free.
LEMMA NextIsFree ==
    ASSUME NEW p, ProblemOK(p), Promising(p), NEW hours, Legal(p, hours),
           NEW st \in Seq(Frame(p)), NEW k \in Nat, k <= Len(st), Laid(p, st, k),
           Agree(st, hours, k),
           NEW j \in ExpandDemands(p), \A n \in 1 .. k : st[n].lesson # j
    PROVE  /\ hours[j] \in Hour
           /\ FreeAt(p, BoardTo(p, st, k), p.demands[j[1]], hours[j])
<1> DEFINE C == BoardOf(p, hours)
           B == BoardTo(p, st, k)
           x == Spot(p, hours, j)
<1>0. hours \in [ExpandDemands(p) -> Hour] /\ LocksFit(p) /\ p.rooms = <<>>
  BY DEF Legal, Promising
<1>1. C \subseteq Slot /\ IsFiniteSet(C) /\ p.locked \subseteq C
  BY <1>0, LegalBoardIs
<1>2. /\ \A i \in ExpandDemands(p) : Spot(p, hours, i) \notin p.locked
      /\ \A i, l \in ExpandDemands(p) : Spot(p, hours, i) = Spot(p, hours, l) => i = l
  BY <1>0, SpotsApart
<1>3. ASSUME NEW n \in 1 .. k
      PROVE  /\ st[n].lesson \in ExpandDemands(p)
             /\ Cell(p, st[n]) = Spot(p, hours, st[n].lesson)
  <2>1. st[n] \in Frame(p)
    BY ElementOfSeq
  <2>2. st[n].at = hours[st[n].lesson] /\ st[n].room = Unmanaged
    BY <1>0 DEF Agree, Laid
  <2> QED BY <2>1, <2>2 DEF Frame, Cell, Spot, Put
<1>4. B \subseteq C
  <2>1. \A n \in 1 .. k : Cell(p, st[n]) \in C
    BY <1>0, <1>3, SpotIs
  <2> QED BY <1>1, <2>1 DEF BoardTo
<1>5. x \in C /\ x \notin B /\ j[1] \in Demand(p) /\ Fills(p, j[1], x) /\ x.at = hours[j]
  <2>1. x \in C /\ j[1] \in Demand(p) /\ Fills(p, j[1], x) /\ x.at = hours[j]
    BY <1>0, SpotIs
  <2>2. \A n \in 1 .. k : x # Cell(p, st[n])
    BY <1>2, <1>3
  <2> HIDE DEF x
  <2>3. x \notin p.locked
    BY <1>2 DEF x
  <2> QED BY <2>1, <2>2, <2>3 DEF BoardTo
<1>6. Good(p, C)
  BY LegalIsStatic
<1>7. hours[j] \in Hour
  BY <1>0
<1> HIDE DEF x, B, C
<1>8. x \in C \ B
  BY <1>5
<1>9. FreeAt(p, B, p.demands[j[1]], x.at)
  BY <1>1, <1>4, <1>5, <1>6, <1>8, GoodIsFree
<1> QED BY <1>5, <1>7, <1>9 DEF B

\* Frames that stay as they were keep a legal board ahead.
LEMMA AheadStays ==
    ASSUME NEW st, NEW tt, NEW hours, NEW n \in Nat, n >= 1, n <= Len(tt), Len(tt) \in Nat,
           Agree(st, hours, n - 1), \A m \in 1 .. (n - 1) : tt[m] = st[m],
           tt[n].lesson = st[n].lesson, hours[st[n].lesson] \in tt[n].todo
    PROVE  Ahead(tt, hours)
<1>1. Agree(tt, hours, n - 1)
  BY DEF Agree
<1>2. n \in 1 .. Len(tt)
  OBVIOUS
<1> QED BY <1>1, <1>2 DEF Ahead

LEMMA StartHopes ==
    ASSUME SearchInv, StartSolve, Promising(problem), NEW hours, Legal(problem, hours)
    PROVE  Hope(phase', stack', hours)
<1>0. /\ phase = "new" /\ problem \in Problems /\ stack = <<>> /\ stack' = stack
  BY DEF SearchInv, StartSolve
<1>1. phase' = "select"
  BY <1>0, ProblemsOK, LegalIsStatic DEF StartSolve, Goes
<1>2. Len(stack') = 0
  BY <1>0, EmptySeq
<1> QED BY <1>1, <1>2 DEF Hope, Agree

LEMMA SelectHopes ==
    ASSUME SearchInv, SelectLesson, ~gaveUp', Promising(problem),
           NEW hours, Legal(problem, hours), Hope(phase, stack, hours)
    PROVE  Hope(phase', stack', hours)
<1>0. /\ phase = "select" /\ InSearch(problem, phase, mirror, stack)
  BY DEF SearchInv, SelectLesson, Running
<1>1. ProblemOK(problem)
  BY <1>0, ProblemsOK DEF InSearch
<1> DEFINE L == Len(stack)
           B == BoardTo(problem, stack, L)
<1>2. /\ stack \in Seq(Frame(problem)) /\ L \in Nat /\ Depth(phase, stack) = L
      /\ B \subseteq Slot /\ problem.locked \subseteq B /\ mirror = MirrorOf(B)
      /\ Laid(problem, stack, L)
  BY <1>0, <1>1, DepthIs DEF Depth, InSearch
<1>3. Placed = {stack[n].lesson : n \in 1 .. L}
  BY <1>2, BoardIs
<1>4. Ahead(stack, hours) \/ Agree(stack, hours, L)
  BY <1>0 DEF Hope
<1>5. ASSUME NEW j \in Open, Agree(stack, hours, L)
      PROVE  hours[j] \in Candidates(DemandOf(j))
  <2>1. j \in ExpandDemands(problem) /\ \A n \in 1 .. L : stack[n].lesson # j
    BY <1>3 DEF Open, Lessons
  <2>2. hours[j] \in Hour /\ FreeAt(problem, B, problem.demands[j[1]], hours[j])
    BY <1>1, <1>2, <1>5, <2>1, NextIsFree
  <2>3. j[1] \in Demand(problem) /\ problem.rooms = <<>>
    BY <1>1, <2>1, LessonsAre DEF Promising
  <2> HIDE DEF B
  <2> QED BY <1>1, <1>2, <2>2, <2>3, FreeAreCandidates DEF DemandOf
<1>6. CASE Open = {}
  <2>1. phase' = "check"
    BY <1>6 DEF SelectLesson, Goes
  <2> QED BY <2>1 DEF Hope
<1>7. CASE Open # {} /\ \E j \in Open : Candidates(DemandOf(j)) = {}
  <2>1. phase' = "back" /\ stack' = stack
    BY <1>7 DEF SelectLesson, Goes
  <2>2. Ahead(stack, hours)
    BY <1>4, <1>5, <1>7
  <2> QED BY <2>1, <2>2 DEF Hope
<1>8. CASE Open # {} /\ ~\E j \in Open : Candidates(DemandOf(j)) = {}
  <2>1. PICK i \in Open : i = MostConstrained
    BY <1>1, <1>8, MostIsOpen
  <2> DEFINE f == [lesson |-> i, at |-> NoHour, room |-> Unmanaged,
                   todo |-> Candidates(DemandOf(i))]
  <2>2. phase' = "try" /\ stack' = Append(stack, f)
    <3>1. \E few \in Shortlists(Candidates(DemandOf(i))) :
             /\ stack' = Append(stack, [lesson |-> i, at |-> NoHour, room |-> Unmanaged, todo |-> few])
             /\ few = Candidates(DemandOf(i))
             /\ phase' = "try"
      BY <1>8, <2>1 DEF SelectLesson, Goes
    <3> QED BY <3>1
  <2>3. f.lesson = i /\ f.todo = Candidates(DemandOf(i))
    OBVIOUS
  <2>4. f \in Frame(problem)
    <3>1. Candidates(DemandOf(i)) \subseteq Hour /\ i \in ExpandDemands(problem)
      BY DEF Candidates, Open, Lessons
    <3> QED BY <3>1 DEF Frame
  <2> HIDE DEF f
  <2>5. PICK t : t = Append(stack, f)
    OBVIOUS
  <2>6. /\ t \in Seq(Frame(problem)) /\ Len(t) = L + 1 /\ t[L + 1] = f
        /\ \A n \in 1 .. L : t[n] = stack[n]
    BY <1>2, <2>4, <2>5, Pushed
  <2>7. Ahead(t, hours)
    <3>1. CASE Ahead(stack, hours)
      <4>1. PICK n \in 1 .. L : Agree(stack, hours, n - 1) /\ hours[stack[n].lesson] \in stack[n].todo
        BY <3>1 DEF Ahead
      <4>2. /\ n \in Nat /\ n >= 1 /\ n <= Len(t) /\ Len(t) \in Nat /\ t[n] = stack[n]
            /\ \A m \in 1 .. (n - 1) : t[m] = stack[m]
        BY <1>2, <2>6
      <4> QED BY <4>1, <4>2, AheadStays
    <3>2. CASE Agree(stack, hours, L)
      <4>1. hours[i] \in f.todo
        BY <1>5, <2>3, <3>2
      <4>2. Agree(t, hours, L + 1 - 1)
        BY <1>2, <2>6, <3>2 DEF Agree
      <4>3. L + 1 \in 1 .. Len(t)
        BY <1>2, <2>6
      <4> QED BY <2>3, <2>6, <4>1, <4>2, <4>3 DEF Ahead
    <3> QED BY <1>4, <3>1, <3>2
  <2> QED BY <2>2, <2>5, <2>7 DEF Hope
<1> QED BY <1>6, <1>7, <1>8

LEMMA TryHopes ==
    ASSUME SearchInv, NEW c, TryHour(c), Promising(problem), NEW hours, Legal(problem, hours),
           Hope(phase, stack, hours)
    PROVE  Hope(phase', stack', hours)
<1>0. /\ phase = "try" /\ InSearch(problem, phase, mirror, stack) /\ c \in Top.todo
  BY DEF SearchInv, TryHour, Running
<1>1. ProblemOK(problem)
  BY <1>0, ProblemsOK DEF InSearch
<1>2. /\ stack \in Seq(Frame(problem)) /\ stack # <<>> /\ Len(stack) \in Nat /\ Len(stack) >= 1
  <2>1. stack \in Seq(Frame(problem)) /\ stack # <<>>
    BY <1>0 DEF InSearch, Listed
  <2>2. Len(stack) \in Nat \ {0}
    BY <2>1, EmptySeq
  <2> QED BY <2>1, <2>2
<1> DEFINE L == Len(stack)
           r == PickRoom(DemandOf(Top.lesson), c)
<1>3. PICK n \in 1 .. L : Agree(stack, hours, n - 1) /\ hours[stack[n].lesson] \in stack[n].todo
  BY <1>0 DEF Hope, Ahead
<1>4. r = Unmanaged /\ Unmanaged # NoFit
  BY DEF PickRoom, Promising, Unmanaged, NoFit
<1> DEFINE f == [Top EXCEPT !.todo = @ \ {c}, !.at = c, !.room = r]
<1>5. stack' = [stack EXCEPT ![Len(stack)] = f] /\ phase' = "select"
  BY <1>4 DEF TryHour, Retop, Goes
<1>6. Top \in Frame(problem) /\ L \in 1 .. L
  BY <1>2, ElementOfSeq DEF Top
<1>7. f \in Frame(problem) /\ f.lesson = Top.lesson /\ f.todo = Top.todo \ {c} /\ f.at = c
  <2>1. c \in Hour
    BY <1>0, <1>6 DEF Frame
  <2> HIDE DEF r
  <2> QED BY <1>4, <1>6, <2>1 DEF Frame
<1> HIDE DEF f, r
<1>8. PICK t : t = [stack EXCEPT ![Len(stack)] = f]
  OBVIOUS
<1>9. /\ Len(t) = L /\ t[L] = f
      /\ \A m \in 1 .. (L - 1) : t[m] = stack[m]
  BY <1>2, <1>7, <1>8, Retopped
<1>10. CASE n # L
  <2>1. /\ n \in Nat /\ n >= 1 /\ n <= Len(t) /\ Len(t) \in Nat /\ t[n] = stack[n]
        /\ \A m \in 1 .. (n - 1) : t[m] = stack[m]
    BY <1>2, <1>9, <1>10
  <2>2. Ahead(t, hours)
    BY <1>3, <2>1, AheadStays
  <2> QED BY <1>5, <1>8, <2>2 DEF Hope
<1>11. CASE n = L /\ hours[Top.lesson] # c
  <2>1. /\ n \in Nat /\ n >= 1 /\ n <= Len(t) /\ Len(t) \in Nat
        /\ \A m \in 1 .. (n - 1) : t[m] = stack[m]
    BY <1>2, <1>9, <1>11
  <2>2. t[n].lesson = stack[n].lesson /\ hours[stack[n].lesson] \in t[n].todo
    BY <1>3, <1>7, <1>9, <1>11 DEF Top
  <2>3. Ahead(t, hours)
    BY <1>3, <2>1, <2>2, AheadStays
  <2> QED BY <1>5, <1>8, <2>3 DEF Hope
<1>12. CASE n = L /\ hours[Top.lesson] = c
  <2>1. Agree(t, hours, L)
    <3> SUFFICES ASSUME NEW m \in 1 .. L PROVE t[m].at = hours[t[m].lesson]
      BY DEF Agree
    <3>1. CASE m = L
      BY <1>7, <1>9, <1>12, <3>1 DEF Top
    <3>2. CASE m # L
      <4>1. m \in 1 .. (n - 1) /\ t[m] = stack[m]
        BY <1>2, <1>9, <1>12, <3>2
      <4> QED BY <1>3, <4>1 DEF Agree
    <3> QED BY <3>1, <3>2
  <2> QED BY <1>5, <1>8, <1>9, <2>1 DEF Hope
<1> QED BY <1>10, <1>11, <1>12

LEMMA NothingHopes ==
    ASSUME SearchInv, NothingLeft, NEW hours, Hope(phase, stack, hours)
    PROVE  Hope(phase', stack', hours)
<1>0. /\ phase = "try" /\ InSearch(problem, phase, mirror, stack) /\ Top.todo = {}
      /\ phase' = "back" /\ stack' = Pop
  BY DEF SearchInv, NothingLeft, Running, Goes
<1>1. Listed(problem, stack) /\ stack # <<>> /\ stack \in Seq(Frame(problem))
  BY <1>0 DEF InSearch, Listed
<1>2. PICK n \in 1 .. Len(stack) : Agree(stack, hours, n - 1) /\ hours[stack[n].lesson] \in stack[n].todo
  BY <1>0 DEF Hope, Ahead
<1>3. PICK t : t = SubSeq(stack, 1, Len(stack) - 1)
  OBVIOUS
<1>4. Len(t) = Len(stack) - 1 /\ Len(t) \in Nat /\ \A m \in 1 .. Len(t) : t[m] = stack[m]
  BY <1>1, <1>3, PopKeeps
<1>5. n # Len(stack)
  BY <1>0, <1>2 DEF Top
<1>6. /\ n \in Nat /\ n >= 1 /\ n <= Len(t) /\ t[n] = stack[n]
      /\ \A m \in 1 .. (n - 1) : t[m] = stack[m]
  <2>1. Len(stack) \in Nat
    BY <1>1, LenProperties
  <2> QED BY <1>4, <1>5, <2>1
<1>7. Ahead(t, hours)
  BY <1>2, <1>4, <1>6, AheadStays
<1> QED BY <1>0, <1>3, <1>7 DEF Hope, Pop

LEMMA BacktrackHopes ==
    ASSUME SearchInv, Backtrack, NEW hours, Hope(phase, stack, hours)
    PROVE  Hope(phase', stack', hours)
<1>0. /\ phase = "back" /\ InSearch(problem, phase, mirror, stack) /\ stack # <<>>
      /\ phase' = "try"
  BY DEF SearchInv, Backtrack, Running, Goes
<1>1. stack \in Seq(Frame(problem)) /\ Len(stack) \in Nat /\ Len(stack) >= 1
  <2>1. stack \in Seq(Frame(problem))
    BY <1>0 DEF InSearch, Listed
  <2>2. Len(stack) \in Nat \ {0}
    BY <1>0, <2>1, EmptySeq
  <2> QED BY <2>1, <2>2
<1>2. PICK n \in 1 .. Len(stack) : Agree(stack, hours, n - 1) /\ hours[stack[n].lesson] \in stack[n].todo
  BY <1>0 DEF Hope, Ahead
<1> DEFINE f == [Top EXCEPT !.at = NoHour, !.room = Unmanaged]
<1>3. Top \in Frame(problem)
  BY <1>1, ElementOfSeq DEF Top
<1>4. f \in Frame(problem) /\ f.lesson = Top.lesson /\ f.todo = Top.todo
  BY <1>3 DEF Frame
<1>5. PICK t : t = [stack EXCEPT ![Len(stack)] = f]
  OBVIOUS
<1>6. stack' = t
  BY <1>5 DEF Backtrack, Retop
<1> HIDE DEF f
<1>7. /\ Len(t) = Len(stack) /\ t[Len(stack)] = f
      /\ \A m \in 1 .. (Len(stack) - 1) : t[m] = stack[m]
  BY <1>0, <1>1, <1>4, <1>5, Retopped
<1>8. /\ n \in Nat /\ n >= 1 /\ n <= Len(t) /\ Len(t) \in Nat
      /\ \A m \in 1 .. (n - 1) : t[m] = stack[m]
  BY <1>1, <1>7
<1>9. t[n].lesson = stack[n].lesson /\ t[n].todo = stack[n].todo
  <2>1. CASE n = Len(stack)
    BY <1>4, <1>7, <2>1 DEF Top
  <2>2. CASE n # Len(stack)
    BY <1>1, <1>7, <2>2
  <2> QED BY <2>1, <2>2
<1>10. Ahead(t, hours)
  BY <1>2, <1>8, <1>9, AheadStays
<1> QED BY <1>0, <1>6, <1>10 DEF Hope

LEMMA RestartHopes ==
    ASSUME SearchInv, Restarts, NEW hours, Hope(phase, stack, hours)
    PROVE  FALSE
<1>1. phase = "back" /\ stack = <<>> /\ Len(stack) = 0
  BY EmptySeq DEF Restarts
<1>2. Ahead(stack, hours)
  BY <1>1 DEF Hope
<1> QED BY <1>1, <1>2 DEF Ahead

LEMMA CheckHopes == ASSUME CheckResult, NEW hours PROVE Hope(phase', stack', hours)
<1>1. phase' \in {"solved", "refused"}
  BY DEF CheckResult, Goes
<1> QED BY <1>1 DEF Hope

LEMMA InitHope == EngineInit => HopeInv
<1> SUFFICES ASSUME EngineInit PROVE HopeInv
  OBVIOUS
<1>1. gaveUp \in BOOLEAN /\ phase \in {"new", "none"}
  BY DEF EngineInit, Fresh
<1>2. Hopeful(problem, phase, stack)
  BY <1>1 DEF Hopeful, Hope
<1> QED BY <1>1, <1>2 DEF HopeInv

LEMMA NextHope == SearchInv /\ HopeInv /\ [EngineNext]_engineVars => HopeInv'
<1> SUFFICES ASSUME SearchInv, HopeInv, [EngineNext]_engineVars PROVE HopeInv'
  OBVIOUS
<1>1. ASSUME Solve PROVE HopeInv'
  <2>1. problem' = problem /\ (gaveUp => gaveUp') /\ gaveUp' \in BOOLEAN
    <3>1. problem' = problem
      BY <1>1 DEF Solve, StartSolve, SelectLesson, NothingLeft, SliceIsOver, Backtrack, Restarts,
         CheckResult, TryHour, Aside
    <3>2. gaveUp' = gaveUp \/ gaveUp' = TRUE
      BY <1>1 DEF Solve, StartSolve, SelectLesson, NothingLeft, SliceIsOver, Backtrack, Restarts,
         CheckResult, TryHour
    <3>3. gaveUp \in BOOLEAN
      BY DEF HopeInv
    <3>4. CASE gaveUp' = gaveUp
      BY <3>1, <3>3, <3>4, Zenon
    <3>5. CASE gaveUp' = TRUE
      BY <3>1, <3>5
    <3> QED BY <3>2, <3>4, <3>5
  <2> SUFFICES ASSUME ~gaveUp', Promising(problem), NEW hours, Legal(problem, hours)
               PROVE  Hope(phase', stack', hours)
    BY <2>1 DEF HopeInv, Hopeful
  <2>2. Hope(phase, stack, hours)
    BY <2>1 DEF HopeInv, Hopeful
  <2>3. ~SliceIsOver
    BY DEF SliceIsOver
  <2> QED BY <1>1, <2>2, <2>3, StartHopes, SelectHopes, TryHopes, NothingHopes, BacktrackHopes,
             RestartHopes, CheckHopes DEF Solve
<1>2. CASE SuggestSubstitutions \/ UNCHANGED engineVars
  <2>1. UNCHANGED <<problem, phase, stack, gaveUp>>
    BY <1>2 DEF SuggestSubstitutions, engineVars
  <2> QED BY <2>1 DEF HopeInv
<1> QED BY <1>1, <1>2 DEF EngineNext

-----------------------------------------------------------------------------
(* A day's cover *)

\* What the requests for cover are left with, as values.
Coverers(c, l) == {t \in Teacher \ c.absent :
    <<t, l.period>> \notin c.busy /\ c.load[t] + 1 <= c.cap[t]}
Able(c, l, t) == c.qualified[l.subject] = {} \/ t \in c.qualified[l.subject]

\* A record with these fields, whatever is in them.
CoverRow(c) ==
    c \in [table : {c.table}, absent : {c.absent}, cap : {c.cap}, qualified : {c.qualified},
           todo : {c.todo}, busy : {c.busy}, load : {c.load}, given : {c.given},
           uncovered : {c.uncovered}]

CoverOK(c) ==
    /\ CoverRow(c)
    /\ c.load \in [Teacher -> Nat] /\ c.cap \in [Teacher -> Nat]
    /\ \A n \in DOMAIN c.table : <<c.table[n].teacher, c.table[n].period>> \in c.busy
    /\ \A g, h \in c.given : g # h /\ g[1].period = h[1].period => g[2] # h[2]
    /\ \A g \in c.given :
          /\ <<g[2], g[1].period>> \in c.busy /\ g[2] \in Teacher
          /\ \A n \in DOMAIN c.table :
                c.table[n].teacher = g[2] => c.table[n].period # g[1].period
          /\ c.load[g[2]] <= c.cap[g[2]]
          /\ ~Able(c, g[1], g[2]) => \A t \in Coverers(c, g[1]) : ~Able(c, g[1], t)
    /\ \A l \in c.uncovered : Coverers(c, l) = {}

CoverInv == cover = NoCover \/ CoverOK(cover)

LEMMA InitCover == EngineInit => CoverInv
<1> SUFFICES ASSUME NEW a \in Absences PROVE CoverOK(StartCover(a))
  BY DEF EngineInit, CoverInv
<1>1. AbsenceOK(a)
  BY EngineAssumption
<1>2. \A t \in Teacher : Cardinality({n \in DOMAIN a.table : a.table[n].teacher = t}) \in Nat
  <2> TAKE t \in Teacher
  <2>1. IsFiniteSet({n \in DOMAIN a.table : a.table[n].teacher = t})
    BY <1>1, FS_Subset DEF AbsenceOK
  <2> QED BY <2>1, FS_CardinalityType
<1> QED BY <1>1, <1>2 DEF StartCover, CoverOK, CoverRow, AbsenceOK

LEMMA NextCover == CoverInv /\ [EngineNext]_engineVars => CoverInv'
<1> SUFFICES ASSUME CoverInv, [EngineNext]_engineVars PROVE CoverInv'
  OBVIOUS
<1>1. CASE Solve \/ UNCHANGED engineVars
  <2>1. cover' = cover
    BY <1>1 DEF Solve, StartSolve, SelectLesson, NothingLeft, SliceIsOver, Backtrack, Restarts,
       CheckResult, TryHour, Aside, engineVars
  <2> QED BY <2>1 DEF CoverInv
<1>2. CASE SuggestSubstitutions
  <2>1. cover # NoCover
    BY <1>2 DEF SuggestSubstitutions, NoCover
  <2>2. CoverOK(cover)
    BY <2>1 DEF CoverInv
  <2>3. PICK n, l : Suggest(n, l)
    BY <1>2 DEF SuggestSubstitutions
  <2>4. /\ CanCover(l) = Coverers(cover, l)
        /\ \A t : Qualified(l, t) <=> Able(cover, l, t)
    BY DEF CanCover, Coverers, Qualified, Able
  <2>9. PICK o : o = cover
    OBVIOUS
  <2>10. CoverRow(o)
    BY <2>2, <2>9 DEF CoverOK
  <2>5. CASE CanCover(l) = {}
    <3>1. cover' = [cover EXCEPT !.todo = @ \ {n}, !.uncovered = @ \cup {l}]
      BY <2>3, <2>5 DEF Suggest
    <3>2. PICK c : c = [o EXCEPT !.todo = @ \ {n}, !.uncovered = @ \cup {l}]
      OBVIOUS
    <3>3. cover' = c
      BY <2>9, <3>1, <3>2
    <3>4. /\ c.load = o.load /\ c.cap = o.cap /\ c.table = o.table
          /\ c.busy = o.busy /\ c.given = o.given /\ c.absent = o.absent
          /\ c.qualified = o.qualified /\ c.uncovered = o.uncovered \cup {l}
          /\ CoverRow(c)
      BY <2>10, <3>2 DEF CoverRow
    <3>5. /\ \A k : Coverers(c, k) = Coverers(cover, k)
          /\ \A k, u : Able(c, k, u) <=> Able(cover, k, u)
      BY <2>9, <3>4 DEF Coverers, Able
    <3>6. CoverOK(c)
      <4>1. /\ c.load \in [Teacher -> Nat] /\ c.cap \in [Teacher -> Nat]
            /\ \A m \in DOMAIN c.table : <<c.table[m].teacher, c.table[m].period>> \in c.busy
            /\ \A g, h \in c.given : g # h /\ g[1].period = h[1].period => g[2] # h[2]
        BY <2>2, <2>9, <3>4 DEF CoverOK
      <4>2. ASSUME NEW g \in c.given
            PROVE  /\ <<g[2], g[1].period>> \in c.busy /\ g[2] \in Teacher
                   /\ \A m \in DOMAIN c.table :
                         c.table[m].teacher = g[2] => c.table[m].period # g[1].period
                   /\ c.load[g[2]] <= c.cap[g[2]]
                   /\ ~Able(c, g[1], g[2]) => \A u \in Coverers(c, g[1]) : ~Able(c, g[1], u)
        <5>1. g \in cover.given
          BY <2>9, <3>4
        <5>2. ~Able(cover, g[1], g[2]) => \A u \in Coverers(cover, g[1]) : ~Able(cover, g[1], u)
          BY <2>2, <5>1 DEF CoverOK
        <5>3. /\ <<g[2], g[1].period>> \in c.busy /\ g[2] \in Teacher
              /\ \A m \in DOMAIN c.table :
                    c.table[m].teacher = g[2] => c.table[m].period # g[1].period
              /\ c.load[g[2]] <= c.cap[g[2]]
          BY <2>2, <2>9, <3>4, <5>1 DEF CoverOK
        <5>4. ~Able(c, g[1], g[2]) => \A u \in Coverers(c, g[1]) : ~Able(c, g[1], u)
          BY <3>5, <5>2, Zenon
        <5> QED BY <5>3, <5>4
      <4>3. \A k \in c.uncovered : Coverers(c, k) = {}
        BY <2>2, <2>4, <2>5, <2>9, <3>4, <3>5 DEF CoverOK
      <4> QED BY <3>4, <4>1, <4>2, <4>3 DEF CoverOK
    <3> QED BY <3>3, <3>6 DEF CoverInv
  <2>6. CASE CanCover(l) # {}
    <3>1. PICK t \in Preferred(l) :
            cover' = [cover EXCEPT !.todo = @ \ {n}, !.given = @ \cup {<<l, t>>},
                                   !.load[t] = @ + 1, !.busy = @ \cup {<<t, l.period>>}]
      BY <2>3, <2>6 DEF Suggest
    <3>2. PICK c : c = [o EXCEPT !.todo = @ \ {n}, !.given = @ \cup {<<l, t>>},
                                 !.load[t] = @ + 1, !.busy = @ \cup {<<t, l.period>>}]
      OBVIOUS
    <3>3. cover' = c
      BY <2>9, <3>1, <3>2
    <3>15. /\ c.cap = cover.cap /\ c.load = [cover.load EXCEPT ![t] = @ + 1]
           /\ c.table = cover.table /\ c.absent = cover.absent /\ c.qualified = cover.qualified
           /\ c.busy = cover.busy \cup {<<t, l.period>>} /\ c.given = cover.given \cup {<<l, t>>}
           /\ c.uncovered = cover.uncovered /\ CoverRow(c)
      BY <2>9, <2>10, <3>2 DEF CoverRow
    <3>4. /\ t \in Coverers(cover, l) /\ t \in Teacher
          /\ ~Able(cover, l, t) => \A u \in Coverers(cover, l) : ~Able(cover, l, u)
      <4>1. t \in CanCover(l) /\ \A u \in CanCover(l) :
               \/ Qualified(l, t) /\ ~Qualified(l, u)
               \/ Qualified(l, t) = Qualified(l, u) /\ cover.load[t] <= cover.load[u]
        BY <3>1 DEF Preferred
      <4>2. Able(cover, l, t) \in BOOLEAN /\ \A u : Qualified(l, u) \in BOOLEAN
        BY DEF Able, Qualified
      <4>3. ~Qualified(l, t) => \A u \in CanCover(l) : ~Qualified(l, u)
        BY <4>1, <4>2, Zenon
      <4> QED BY <2>4, <4>1, <4>3 DEF Coverers
    <3>5. /\ <<t, l.period>> \notin cover.busy /\ cover.load[t] + 1 <= cover.cap[t]
      BY <3>4 DEF Coverers
    <3>6. /\ c.load \in [Teacher -> Nat] /\ c.cap \in [Teacher -> Nat] /\ c.cap = cover.cap
          /\ \A u \in Teacher : c.load[u] = IF u = t THEN cover.load[u] + 1 ELSE cover.load[u]
      BY <2>2, <3>15, <3>4 DEF CoverOK
    <3>7. \A k : Coverers(c, k) \subseteq Coverers(cover, k)
      <4> SUFFICES ASSUME NEW k, NEW u \in Coverers(c, k) PROVE u \in Coverers(cover, k)
        OBVIOUS
      <4>1. /\ u \in Teacher \ cover.absent /\ <<u, k.period>> \notin cover.busy
            /\ c.load[u] + 1 <= cover.cap[u]
        BY <3>15 DEF Coverers
      <4>2. cover.load[u] \in Nat /\ cover.cap[u] \in Nat
        BY <2>2, <4>1 DEF CoverOK
      <4>3. cover.load[u] + 1 <= cover.cap[u]
        BY <3>6, <4>1, <4>2
      <4> QED BY <4>1, <4>3 DEF Coverers
    <3>8. \A k, u : Able(c, k, u) <=> Able(cover, k, u)
      BY <3>15 DEF Able
    <3>9. /\ c.given = cover.given \cup {<<l, t>>} /\ c.table = cover.table
          /\ c.busy = cover.busy \cup {<<t, l.period>>} /\ c.uncovered = cover.uncovered
          /\ CoverRow(c)
      BY <3>15
    <3>10. \A g, h \in c.given : g # h /\ g[1].period = h[1].period => g[2] # h[2]
      <4> SUFFICES ASSUME NEW g \in c.given, NEW h \in c.given, g # h,
                          g[1].period = h[1].period, g[2] = h[2]
                   PROVE  FALSE
        OBVIOUS
      <4>1. \A k \in cover.given : ~(k[1].period = l.period /\ k[2] = t)
        BY <2>2, <3>5 DEF CoverOK
      <4>2. CASE g \in cover.given /\ h \in cover.given
        BY <2>2, <4>2 DEF CoverOK
      <4>3. CASE g = <<l, t>> /\ h \in cover.given
        BY <4>1, <4>3
      <4>4. CASE h = <<l, t>> /\ g \in cover.given
        BY <4>1, <4>4
      <4> QED BY <3>9, <4>2, <4>3, <4>4
    <3>11. ASSUME NEW g \in c.given
           PROVE  /\ <<g[2], g[1].period>> \in c.busy /\ g[2] \in Teacher
                  /\ \A m \in DOMAIN c.table :
                        c.table[m].teacher = g[2] => c.table[m].period # g[1].period
                  /\ c.load[g[2]] <= c.cap[g[2]]
                  /\ ~Able(c, g[1], g[2]) => \A u \in Coverers(c, g[1]) : ~Able(c, g[1], u)
      <4>1. CASE g \in cover.given
        <5>1. /\ <<g[2], g[1].period>> \in cover.busy /\ g[2] \in Teacher
              /\ \A m \in DOMAIN cover.table :
                    cover.table[m].teacher = g[2] => cover.table[m].period # g[1].period
              /\ cover.load[g[2]] <= cover.cap[g[2]]
              /\ ~Able(cover, g[1], g[2]) =>
                    \A u \in Coverers(cover, g[1]) : ~Able(cover, g[1], u)
          BY <2>2, <4>1 DEF CoverOK
        <5>2. c.load[g[2]] <= c.cap[g[2]]
          <6>1. CASE g[2] = t
            BY <3>5, <3>6, <5>1, <6>1
          <6>2. CASE g[2] # t
            BY <3>6, <5>1, <6>2
          <6> QED BY <6>1, <6>2
        <5> QED BY <3>7, <3>8, <3>9, <5>1, <5>2
      <4>2. CASE g = <<l, t>>
        <5>1. g[1] = l /\ g[2] = t
          BY <4>2
        <5>2. \A m \in DOMAIN c.table : c.table[m].teacher = t => c.table[m].period # l.period
          BY <2>2, <3>5, <3>9 DEF CoverOK
        <5>3. c.load[t] <= c.cap[t]
          BY <3>4, <3>5, <3>6
        <5> QED BY <3>4, <3>7, <3>8, <3>9, <5>1, <5>2, <5>3
      <4> QED BY <3>9, <4>1, <4>2
    <3>12. \A k \in c.uncovered : Coverers(c, k) = {}
      BY <2>2, <3>7, <3>9 DEF CoverOK
    <3>13. \A m \in DOMAIN c.table : <<c.table[m].teacher, c.table[m].period>> \in c.busy
      BY <2>2, <3>9 DEF CoverOK
    <3>14. CoverOK(c)
      BY <3>6, <3>9, <3>10, <3>11, <3>12, <3>13 DEF CoverOK
    <3> QED BY <3>3, <3>14 DEF CoverInv
  <2> QED BY <2>5, <2>6
<1> QED BY <1>1, <1>2 DEF EngineNext

-----------------------------------------------------------------------------
(* What the engine promises *)

LEMMA SearchTells == SearchInv /\ HopeInv => SearchTellsTruth
<1> SUFFICES ASSUME SearchInv, HopeInv PROVE SearchTellsTruth
  OBVIOUS
<1>1. ASSUME phase \in {"select", "check"} PROVE mirror = MirrorOf(Board)
  <2>1. InSearch(problem, phase, mirror, stack) /\ Depth(phase, stack) = Len(stack)
    BY <1>1 DEF SearchInv, Running, Depth
  <2>2. stack \in Seq(Frame(problem))
    BY <2>1 DEF InSearch, Listed
  <2> QED BY <2>1, <2>2, BoardIs DEF InSearch
<1>2. ASSUME LocksFit(problem) PROVE phase # "refused"
  BY <1>2 DEF SearchInv
<1>3. ASSUME LocksFit(problem), phase = "infeasible", ~gaveUp, problem.rooms = <<>>,
             NEW hours \in [Lessons -> Hour], CheckFull(problem, BoardOf(problem, hours))
      PROVE  FALSE
  <2>1. Legal(problem, hours) /\ Promising(problem)
    BY <1>3 DEF Legal, Promising, Lessons
  <2> QED BY <1>3, <2>1 DEF HopeInv, Hopeful, Hope
<1> QED BY <1>1, <1>2, <1>3 DEF SearchTellsTruth

LEMMA CoverTells == CoverInv => CoversHold
<1> SUFFICES ASSUME CoverOK(cover) PROVE CoversHold
  BY DEF CoverInv, CoversHold
<1>1. /\ \A l : CanCover(l) = Coverers(cover, l)
      /\ \A l, t : Qualified(l, t) <=> Able(cover, l, t)
  BY DEF CanCover, Coverers, Qualified, Able
<1>2. ASSUME NEW g \in cover.given
      PROVE  /\ \A n \in DOMAIN cover.table :
                   cover.table[n].teacher = g[2] => cover.table[n].period # g[1].period
             /\ cover.load[g[2]] <= cover.cap[g[2]]
             /\ ~Qualified(g[1], g[2]) => \A t \in CanCover(g[1]) : ~Qualified(g[1], t)
  BY <1>1 DEF CoverOK
<1>3. \A g, h \in cover.given : g # h /\ g[1].period = h[1].period => g[2] # h[2]
  BY DEF CoverOK
<1>4. \A l \in cover.uncovered : CanCover(l) = {}
  BY <1>1 DEF CoverOK
<1> QED BY <1>2, <1>3, <1>4 DEF CoversHold

\* The timetable engine tells the truth: what it marks as busy is what its board
\* has, a timetable it finishes passes the full check, "infeasible" means that no
\* legal timetable exists unless a slice of time ran out, and no cover it suggests
\* clashes, overloads anybody or passes over somebody better.
THEOREM EngineTellsTruthHolds == EngineSpec => []EngineTellsTruth
<1>1. EngineInit => SearchInv /\ HopeInv /\ CoverInv
  BY InitSearch, InitHope, InitCover
<1>2. SearchInv /\ HopeInv /\ CoverInv /\ [EngineNext]_engineVars =>
        SearchInv' /\ HopeInv' /\ CoverInv'
  BY NextSearch, NextHope, NextCover
<1>3. SearchInv /\ HopeInv /\ CoverInv => EngineTellsTruth
  BY SearchTells, CoverTells DEF EngineTellsTruth
<1> QED BY <1>1, <1>2, <1>3, PTL DEF EngineSpec
=============================================================================
