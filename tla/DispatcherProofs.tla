-------------------------- MODULE DispatcherProofs --------------------------
(***************************************************************************)
(* What the dispatcher's rows say of their messages, for any number of     *)
(* messages, drainers, retries, credits and crashes.                       *)
(*                                                                         *)
(* The hypothesis NoQueuedReceipt is needed: a receipt that says QUEUED    *)
(* puts a delivered row back into the queue (communication-service         *)
(* index.ts maps a provider's 'queued' to it), and it is sent again.       *)
(*                                                                         *)
(* And of Notices, which inserts such rows: for any families, scans and    *)
(* circulars, nobody is told twice and nobody found is left out. And of    *)
(* Attendance, whose records those scans read: for any requests and pupils *)
(* the summary and the trail of amendments agree with the records. And of  *)
(* ClassChat: a tab that is up to date with Redis shows what it is owed.   *)
(***************************************************************************)
EXTENDS Dispatcher, Notices, Attendance, ClassChat, FiniteSetTheorems, SequenceTheorems,
        TLAPS

NoQueuedReceipt == "QUEUED" \notin Receipts

Pass == [pc : {"idle", "requeue", "find", "claim", "read", "row", "wire", "stamp"},
         ids : SUBSET Msg, todo : SUBSET (Msg \X Nat), wait : BOOLEAN]

TypeOK ==
    /\ status \in [Msg -> Status]
    /\ attempts \in [Msg -> Nat]
    /\ retry \in [Msg -> {"no", "wait", "due"}]
    /\ stamped \in [Msg -> BOOLEAN]
    /\ units \in Nat
    /\ quiet \in BOOLEAN
    /\ pass \in [Drainer -> Pass]
    /\ accepted \in [Msg -> 0 .. 2]
    /\ overlap \in BOOLEAN
    /\ crashes \in Nat

\* Until passes overlap, one drainer at most is busy.
OneBusy == overlap \/ \A d, e \in Drainer : pass[d] # Idle /\ pass[e] # Idle => d = e

\* A pass reads its rows once, after it claimed them.
ReadOnce ==
    \A d \in Drainer :
        /\ \A x, y \in pass[d].todo : x[1] = y[1] => x = y
        /\ pass[d].pc \in {"row", "wire", "stamp"} \/ pass[d].todo = {}

\* A provider took what shows as sent, what carries its id, and what is about to.
Earned ==
    /\ \A m \in Msg : status[m] \in Out \/ stamped[m] => accepted[m] > 0
    /\ \A d \in Drainer : pass[d].pc = "stamp" =>
          \A x \in pass[d].todo : InHand(d, x) => accepted[x[1]] > 0

GivenUp == \A m \in Msg : status[m] = "DEAD_LETTERED" => attempts[m] >= MaxAttempts

\* What a pass took and a provider has accepted cannot come back into the queue:
\* it is in the hands of that pass (or of one that died), or stamped for good.
Taken(m) ==
    /\ accepted[m] = 1
    /\ \/ status[m] = "SENDING" /\ ~stamped[m]
       \/ status[m] \in Out \cup {"FAILED"} /\ stamped[m] /\ retry[m] = "no"

TakenForGood == overlap \/ \A m \in Msg : accepted[m] > 0 => Taken(m)

\* The rows a pass has picked have not been accepted, save the one being stamped.
Fresh(d) ==
    /\ pass[d].pc \in {"requeue", "claim", "read"} =>
          \A m \in pass[d].ids : accepted[m] = 0
    /\ \A x \in pass[d].todo :
          /\ status[x[1]] = "SENDING"
          /\ accepted[x[1]] > 0 => pass[d].pc = "stamp" /\ InHand(d, x)

AllFresh == overlap \/ \A d \in Drainer : Fresh(d)

\* A claimed row is in the hands of a pass, unless one died.
Held(m) == \E d \in Drainer : \/ pass[d].pc = "read" /\ m \in pass[d].ids
                              \/ \E x \in pass[d].todo : x[1] = m

ClaimedIsHeld == crashes = 0 => \A m \in Msg : status[m] = "SENDING" => Held(m)

IInv == /\ TypeOK /\ OneBusy /\ ReadOnce /\ Earned /\ GivenUp
        /\ TakenForGood /\ AllFresh /\ ClaimedIsHeld
-----------------------------------------------------------------------------
USE DispatcherAssumption

LEMMA IdleType == Idle \in Pass /\ Idle.pc = "idle" /\ Idle.ids = {} /\ Idle.todo = {}
BY DEF Idle, Pass

LEMMA TypeInit == Init => TypeOK
<1> SUFFICES ASSUME Init PROVE TypeOK
  OBVIOUS
<1>1. pass \in [Drainer -> Pass]
  BY IdleType DEF Init
<1>2. status \in [Msg -> Status] /\ retry \in [Msg -> {"no", "wait", "due"}]
  BY DEF Init, Status
<1>3. stamped \in [Msg -> BOOLEAN] /\ quiet \in BOOLEAN /\ overlap \in BOOLEAN
  BY Zenon DEF Init
<1>4. attempts \in [Msg -> Nat] /\ accepted \in [Msg -> 0 .. 2]
  BY DEF Init
<1>5. units \in Nat /\ crashes \in Nat
  BY DEF Init, DispatcherAssumption
<1> QED BY <1>1, <1>2, <1>3, <1>4, <1>5 DEF TypeOK

\* Rest is a pass again.
LEMMA RestType ==
    ASSUME TypeOK, NEW d \in Drainer, NEW todo \in SUBSET (Msg \X Nat)
    PROVE  Rest(d, todo) \in Pass
<1>1. pass[d] \in Pass
  BY DEF TypeOK
<1>2. [pass[d] EXCEPT !.pc = "row", !.todo = todo] \in Pass
  BY <1>1 DEF Pass
<1> QED BY <1>2, IdleType DEF Rest

LEMMA TypeStep == TypeOK /\ [Next]_vars => TypeOK'
<1> SUFFICES ASSUME TypeOK, [Next]_vars PROVE TypeOK'
  OBVIOUS
<1> USE DEF TypeOK
<1>1. CASE Around
  <2>1. ASSUME NEW m \in Msg, Queue(m) PROVE TypeOK'
    BY <2>1 DEF Queue, ghosts, Status
  <2>2. ASSUME NEW m \in Msg, BackoffOver(m) PROVE TypeOK'
    BY <2>2 DEF BackoffOver, ghosts
  <2>3. ASSUME NEW m \in Msg, NEW s \in Receipts, Receipt(m, s) PROVE TypeOK'
    BY <2>3 DEF Receipt, ghosts, Status
  <2>4. CASE Clock
    BY <2>4 DEF Clock, rows, ghosts
  <2> QED BY <1>1, <2>1, <2>2, <2>3, <2>4 DEF Around
<1>2. ASSUME NEW d \in Drainer, NEW urgent \in BOOLEAN, StartDrain(d, urgent) PROVE TypeOK'
  <2>1. PICK ids \in Batches(Retryable) :
           Moved(d, [Idle EXCEPT !.pc = "requeue", !.ids = ids, !.wait = quiet /\ ~urgent])
    BY <1>2 DEF StartDrain
  <2>2. ids \in SUBSET Msg
    BY DEF Batches, Retryable
  <2>3. pass' \in [Drainer -> Pass]
    BY <2>1, <2>2 DEF Moved, Idle, Pass
  <2> QED BY <1>2, <2>3 DEF StartDrain, rows
<1>3. ASSUME NEW d \in Drainer, Requeue(d) PROVE TypeOK'
  <2>1. status' \in [Msg -> Status]
    BY <1>3 DEF Requeue, Status
  <2>2. pass[d] \in Pass
    OBVIOUS
  <2>3. [pass[d] EXCEPT !.pc = "find", !.ids = {}] \in Pass
    BY <2>2 DEF Pass
  <2>4. pass' \in [Drainer -> Pass]
    BY <1>3, <2>3 DEF Requeue, Moved
  <2> QED BY <1>3, <2>1, <2>4 DEF Requeue, ghosts
<1>4. ASSUME NEW d \in Drainer, FindQueued(d) PROVE TypeOK'
  <2>1. pass' \in [Drainer -> Pass]
    <3> DEFINE ids == Oldest({m \in Msg : status[m] = "QUEUED"})
    <3>1. ids \in SUBSET Msg
      BY DEF Oldest
    <3>2. pass[d] \in Pass
      OBVIOUS
    <3>3. [pass[d] EXCEPT !.pc = "claim", !.ids = ids] \in Pass
      BY <3>1, <3>2 DEF Pass
    <3> QED BY <1>4, <3>3, IdleType DEF FindQueued, Moved
  <2> QED BY <1>4, <2>1 DEF FindQueued, rows, ghosts
<1>5. ASSUME NEW d \in Drainer, Claim(d) PROVE TypeOK'
  BY <1>5 DEF Claim, Moved, ghosts, Pass, Status
<1>6. ASSUME NEW d \in Drainer, ReadClaimed(d) PROVE TypeOK'
  <2> DEFINE todo == {<<m, attempts[m]>> : m \in {n \in pass[d].ids : status[n] = "SENDING"}}
  <2>1. pass[d].ids \in SUBSET Msg
    BY DEF Pass
  <2>2. todo \in SUBSET (Msg \X Nat)
    BY <2>1
  <2>3. pass' \in [Drainer -> Pass]
    BY <1>6, <2>2, RestType DEF ReadClaimed, Moved
  <2> QED BY <1>6, <2>3 DEF ReadClaimed, rows, ghosts
<1>7. ASSUME NEW d \in Drainer, NEW x \in pass[d].todo,
             Defer(d, x) \/ Gate(d, x) \/ Accept(d, x) \/ Stamp(d, x) \/ Exhaust(d, x)
      PROVE TypeOK'
  <2>1. x \in Msg \X Nat /\ pass[d].todo \ {x} \in SUBSET (Msg \X Nat)
    BY DEF Pass
  <2>2. Rest(d, pass[d].todo \ {x}) \in Pass
    BY <2>1, RestType
  <2>3. pass' \in [Drainer -> Pass]
    <3>1. pass[d] \in Pass
      OBVIOUS
    <3>2. \A pc \in {"wire", "stamp"} : [pass[d] EXCEPT !.pc = pc] \in Pass
      BY <3>1 DEF Pass
    <3> QED BY <1>7, <2>2, <3>2 DEF Defer, Gate, Accept, Stamp, Exhaust, Moved
  <2>4. CASE Defer(d, x)
    BY <2>1, <2>3, <2>4 DEF Defer, ghosts, Status
  <2>5. CASE Gate(d, x)
    BY <2>1, <2>3, <2>5 DEF Gate, ghosts, Status
  <2>6. CASE Accept(d, x)
    BY <2>1, <2>3, <2>6 DEF Accept, rows
  <2>7. CASE Stamp(d, x)
    BY <2>1, <2>3, <2>7 DEF Stamp, ghosts, Status
  <2>8. CASE Exhaust(d, x)
    BY <2>1, <2>3, <2>8 DEF Exhaust, ghosts, Status
  <2> QED BY <1>7, <2>4, <2>5, <2>6, <2>7, <2>8
<1>8. ASSUME NEW d \in Drainer, Crash(d) PROVE TypeOK'
  BY <1>8 DEF Crash, Moved, Idle, Pass, rows
<1>9. CASE UNCHANGED vars
  BY <1>9 DEF vars, rows, ghosts
<1> QED
  BY <1>1, <1>2, <1>3, <1>4, <1>5, <1>6, <1>7, <1>8, <1>9 DEF Next, Drain, Handle

-----------------------------------------------------------------------------
(* The parts of the invariant, one after the other. Only StartDrain wakes a
   drainer; every other step of a pass belongs to one that is busy. *)

PassStep(d) == \/ Requeue(d) \/ FindQueued(d) \/ Claim(d) \/ ReadClaimed(d)
               \/ Handle(d) \/ Crash(d)

LEMMA BusyStep ==
    ASSUME TypeOK, NEW d \in Drainer, PassStep(d)
    PROVE  /\ pass[d] # Idle
           /\ \A e \in Drainer \ {d} : pass'[e] = pass[e]
           /\ overlap' = overlap
BY IdleType DEF PassStep, Requeue, FindQueued, Claim, ReadClaimed, Handle, Crash, Defer, Gate,
   Accept, Stamp, Exhaust, Moved, TypeOK, ghosts

LEMMA OneBusyStep == TypeOK /\ OneBusy /\ [Next]_vars => OneBusy'
<1> SUFFICES ASSUME TypeOK, OneBusy, [Next]_vars PROVE OneBusy'
  OBVIOUS
<1>1. CASE Around \/ UNCHANGED vars
  BY <1>1 DEF Around, Queue, BackoffOver, Receipt, Clock, ghosts, vars, OneBusy
<1>2. ASSUME NEW d \in Drainer, NEW urgent \in BOOLEAN, StartDrain(d, urgent) PROVE OneBusy'
  BY <1>2 DEF StartDrain, Moved, OneBusy, TypeOK
<1>3. ASSUME NEW d \in Drainer, PassStep(d) PROVE OneBusy'
  BY <1>3, BusyStep DEF OneBusy
<1> QED BY <1>1, <1>2, <1>3 DEF Next, Drain, PassStep

LEMMA ReadOnceStep == TypeOK /\ ReadOnce /\ [Next]_vars => ReadOnce'
<1> SUFFICES ASSUME TypeOK, ReadOnce, [Next]_vars PROVE ReadOnce'
  OBVIOUS
<1>1. CASE Around \/ UNCHANGED vars
  BY <1>1 DEF Around, Queue, BackoffOver, Receipt, Clock, vars, ReadOnce
<1>2. ASSUME NEW d \in Drainer, NEW urgent \in BOOLEAN, StartDrain(d, urgent) PROVE ReadOnce'
  BY <1>2, IdleType DEF StartDrain, Moved, ReadOnce, TypeOK, Idle
<1>3. ASSUME NEW d \in Drainer, ReadClaimed(d) PROVE ReadOnce'
  <2>1. pass[d] \in Pass /\ \A p : Moved(d, p) => pass'[d] = p
    BY DEF TypeOK, Moved
  <2>2. /\ \A x, y \in pass'[d].todo : x[1] = y[1] => x = y
        /\ pass'[d].pc \in {"row", "wire", "stamp"} \/ pass'[d].todo = {}
    <3> DEFINE todo == {<<m, attempts[m]>> : m \in {n \in pass[d].ids : status[n] = "SENDING"}}
    <3>1. \A x, y \in todo : x[1] = y[1] => x = y
      OBVIOUS
    <3>2. pass'[d] = Rest(d, todo)
      BY <1>3, <2>1 DEF ReadClaimed
    <3> HIDE DEF todo
    <3>3. Rest(d, todo).todo = todo /\ (Rest(d, todo).pc = "row" \/ todo = {})
      BY <2>1, IdleType DEF Rest, Pass
    <3> QED BY <3>1, <3>2, <3>3
  <2> QED BY <1>3, <2>2, BusyStep DEF ReadOnce, PassStep
<1>4. ASSUME NEW d \in Drainer, PassStep(d), ~ReadClaimed(d) PROVE ReadOnce'
  <2>1. /\ pass'[d].todo \subseteq pass[d].todo
        /\ pass'[d].pc \in {"row", "wire", "stamp"} \/ pass'[d].todo = {}
    <3>1. pass[d] \in Pass /\ \A p : Moved(d, p) => pass'[d] = p
      BY DEF TypeOK, Moved
    <3>2. CASE Requeue(d) \/ FindQueued(d) \/ Claim(d) \/ Crash(d)
      <4>1. CASE Requeue(d)
        <5>1. pass'[d] = [pass[d] EXCEPT !.pc = "find", !.ids = {}] /\ pass[d].pc = "requeue"
          BY <3>1, <4>1 DEF Requeue
        <5>2. pass'[d].todo = pass[d].todo
          BY <3>1, <5>1 DEF Pass
        <5>3. pass[d].todo = {}
          BY <5>1 DEF ReadOnce
        <5> QED BY <5>2, <5>3
      <4>2. CASE FindQueued(d)
        BY <3>1, <4>2, IdleType DEF FindQueued, Pass, ReadOnce
      <4>3. CASE Claim(d)
        BY <3>1, <4>3 DEF Claim, Pass, ReadOnce
      <4>4. CASE Crash(d)
        BY <3>1, <4>4, IdleType DEF Crash
      <4> QED BY <3>2, <4>1, <4>2, <4>3, <4>4
    <3>3. ASSUME NEW x \in pass[d].todo,
                 Defer(d, x) \/ Gate(d, x) \/ Accept(d, x) \/ Stamp(d, x) \/ Exhaust(d, x)
          PROVE  /\ pass'[d].todo \subseteq pass[d].todo
                 /\ pass'[d].pc \in {"row", "wire", "stamp"} \/ pass'[d].todo = {}
      <4>1. /\ Rest(d, pass[d].todo \ {x}).todo = pass[d].todo \ {x}
            /\ \/ Rest(d, pass[d].todo \ {x}).pc = "row"
               \/ Rest(d, pass[d].todo \ {x}).todo = {}
        BY <3>1, IdleType DEF Rest, Pass
      <4> QED BY <3>1, <3>3, <4>1 DEF Defer, Gate, Accept, Stamp, Exhaust, Pass
    <3> QED BY <1>4, <3>2, <3>3 DEF PassStep, Handle
  <2> QED BY <2>1, <1>4, BusyStep DEF ReadOnce
<1> QED BY <1>1, <1>2, <1>3, <1>4 DEF Next, Drain, PassStep

\* What a pass does with the row in hand, besides that row's columns.
RowStep(d, x) == Defer(d, x) \/ Gate(d, x) \/ Accept(d, x) \/ Stamp(d, x) \/ Exhaust(d, x)

LEMMA RowStepPass ==
    ASSUME TypeOK, NEW d \in Drainer, NEW x \in pass[d].todo, RowStep(d, x)
    PROVE  /\ x \in Msg \X Nat /\ InHand(d, x)
           /\ pass'[d].todo \subseteq pass[d].todo
           /\ pass[d].todo \ {x} \subseteq pass'[d].todo
           /\ pass'[d].pc \in {"idle", "row", "wire", "stamp"}
           /\ pass'[d].pc = "stamp" => Accept(d, x) /\ pass'[d].todo = pass[d].todo
           /\ x \in pass'[d].todo => Gate(d, x) \/ Accept(d, x)
           /\ crashes' = crashes
<1>1. pass[d] \in Pass /\ \A p : Moved(d, p) => pass'[d] = p
  BY DEF TypeOK, Moved
<1>2. /\ Rest(d, pass[d].todo \ {x}).todo = pass[d].todo \ {x}
      /\ Rest(d, pass[d].todo \ {x}).pc \in {"idle", "row"}
  BY <1>1, IdleType DEF Rest, Pass
<1>3. x \in Msg \X Nat
  BY <1>1 DEF Pass
<1>4. CASE Defer(d, x) \/ Stamp(d, x) \/ Exhaust(d, x)
  BY <1>1, <1>2, <1>3, <1>4 DEF Defer, Stamp, Exhaust, ghosts
<1>5. CASE Gate(d, x)
  BY <1>1, <1>2, <1>3, <1>5 DEF Gate, ghosts, Pass
<1>6. CASE Accept(d, x)
  BY <1>1, <1>3, <1>6 DEF Accept, Pass
<1> QED BY <1>4, <1>5, <1>6 DEF RowStep

LEMMA EarnedStep == TypeOK /\ Earned /\ [Next]_vars => Earned'
<1> SUFFICES ASSUME TypeOK, Earned, [Next]_vars PROVE Earned'
  OBVIOUS
<1>1. CASE Around \/ UNCHANGED vars
  <2>1. \A m \in Msg : status'[m] \in Out \/ stamped'[m] => accepted'[m] > 0
    BY <1>1 DEF Around, Queue, BackoffOver, Receipt, Clock, vars, ghosts, rows, Earned, TypeOK, Out
  <2>2. pass' = pass /\ accepted' = accepted
    BY <1>1 DEF Around, Queue, BackoffOver, Receipt, Clock, vars, ghosts
  <2> QED BY <2>1, <2>2 DEF Earned, InHand
<1>2. ASSUME NEW d \in Drainer, NEW urgent \in BOOLEAN, StartDrain(d, urgent) PROVE Earned'
  <2>1. /\ pass'[d].pc = "requeue"
        /\ \A e \in Drainer \ {d} : pass'[e] = pass[e]
    BY <1>2, IdleType DEF StartDrain, Moved, TypeOK, Pass
  <2> QED BY <1>2, <2>1 DEF StartDrain, rows, Earned, InHand
<1>3. ASSUME NEW d \in Drainer, PassStep(d), ~Handle(d) PROVE Earned'
  <2>1. pass[d] \in Pass /\ \A p : Moved(d, p) => pass'[d] = p
    BY DEF TypeOK, Moved
  <2>2. pass'[d].pc # "stamp"
    BY <1>3, <2>1, IdleType DEF PassStep, Requeue, FindQueued, Claim, ReadClaimed, Crash, Rest, Pass
  <2>3. \A m \in Msg : status'[m] \in Out \/ stamped'[m] => accepted'[m] > 0
    BY <1>3 DEF PassStep, Requeue, FindQueued, Claim, ReadClaimed, Crash, Earned, TypeOK, Out,
       rows, ghosts
  <2>4. accepted' = accepted
    BY <1>3 DEF PassStep, Requeue, FindQueued, Claim, ReadClaimed, Crash, ghosts
  <2> QED BY <1>3, <2>2, <2>3, <2>4, BusyStep DEF Earned, InHand
<1>4. ASSUME NEW d \in Drainer, NEW x \in pass[d].todo, RowStep(d, x) PROVE Earned'
  <2>1. \A m \in Msg : accepted'[m] >= accepted[m]
    BY <1>4 DEF RowStep, Defer, Gate, Accept, Stamp, Exhaust, ghosts, TypeOK
  <2>2. Handle(d) /\ x \in Msg \X Nat /\ InHand(d, x)
    BY <1>4, RowStepPass DEF RowStep, Handle
  <2>3. Stamp(d, x) => accepted[x[1]] > 0
    BY <2>2 DEF Stamp, Earned
  <2>4. \A m \in Msg : status'[m] \in Out \/ stamped'[m] => accepted'[m] > 0
    BY <1>4, <2>1, <2>2, <2>3 DEF RowStep, Defer, Gate, Accept, Stamp, Exhaust, Earned, TypeOK, Out,
       ghosts, rows
  <2>5. ASSUME pass'[d].pc = "stamp", NEW y \in pass'[d].todo, InHand(d, y)'
        PROVE  accepted'[y[1]] > 0
    <3>1. Accept(d, x) /\ pass'[d].todo = pass[d].todo
      BY <1>4, <2>5, RowStepPass
    <3>2. y[1] = x[1]
      BY <2>2, <2>5, <3>1 DEF InHand, TypeOK, Pass, Msg
    <3> QED BY <2>2, <3>1, <3>2 DEF Accept, TypeOK
  <2>6. ASSUME NEW e \in Drainer \ {d}, pass'[e].pc = "stamp", NEW y \in pass'[e].todo, InHand(e, y)'
        PROVE  accepted'[y[1]] > 0
    <3>1. pass'[e] = pass[e]
      BY <2>2, BusyStep DEF PassStep
    <3>2. y[1] \in Msg
      BY <3>1, <2>6 DEF TypeOK, Pass
    <3>3. accepted[y[1]] > 0
      BY <2>6, <3>1 DEF Earned, InHand
    <3>4. accepted'[y[1]] \in 0 .. 2 /\ accepted[y[1]] \in 0 .. 2
      BY <3>2, TypeStep DEF TypeOK
    <3> QED BY <2>1, <3>2, <3>3, <3>4
  <2> QED BY <2>4, <2>5, <2>6 DEF Earned
<1> QED BY <1>1, <1>2, <1>3, <1>4 DEF Next, Drain, PassStep, Handle, RowStep

LEMMA GivenUpStep == TypeOK /\ GivenUp /\ [Next]_vars => GivenUp'
<1> SUFFICES ASSUME TypeOK, GivenUp, [Next]_vars PROVE GivenUp'
  OBVIOUS
<1>1. CASE Around \/ UNCHANGED vars
  BY <1>1 DEF Around, Queue, BackoffOver, Receipt, Clock, vars, ghosts, rows, GivenUp, TypeOK,
     DispatcherAssumption
<1>2. ASSUME NEW d \in Drainer, NEW urgent \in BOOLEAN, StartDrain(d, urgent) PROVE GivenUp'
  BY <1>2 DEF StartDrain, rows, GivenUp
<1>3. ASSUME NEW d \in Drainer, PassStep(d), ~Handle(d) PROVE GivenUp'
  BY <1>3 DEF PassStep, Requeue, FindQueued, Claim, ReadClaimed, Crash, rows, GivenUp, TypeOK
<1>4. ASSUME NEW d \in Drainer, NEW x \in pass[d].todo, RowStep(d, x) PROVE GivenUp'
  <2>1. x \in Msg \X Nat
    BY <1>4, RowStepPass
  <2>2. CASE Exhaust(d, x)
    BY <2>1, <2>2 DEF Exhaust, GivenUp, TypeOK, DispatcherAssumption
  <2>3. CASE ~Exhaust(d, x)
    BY <1>4, <2>1, <2>3 DEF RowStep, Defer, Gate, Accept, Stamp, rows, GivenUp, TypeOK
  <2> QED BY <2>2, <2>3
<1> QED BY <1>1, <1>2, <1>3, <1>4 DEF Next, Drain, PassStep, Handle, RowStep

LEMMA ClaimedIsHeldStep == TypeOK /\ ReadOnce /\ ClaimedIsHeld /\ [Next]_vars => ClaimedIsHeld'
<1> SUFFICES ASSUME TypeOK, ReadOnce, ClaimedIsHeld, [Next]_vars,
                    crashes' = 0, NEW m \in Msg, status'[m] = "SENDING"
             PROVE  Held(m)'
  BY DEF ClaimedIsHeld
<1>1. CASE Around \/ UNCHANGED vars
  <2>1. status[m] = "SENDING" /\ crashes = 0
    BY <1>1 DEF Around, Queue, BackoffOver, Receipt, Clock, vars, ghosts, rows, TypeOK,
       DispatcherAssumption
  <2>2. pass' = pass
    BY <1>1 DEF Around, Queue, BackoffOver, Receipt, Clock, vars
  <2> QED BY <2>1, <2>2 DEF ClaimedIsHeld, Held
<1>2. ASSUME NEW d \in Drainer, NEW urgent \in BOOLEAN, StartDrain(d, urgent) PROVE Held(m)'
  <2>1. Held(m)
    BY <1>2 DEF StartDrain, rows, ClaimedIsHeld
  <2>2. pass[d].pc = "idle" /\ pass[d].todo = {} /\ \A e \in Drainer \ {d} : pass'[e] = pass[e]
    BY <1>2, IdleType DEF StartDrain, Moved, TypeOK
  <2> QED BY <2>1, <2>2 DEF Held
<1>3. ASSUME NEW d \in Drainer, Crash(d) PROVE Held(m)'
  BY <1>3 DEF Crash, TypeOK
<1>4. ASSUME NEW d \in Drainer, Requeue(d) \/ FindQueued(d) PROVE Held(m)'
  <2>1. Held(m)
    BY <1>4 DEF Requeue, FindQueued, rows, ghosts, ClaimedIsHeld, TypeOK
  <2>2. pass[d].pc # "read" /\ pass[d].todo = {}
    BY <1>4 DEF Requeue, FindQueued, ReadOnce
  <2> QED BY <1>4, <2>1, <2>2, BusyStep DEF Held, PassStep
<1>5. ASSUME NEW d \in Drainer, Claim(d) PROVE Held(m)'
  <2>1. pass'[d].pc = "read" /\ pass'[d].ids = pass[d].ids /\ pass[d].todo = {}
    BY <1>5 DEF Claim, Moved, TypeOK, Pass, ReadOnce
  <2>2. m \in pass[d].ids \/ Held(m)
    BY <1>5 DEF Claim, ghosts, ClaimedIsHeld, TypeOK
  <2>3. CASE m \in pass[d].ids
    BY <2>1, <2>3 DEF Held
  <2>4. CASE Held(m)
    BY <1>5, <2>1, <2>4, BusyStep DEF Held, PassStep, Claim
  <2> QED BY <2>2, <2>3, <2>4
<1>6. ASSUME NEW d \in Drainer, ReadClaimed(d) PROVE Held(m)'
  <2>1. Held(m) /\ status[m] = "SENDING" /\ pass[d].todo = {}
    BY <1>6 DEF ReadClaimed, rows, ghosts, ClaimedIsHeld, ReadOnce
  <2>2. CASE m \in pass[d].ids
    <3> DEFINE todo == {<<n, attempts[n]>> : n \in {k \in pass[d].ids : status[k] = "SENDING"}}
    <3>1. <<m, attempts[m]>> \in todo
      BY <2>1, <2>2
    <3>2. pass'[d] = Rest(d, todo) /\ todo # {}
      BY <1>6, <3>1 DEF ReadClaimed, Moved, TypeOK
    <3>3. pass'[d].todo = todo
      BY <3>2 DEF Rest, TypeOK, Pass
    <3>4. <<m, attempts[m]>> \in pass'[d].todo
      BY <3>1, <3>3
    <3> QED BY <3>4 DEF Held
  <2>3. CASE m \notin pass[d].ids
    BY <1>6, <2>1, <2>3, BusyStep DEF Held, PassStep
  <2> QED BY <2>2, <2>3
<1>7. ASSUME NEW d \in Drainer, NEW x \in pass[d].todo, RowStep(d, x) PROVE Held(m)'
  <2>1. status[m] = "SENDING" /\ crashes = 0 /\ (m = x[1] => x \in pass'[d].todo)
    <3>1. /\ x \in Msg \X Nat /\ crashes' = crashes
          /\ pass[d].todo \ {x} \subseteq pass'[d].todo
      BY <1>7, RowStepPass
    <3>2. CASE m = x[1] /\ Gate(d, x)
      <4>1. pass'[d] = [pass[d] EXCEPT !.pc = "wire"] /\ UNCHANGED status
        BY <1>7, <3>1, <3>2 DEF Gate, Moved, TypeOK
      <4> QED BY <3>1, <4>1 DEF TypeOK, Pass
    <3>3. CASE m = x[1] /\ Accept(d, x)
      BY <3>1, <3>3 DEF Accept, Moved, rows, TypeOK, Pass
    <3>4. CASE m = x[1] /\ ~Gate(d, x) /\ ~Accept(d, x)
      BY <1>7, <3>1, <3>4 DEF RowStep, Defer, Stamp, Exhaust, TypeOK
    <3>5. CASE m # x[1]
      BY <1>7, <3>1, <3>5 DEF RowStep, Defer, Gate, Accept, Stamp, Exhaust, rows, TypeOK
    <3> QED BY <3>2, <3>3, <3>4, <3>5
  <2>2. Held(m)
    BY <2>1 DEF ClaimedIsHeld
  <2>3. PICK e \in Drainer : \/ pass[e].pc = "read" /\ m \in pass[e].ids
                             \/ \E y \in pass[e].todo : y[1] = m
    BY <2>2 DEF Held
  <2>4. CASE e = d
    <3>1. pass[d].pc # "read"
      BY <1>7 DEF RowStep, Defer, Gate, Accept, Stamp, Exhaust
    <3>2. PICK y \in pass[d].todo : y[1] = m
      BY <2>3, <2>4, <3>1
    <3>3. y \in pass'[d].todo
      BY <1>7, <2>1, <3>2, RowStepPass
    <3> QED BY <3>2, <3>3 DEF Held
  <2>5. CASE e # d
    BY <1>7, <2>3, <2>5, BusyStep DEF Held, PassStep, Handle, RowStep
  <2> QED BY <2>4, <2>5
<1> QED BY <1>1, <1>2, <1>3, <1>4, <1>5, <1>6, <1>7 DEF Next, Drain, Handle, RowStep

\* From here on passes have not overlapped yet, and no receipt says QUEUED.
LEMMA TakenForGoodStep ==
    ASSUME NoQueuedReceipt, TypeOK, Earned, TakenForGood, AllFresh, [Next]_vars
    PROVE  TakenForGood'
<1> SUFFICES ASSUME ~overlap', NEW m \in Msg, accepted'[m] > 0
             PROVE  Taken(m)'
  BY DEF TakenForGood
<1> USE DEF Taken, Out
<1>1. CASE Around \/ UNCHANGED vars
  <2>1. ~overlap /\ accepted' = accepted
    BY <1>1 DEF Around, Queue, BackoffOver, Receipt, Clock, vars, ghosts
  <2>2. Taken(m)
    BY <2>1 DEF TakenForGood
  <2> QED
    BY <1>1, <2>1, <2>2 DEF Around, Queue, BackoffOver, Receipt, Clock, vars, ghosts, rows, TypeOK,
       NoQueuedReceipt, DispatcherAssumption
<1>2. ASSUME NEW d \in Drainer, NEW urgent \in BOOLEAN, StartDrain(d, urgent) PROVE Taken(m)'
  BY <1>2 DEF StartDrain, rows, TakenForGood, TypeOK
<1>3. ASSUME NEW d \in Drainer, PassStep(d), ~Handle(d) PROVE Taken(m)'
  <2>1. ~overlap /\ accepted' = accepted
    BY <1>3 DEF PassStep, Requeue, FindQueued, Claim, ReadClaimed, Crash, ghosts
  <2>2. Taken(m)
    BY <2>1 DEF TakenForGood
  <2>3. m \notin pass[d].ids \/ ~Requeue(d)
    BY <2>1, <2>2 DEF Requeue, AllFresh, Fresh
  <2> QED
    BY <1>3, <2>2, <2>1, <2>3 DEF PassStep, Requeue, FindQueued, Claim, ReadClaimed, Crash, rows, TypeOK
<1>4. ASSUME NEW d \in Drainer, NEW x \in pass[d].todo, RowStep(d, x) PROVE Taken(m)'
  <2>1. ~overlap /\ x \in Msg \X Nat /\ InHand(d, x)
    BY <1>4, RowStepPass, BusyStep DEF RowStep, PassStep, Handle
  <2>2. status[x[1]] = "SENDING" /\ (pass[d].pc # "stamp" => accepted[x[1]] = 0)
    BY <2>1 DEF AllFresh, Fresh, TypeOK
  <2>3. CASE m # x[1]
    <3>1. Taken(m)
      BY <1>4, <2>1, <2>3 DEF RowStep, Defer, Gate, Accept, Stamp, Exhaust, ghosts, TakenForGood, TypeOK
    <3> QED
      BY <1>4, <2>1, <2>3, <3>1
      DEF RowStep, Defer, Gate, Accept, Stamp, Exhaust, ghosts, rows, TypeOK
  <2>4. CASE m = x[1] /\ Accept(d, x)
    <3>1. accepted[m] = 0 /\ ~stamped[m]
      BY <2>2, <2>4 DEF Accept, Earned, TypeOK
    <3> QED BY <2>1, <2>2, <2>4, <3>1 DEF Accept, rows, TypeOK
  <2>5. CASE m = x[1] /\ Stamp(d, x)
    <3>1. accepted'[m] = accepted[m] /\ Taken(m)
      BY <2>1, <2>5 DEF Stamp, ghosts, TakenForGood
    <3> QED BY <2>1, <2>5, <3>1 DEF Stamp, TypeOK
  <2>6. CASE m = x[1] /\ (Defer(d, x) \/ Gate(d, x) \/ Exhaust(d, x))
    <3>1. accepted'[m] = 0
      BY <2>2, <2>6 DEF Defer, Gate, Exhaust, ghosts
    <3> QED BY <3>1
  <2> QED BY <1>4, <2>3, <2>4, <2>5, <2>6 DEF RowStep
<1> QED BY <1>1, <1>2, <1>3, <1>4 DEF Next, Drain, PassStep, Handle, RowStep

LEMMA AllFreshStep ==
    ASSUME NoQueuedReceipt, TypeOK, OneBusy, ReadOnce, Earned, TakenForGood, AllFresh, [Next]_vars
    PROVE  AllFresh'
<1> SUFFICES ASSUME ~overlap', NEW e \in Drainer
             PROVE  Fresh(e)'
  BY DEF AllFresh
<1> USE DEF Fresh
<1>1. CASE Around \/ UNCHANGED vars
  <2>1. ~overlap /\ accepted' = accepted /\ pass' = pass
    BY <1>1 DEF Around, Queue, BackoffOver, Receipt, Clock, vars, ghosts
  <2>2. Fresh(e) /\ pass[e].todo \in SUBSET (Msg \X Nat)
    BY <2>1 DEF AllFresh, TypeOK, Pass
  <2>3. \A n \in Msg : status[n] = "SENDING" => status'[n] = "SENDING" \/ stamped[n]
    BY <1>1 DEF Around, Queue, BackoffOver, Receipt, Clock, vars, rows, TypeOK
  <2>4. \A n \in Msg : stamped[n] => status[n] # "SENDING"
    BY <2>1 DEF Earned, TakenForGood, Taken, Out
  <2> QED BY <2>1, <2>2, <2>3, <2>4 DEF InHand
<1>2. ASSUME NEW d \in Drainer, NEW urgent \in BOOLEAN, StartDrain(d, urgent) PROVE Fresh(e)'
  <2>1. PICK ids \in Batches(Retryable) :
           Moved(d, [Idle EXCEPT !.pc = "requeue", !.ids = ids, !.wait = quiet /\ ~urgent])
    BY <1>2 DEF StartDrain
  <2>2. ~overlap /\ status' = status /\ accepted' = accepted
    BY <1>2 DEF StartDrain, rows
  <2>3. \A n \in Retryable : n \in Msg /\ accepted[n] = 0
    BY <2>2 DEF Retryable, TakenForGood, Taken, TypeOK
  <2>4. pass'[d].pc = "requeue" /\ pass'[d].ids = ids /\ pass'[d].todo = {}
    BY <2>1, IdleType DEF Moved, TypeOK, Pass
  <2>5. CASE e = d
    BY <2>2, <2>3, <2>4, <2>5 DEF Batches
  <2>6. CASE e # d
    BY <2>1, <2>2, <2>6 DEF AllFresh, InHand, Moved, TypeOK
  <2> QED BY <2>5, <2>6
<1>3. ASSUME NEW d \in Drainer, PassStep(d) PROVE Fresh(e)'
  <2>1. pass[d] # Idle /\ \A f \in Drainer \ {d} : pass'[f] = pass[f]
    BY <1>3, BusyStep
  <2>2. ~overlap
    BY <1>3, BusyStep
  <2>3. CASE e # d
    <3>1. pass'[e] = Idle
      BY <2>1, <2>2, <2>3 DEF OneBusy
    <3> QED BY <3>1, IdleType
  <2>4. CASE e = d /\ ~Handle(d)
    <3>1. pass[d] \in Pass /\ \A p : Moved(d, p) => pass'[d] = p
      BY DEF TypeOK, Moved
    <3>2. accepted' = accepted
      BY <1>3, <2>4 DEF PassStep, Requeue, FindQueued, Claim, ReadClaimed, Crash, ghosts
    <3>3. CASE Requeue(d)
      <4>1. pass'[d].pc = "find" /\ pass'[d].todo = {}
        <5>1. pass[d].todo = {}
          BY <3>3 DEF Requeue, ReadOnce
        <5>2. pass'[d] = [pass[d] EXCEPT !.pc = "find", !.ids = {}]
          BY <3>1, <3>3 DEF Requeue
        <5> QED BY <3>1, <5>1, <5>2 DEF Pass
      <4> QED BY <2>4, <4>1
    <3>4. CASE FindQueued(d)
      <4>1. \A n \in Msg : status[n] = "QUEUED" => accepted[n] = 0
        BY <2>2 DEF TakenForGood, Taken, Out, TypeOK
      <4>2. pass'[d].todo = {}
        BY <3>1, <3>4, IdleType DEF FindQueued, Pass, ReadOnce
      <4>3. pass'[d].pc = "idle" \/ pass'[d].ids \subseteq {n \in Msg : status[n] = "QUEUED"}
        <5> DEFINE queued == {n \in Msg : status[n] = "QUEUED"}
        <5>1. Oldest(queued) \subseteq queued
          BY DEF Oldest
        <5>2. pass'[d] = Idle \/ pass'[d] = [pass[d] EXCEPT !.pc = "claim", !.ids = Oldest(queued)]
          BY <3>1, <3>4 DEF FindQueued
        <5> HIDE DEF queued
        <5>3. pass'[d].pc = "idle" \/ pass'[d].ids = Oldest(queued)
          BY <3>1, <5>2, IdleType DEF Pass
        <5> QED BY <5>1, <5>3 DEF queued
      <4>4. pass'[d].pc \in {"idle", "claim"}
        BY <3>1, <3>4, IdleType DEF FindQueued, Pass
      <4> QED BY <2>4, <3>2, <4>1, <4>2, <4>3, <4>4
    <3>5. CASE Claim(d)
      <4>1. pass'[d].pc = "read" /\ pass'[d].ids = pass[d].ids /\ pass'[d].todo = {}
        BY <3>1, <3>5 DEF Claim, Pass, ReadOnce
      <4> QED BY <2>2, <2>4, <3>2, <3>5, <4>1 DEF Claim, AllFresh
    <3>6. CASE ReadClaimed(d)
      <4> DEFINE todo == {<<n, attempts[n]>> : n \in {k \in pass[d].ids : status[k] = "SENDING"}}
      <4>1. \A n \in pass[d].ids : accepted[n] = 0
        BY <2>2, <3>6 DEF ReadClaimed, AllFresh
      <4>2. \A y \in todo : status[y[1]] = "SENDING" /\ accepted[y[1]] = 0
        BY <4>1
      <4>3. pass'[d] = Rest(d, todo) /\ status' = status
        BY <3>1, <3>6 DEF ReadClaimed, rows
      <4> HIDE DEF todo
      <4>4. Rest(d, todo).todo = todo /\ Rest(d, todo).pc \in {"idle", "row"}
        BY <3>1, IdleType DEF Rest, Pass
      <4> QED BY <2>4, <3>2, <4>2, <4>3, <4>4
    <3>7. CASE Crash(d)
      BY <2>4, <3>1, <3>7, IdleType DEF Crash
    <3> QED BY <1>3, <2>4, <3>3, <3>4, <3>5, <3>6, <3>7 DEF PassStep
  <2>5. CASE e = d /\ Handle(d)
    <3>1. PICK x \in pass[d].todo : RowStep(d, x)
      BY <2>5 DEF Handle, RowStep
    <3>2. /\ x \in Msg \X Nat /\ InHand(d, x)
          /\ pass'[d].todo \subseteq pass[d].todo
          /\ pass'[d].pc \in {"idle", "row", "wire", "stamp"}
          /\ pass'[d].pc = "stamp" => Accept(d, x) /\ pass'[d].todo = pass[d].todo
          /\ x \in pass'[d].todo => Gate(d, x) \/ Accept(d, x)
      BY <3>1, RowStepPass
    <3>3. ASSUME NEW y \in pass'[d].todo, y # x
          PROVE  status'[y[1]] = "SENDING" /\ accepted'[y[1]] = 0
      <4>1. y \in pass[d].todo /\ y[1] # x[1] /\ y \in Msg \X Nat
        BY <3>2, <3>3 DEF ReadOnce, TypeOK, Pass
      <4>2. ~InHand(d, y)
        BY <3>2, <4>1 DEF InHand, Msg
      <4>3. status[y[1]] = "SENDING" /\ accepted[y[1]] = 0
        BY <2>2, <4>1, <4>2 DEF AllFresh, TypeOK
      <4> QED
        BY <3>1, <3>2, <4>1, <4>3
        DEF RowStep, Defer, Gate, Accept, Stamp, Exhaust, rows, ghosts, TypeOK
    <3>4. ASSUME x \in pass'[d].todo
          PROVE  /\ status'[x[1]] = "SENDING"
                 /\ accepted'[x[1]] > 0 => pass'[d].pc = "stamp" /\ InHand(d, x)'
      <4>1. status[x[1]] = "SENDING" /\ (pass[d].pc # "stamp" => ~(accepted[x[1]] > 0))
        BY <2>2 DEF AllFresh
      <4>2. CASE Accept(d, x)
        BY <3>2, <3>4, <4>1, <4>2 DEF Accept, Moved, InHand, rows, TypeOK, Pass
      <4>3. CASE Gate(d, x)
        <5>1. pass'[d] # Rest(d, pass[d].todo \ {x})
          <6>1. pass[d] \in Pass
            BY DEF TypeOK
          <6>2. Rest(d, pass[d].todo \ {x}).todo = pass[d].todo \ {x}
            BY <6>1, IdleType DEF Rest, Pass
          <6> QED BY <3>4, <6>2
        <5>2. status' = status /\ accepted' = accepted /\ pass[d].pc = "row"
          BY <4>3, <5>1 DEF Gate, Moved, ghosts, TypeOK
        <5> QED BY <4>1, <5>2
      <4> QED BY <3>2, <3>4, <4>2, <4>3
    <3> QED BY <2>5, <3>2, <3>3, <3>4
  <2> QED BY <2>3, <2>4, <2>5
<1> QED BY <1>1, <1>2, <1>3 DEF Next, Drain, PassStep

-----------------------------------------------------------------------------
(* The theorems *)

LEMMA InvariantInit == Init => IInv
<1> SUFFICES ASSUME Init PROVE IInv
  OBVIOUS
<1>1. \A d \in Drainer : pass[d] = Idle
  BY DEF Init
<1>2. OneBusy /\ TakenForGood
  BY <1>1 DEF Init, OneBusy, TakenForGood
<1>3. ReadOnce /\ AllFresh
  BY <1>1, IdleType DEF ReadOnce, AllFresh, Fresh
<1>4. Earned
  BY <1>1, IdleType, Zenon DEF Init, Earned, Out
<1>5. GivenUp /\ ClaimedIsHeld
  BY DEF Init, GivenUp, ClaimedIsHeld
<1> QED BY <1>2, <1>3, <1>4, <1>5, TypeInit DEF IInv

LEMMA InvariantStep == ASSUME NoQueuedReceipt PROVE IInv /\ [Next]_vars => IInv'
BY TypeStep, OneBusyStep, ReadOnceStep, EarnedStep, GivenUpStep, TakenForGoodStep, AllFreshStep,
   ClaimedIsHeldStep DEF IInv

\* The inductive invariant of the dispatcher: what the rows, the passes and the
\* providers' answers have to do with each other (communication-service
\* dispatcher.ts).
THEOREM DispatcherInvariant == ASSUME NoQueuedReceipt PROVE Spec => []IInv
BY InvariantInit, InvariantStep, PTL DEF Spec

\* While passes do not overlap, no provider takes a message twice, over
\* retries, crashes and the receipts that come in between.
THEOREM SentOnceAloneHolds == ASSUME NoQueuedReceipt PROVE Spec => []SentOnceAlone
<1>1. IInv => SentOnceAlone
  BY DEF IInv, TakenForGood, Taken, SentOnceAlone, SentOnce, TypeOK
<1> QED BY <1>1, DispatcherInvariant, PTL

\* A row's status is the truth about its message, also while passes overlap:
\* what shows as sent was taken, what was given up was tried MAX_ATTEMPTS times,
\* what is SENDING is in the hands of a pass unless one died.
THEOREM StatusTellsFateHolds == ASSUME NoQueuedReceipt PROVE Spec => []StatusTellsFate
<1>1. IInv => StatusTellsFate
  <2> SUFFICES ASSUME IInv, NEW m \in Msg
               PROVE  /\ status[m] \in Out => accepted[m] > 0
                      /\ status[m] = "DEAD_LETTERED" =>
                            attempts[m] >= MaxAttempts /\ (overlap \/ accepted[m] = 0)
                      /\ status[m] = "SENDING" /\ crashes = 0 => Held(m)
    BY DEF StatusTellsFate, Held
  <2>1. status[m] \in Out => accepted[m] > 0
    BY DEF IInv, Earned
  <2>2. status[m] = "DEAD_LETTERED" => overlap \/ accepted[m] = 0
    BY DEF IInv, TakenForGood, Taken, Out, TypeOK
  <2> QED BY <2>1, <2>2 DEF IInv, GivenUp, ClaimedIsHeld
<1> QED BY <1>1, DispatcherInvariant, PTL

-----------------------------------------------------------------------------
(* The scans: what a scan still has to queue is not in the log, unless two  *)
(* of its kind overlapped.                                                  *)

IsReading(s) ==
    \E kind \in Kind, via \in Channel : \E due \in SUBSET About[kind] :
        s = [pc |-> "read", kind |-> kind, via |-> via, due |-> due]

IsQueueing(s) ==
    \E kind \in Kind, via \in Channel : \E due \in SUBSET About[kind] : \E todo \in SUBSET due :
        s = [pc |-> "queue", kind |-> kind, via |-> via, due |-> due, todo |-> todo]

IsCircular(s) ==
    \/ \E b \in BOOLEAN : s = [pc |-> "rows", kind |-> "circular", staffOnly |-> b]
    \/ s = [pc |-> "announce", kind |-> "circular"]

ScanIs(s) == s = NoScan \/ IsReading(s) \/ IsQueueing(s) \/ IsCircular(s)

NoticesTypes ==
    /\ comms \subseteq Guardian
    /\ log \in [Notice -> Nat]
    /\ DOMAIN scan = Scanner
    /\ \A w \in Scanner : ScanIs(scan[w])

\* One scan of the kind at most is under way.
ScansAlone(kind) ==
    \A v, w \in Scanner :
        ~ScanAt(v, "idle") /\ ~ScanAt(w, "idle") /\ scan[v].kind = kind /\ scan[w].kind = kind
            => v = w

\* Nobody has a row about it that a scan of the kind would queue again.
Untold(kind, of, via) ==
    \A n \in Rows : n[1] = kind /\ n[2] = of =>
        kind = "absence" /\ (via = "PUSH" \/ n[4] # via \/ n[3] \notin Parents[of[2]])

TodoIsUntold(w) ==
    ScanAt(w, "queue") /\ scan[w].kind \notin together =>
        \A of \in scan[w].todo : Untold(scan[w].kind, of, scan[w].via)

NoticesInv ==
    /\ NoticesTypes
    /\ \A kind \in Kind \ together : ScansAlone(kind)
    /\ \A w \in Scanner : TodoIsUntold(w)
    /\ NoticesAreTold

LEMMA KindsOfNotice == DOMAIN About = Kind \cup {"circular"} /\ "circular" \notin Kind
  BY DEF About, Kind

LEMMA PartsOfNotice ==
    ASSUME NEW n \in Notice
    PROVE  /\ n = <<n[1], n[2], n[3], n[4]>>
           /\ n[1] \in DOMAIN About /\ n[2] \in About[n[1]]
           /\ n[3] \in Guardian /\ n[4] \in Channel
  <1>1. PICK kind \in DOMAIN About :
            n \in {<<kind, of, to, via>> : of \in About[kind], to \in Guardian, via \in Channel}
    BY DEF Notice
  <1>2. PICK of \in About[kind], to \in Guardian, via \in Channel : n = <<kind, of, to, via>>
    BY <1>1
  <1>3. n[1] = kind /\ n[2] = of /\ n[3] = to /\ n[4] = via
    BY <1>2
  <1> QED BY <1>2, <1>3

LEMMA NoticeOf ==
    ASSUME NEW kind \in DOMAIN About, NEW of \in About[kind],
           NEW to \in Guardian, NEW via \in Channel
    PROVE  /\ <<kind, of, to, via>> \in Notice
           /\ <<kind, of, to, via>>[1] = kind /\ <<kind, of, to, via>>[2] = of
           /\ <<kind, of, to, via>>[3] = to /\ <<kind, of, to, via>>[4] = via
  <1>1. <<kind, of, to, via>> \in
            {<<kind, o, t, v>> : o \in About[kind], t \in Guardian, v \in Channel}
    OBVIOUS
  <1> QED BY <1>1 DEF Notice

LEMMA CoveredStays ==
    ASSUME NEW kind, NEW of, NEW via, Rows \subseteq Rows', comms' = comms,
           Covered(kind, of, via)
    PROVE  Covered(kind, of, via)'
  BY DEF Covered, Reach

LEMMA StageOfScan ==
    ASSUME NEW s, ScanIs(s)
    PROVE  /\ s.pc = "read" => IsReading(s)
           /\ s.pc = "queue" => IsQueueing(s)
           /\ s.pc \in {"rows", "announce"} => s.kind = "circular"
  <1>1. NoScan.pc = "idle"
    BY DEF NoScan
  <1>2. ASSUME IsReading(s) PROVE s.pc = "read"
    BY <1>2 DEF IsReading
  <1>3. ASSUME IsQueueing(s) PROVE s.pc = "queue"
    BY <1>3 DEF IsQueueing
  <1>4. ASSUME IsCircular(s) PROVE s.pc \in {"rows", "announce"} /\ s.kind = "circular"
    BY <1>4 DEF IsCircular
  <1> QED BY <1>1, <1>2, <1>3, <1>4 DEF ScanIs

\* A step that leaves scans, rows and guardians alone.
LEMMA ScansUntouched ==
    ASSUME NoticesInv, UNCHANGED <<comms, log, scan, together>>
    PROVE  NoticesInv'
  <1>1. Rows' = Rows
    BY DEF Rows
  <1>2. NoticesTypes'
    BY DEF NoticesInv, NoticesTypes
  <1>3. \A kind \in (Kind \ together)' : ScansAlone(kind)'
    BY DEF NoticesInv, ScansAlone, ScanAt
  <1>4. \A w \in Scanner : TodoIsUntold(w)'
    BY <1>1 DEF NoticesInv, TodoIsUntold, Untold, ScanAt
  <1>5. ToldOnce'
    BY <1>1 DEF NoticesInv, NoticesAreTold, ToldOnce
  <1>6. ScanCovers'
    BY <1>1, CoveredStays DEF NoticesInv, NoticesAreTold, ScanCovers, ScanAt
  <1> QED BY <1>2, <1>3, <1>4, <1>5, <1>6 DEF NoticesInv, NoticesAreTold

\* A step of one scan that queues nothing.
LEMMA ScanGoesOn ==
    ASSUME NoticesInv, NEW w \in Scanner, NEW s, ScanIs(s), ScanBecomes(w, s),
           UNCHANGED <<comms, log>>, together \subseteq together',
           s.pc # "idle" => \/ s.kind \notin Kind \ together'
                            \/ ~ScanAt(w, "idle") /\ s.kind = scan[w].kind
                            \/ \A v \in Scanner \ {w} : ScanAt(v, "idle") \/ scan[v].kind # s.kind,
           s.pc = "queue" =>
               \A of \in s.due \ s.todo : Covered(s.kind, of, s.via),
           s.pc = "queue" /\ s.kind \notin together' =>
               \A of \in s.todo : Untold(s.kind, of, s.via)
    PROVE  NoticesInv'
  <1>1. Rows' = Rows
    BY DEF Rows
  <1>2. scan'[w] = s /\ \A v \in Scanner \ {w} : scan'[v] = scan[v]
    BY DEF ScanBecomes, NoticesInv, NoticesTypes
  <1>3. NoticesTypes'
    BY <1>2 DEF NoticesInv, NoticesTypes, ScanBecomes
  <1>4. ASSUME NEW kind \in (Kind \ together)' PROVE ScansAlone(kind)'
    <2>1. ScansAlone(kind)
      BY <1>4 DEF NoticesInv
    <2> QED BY <1>2, <1>4, <2>1 DEF ScansAlone, ScanAt
  <1>5. ASSUME NEW v \in Scanner PROVE TodoIsUntold(v)'
    <2>1. CASE v = w
      BY <1>1, <1>2, <2>1 DEF TodoIsUntold, Untold, ScanAt
    <2>2. CASE v # w
      <3>1. TodoIsUntold(v)
        BY DEF NoticesInv
      <3> QED BY <1>1, <1>2, <2>2, <3>1 DEF TodoIsUntold, Untold, ScanAt
    <2> QED BY <2>1, <2>2
  <1>6. ToldOnce'
    BY <1>1 DEF NoticesInv, NoticesAreTold, ToldOnce
  <1>7. ASSUME NEW v \in Scanner, ScanAt(v, "queue")',
               NEW of \in (scan[v].due \ scan[v].todo)'
        PROVE  Covered(scan[v].kind, of, scan[v].via)'
    <2>1. Covered(scan'[v].kind, of, scan'[v].via)
      <3>1. CASE v = w
        BY <1>2, <1>7, <3>1 DEF ScanAt
      <3>2. CASE v # w
        BY <1>2, <1>7, <3>2 DEF ScanAt, NoticesInv, NoticesAreTold, ScanCovers
      <3> QED BY <3>1, <3>2
    <2> QED BY <1>1, <2>1 DEF Covered, Reach
  <1>8. ScanCovers'
    BY <1>7 DEF ScanCovers
  <1> QED BY <1>3, <1>4, <1>5, <1>6, <1>8 DEF NoticesInv, NoticesAreTold

LEMMA StartScanKeeps ==
    ASSUME NoticesInv, NEW w \in Scanner, NEW kind \in Kind, NEW via \in Channel,
           StartScan(w, kind, via)
    PROVE  NoticesInv'
  <1> DEFINE s == [pc |-> "read", kind |-> kind, via |-> via, due |-> Due(kind)]
  <1>1. Due(kind) \subseteq About[kind]
    BY DEF Due, Kind
  <1>2. ScanIs(s)
    BY <1>1 DEF ScanIs, IsReading
  <1>3. ScanBecomes(w, s) /\ s.pc = "read" /\ s.kind = kind
    BY DEF StartScan
  <1>4. UNCHANGED <<comms, log>> /\ together \subseteq together'
    BY DEF StartScan, sources
  <1>5. kind \in together' \/ \A v \in Scanner : ScanAt(v, "idle") \/ scan[v].kind # kind
    BY DEF StartScan
  <1> HIDE DEF s
  <1> QED BY <1>2, <1>3, <1>4, <1>5, ScanGoesOn

LEMMA ReadLogKeeps ==
    ASSUME NoticesInv, NEW w \in Scanner, ReadLog(w)
    PROVE  NoticesInv'
  <1>1. scan[w].pc = "read" /\ ScanIs(scan[w])
    BY DEF ReadLog, ScanAt, NoticesInv, NoticesTypes
  <1>2. IsReading(scan[w])
    BY <1>1, StageOfScan
  <1>3. PICK kind \in Kind, via \in Channel : \E due \in SUBSET About[kind] :
            scan[w] = [pc |-> "read", kind |-> kind, via |-> via, due |-> due]
    BY <1>2 DEF IsReading
  <1>4. PICK due \in SUBSET About[kind] :
            scan[w] = [pc |-> "read", kind |-> kind, via |-> via, due |-> due]
    BY <1>3
  <1>5. scan[w].kind = kind /\ scan[w].via = via /\ scan[w].due = due
    BY <1>4
  <1> DEFINE todo == due \ AlreadyTold(kind, via)
             s == [pc |-> "queue", kind |-> kind, via |-> via, due |-> due, todo |-> todo]
  <1>6. ScanBecomes(w, s) /\ UNCHANGED <<comms, log, together>>
    BY <1>5 DEF ReadLog, sources
  <1>7. ScanIs(s)
    <2>1. todo \in SUBSET due
      OBVIOUS
    <2> QED BY <2>1 DEF ScanIs, IsQueueing
  <1>8. s.pc = "queue" /\ s.kind = kind /\ s.via = via /\ s.due = due /\ s.todo = todo
    OBVIOUS
  <1>9. ASSUME NEW of \in due \ todo PROVE Covered(kind, of, via)
    BY <1>9 DEF AlreadyTold, Covered
  <1>10. ASSUME NEW of \in todo PROVE Untold(kind, of, via)
    <2>1. of \in About[kind] /\ of \notin AlreadyTold(kind, via)
      BY <1>10
    <2> HIDE DEF todo
    <2>2. CASE kind = "absence"
      BY <2>1, <2>2 DEF AlreadyTold, Untold
    <2>3. CASE kind # "absence"
      BY <2>1, <2>3 DEF AlreadyTold, Untold
    <2> QED BY <2>2, <2>3
  <1>11. ~ScanAt(w, "idle")
    BY <1>1 DEF ScanAt
  <1> HIDE DEF s, todo
  <1> QED BY <1>5, <1>6, <1>7, <1>8, <1>9, <1>10, <1>11, ScanGoesOn

LEMMA ScanEnds ==
    ASSUME NoticesInv, NEW w \in Scanner, ScanBecomes(w, NoScan),
           UNCHANGED <<comms, log, together>>
    PROVE  NoticesInv'
  <1>1. ScanIs(NoScan) /\ NoScan.pc = "idle"
    BY DEF ScanIs, NoScan
  <1> QED BY <1>1, ScanGoesOn

LEMMA StartDispatchKeeps ==
    ASSUME NoticesInv, NEW w \in Scanner, NEW b \in BOOLEAN, StartDispatch(w, b)
    PROVE  NoticesInv'
  <1> DEFINE s == [pc |-> "rows", kind |-> "circular", staffOnly |-> b]
  <1>1. ScanIs(s) /\ s.pc = "rows" /\ s.kind = "circular"
    BY DEF ScanIs, IsCircular
  <1>2. ScanBecomes(w, s) /\ UNCHANGED <<comms, log, together>>
    BY DEF StartDispatch, sources
  <1> HIDE DEF s
  <1> QED BY <1>1, <1>2, KindsOfNotice, ScanGoesOn

-----------------------------------------------------------------------------
(* The steps that insert rows *)

\* Rows are inserted and none is taken away; the others are as they were.
LEMMA RowsInserted ==
    ASSUME NoticesInv, comms' = comms, NEW kind \in DOMAIN About, NEW of \in About[kind],
           NEW via \in Channel, Queued(kind, of, via)
    PROVE  /\ log' \in [Notice -> Nat]
           /\ \A n \in Notice :
                 IF n[1] = kind /\ n[2] = of /\ n[4] = via /\ n[3] \in Reach(kind, of)
                 THEN log'[n] = log[n] + 1 ELSE log'[n] = log[n]
           /\ Rows \subseteq Rows'
  <1>1. log \in [Notice -> Nat]
    BY DEF NoticesInv, NoticesTypes
  <1>2. log' = [n \in Notice |->
            IF n[1] = kind /\ n[2] = of /\ n[4] = via /\ n[3] \in Reach(kind, of)
            THEN log[n] + 1 ELSE log[n]]
    BY DEF Queued
  <1>3. \A n \in Notice :
            IF n[1] = kind /\ n[2] = of /\ n[4] = via /\ n[3] \in Reach(kind, of)
            THEN log'[n] = log[n] + 1 ELSE log'[n] = log[n]
    BY <1>2
  <1>4. \A n \in Notice : log'[n] \in Nat /\ log'[n] >= log[n]
    BY <1>1, <1>3
  <1>5. log' \in [Notice -> Nat]
    BY <1>2, <1>4
  <1>6. Rows \subseteq Rows'
    BY <1>1, <1>4 DEF Rows
  <1> QED BY <1>3, <1>5, <1>6

LEMMA AnnounceKeeps ==
    ASSUME NoticesInv, NEW w \in Scanner, Announce(w)
    PROVE  NoticesInv'
  BY ScanEnds DEF Announce, sources

LEMMA CreateLogsKeeps ==
    ASSUME NoticesInv, NEW w \in Scanner, CreateLogs(w)
    PROVE  NoticesInv'
  <1> DEFINE s == [pc |-> "announce", kind |-> "circular"]
  <1>1. ScanIs(s) /\ s.pc = "announce" /\ s.kind = "circular"
    BY DEF ScanIs, IsCircular
  <1>2. ScanBecomes(w, s) /\ UNCHANGED <<comms, together>>
    BY DEF CreateLogs, sources
  <1> HIDE DEF s
  <1>3. CASE UNCHANGED log
    BY <1>1, <1>2, <1>3, KindsOfNotice, ScanGoesOn
  <1>4. ASSUME NEW via \in Channel, Queued("circular", <<"CIRCULAR", "all">>, via)
        PROVE  NoticesInv'
    <2>1. "circular" \in DOMAIN About /\ <<"CIRCULAR", "all">> \in About["circular"]
      BY DEF About
    <2>2. /\ log' \in [Notice -> Nat] /\ Rows \subseteq Rows'
          /\ \A n \in Notice : n[1] # "circular" => log'[n] = log[n]
      BY <1>2, <1>4, <2>1, RowsInserted
    <2>3. \A n \in Rows' : n[1] \in Kind => n \in Rows
      BY <2>2, KindsOfNotice DEF Rows
    <2>4. scan'[w] = s /\ \A v \in Scanner \ {w} : scan'[v] = scan[v]
      BY <1>2 DEF ScanBecomes, NoticesInv, NoticesTypes
    <2>5. NoticesTypes'
      BY <1>1, <1>2, <2>2, <2>4 DEF NoticesInv, NoticesTypes, ScanBecomes
    <2>6. ASSUME NEW kind \in (Kind \ together)' PROVE ScansAlone(kind)'
      <3>1. ScansAlone(kind)
        BY <1>2, <2>6 DEF NoticesInv
      <3> QED BY <1>1, <2>4, <2>6, <3>1, KindsOfNotice DEF ScansAlone, ScanAt
    <2>7. ASSUME NEW v \in Scanner PROVE TodoIsUntold(v)'
      <3>1. CASE v = w
        BY <1>1, <2>4, <3>1 DEF TodoIsUntold, ScanAt
      <3>2. CASE v # w
        <4> SUFFICES ASSUME ScanAt(v, "queue"), scan[v].kind \notin together,
                            NEW of \in scan[v].todo
                     PROVE  Untold(scan[v].kind, of, scan[v].via)'
          BY <1>2, <2>4, <3>2 DEF TodoIsUntold, ScanAt, Untold
        <4>1. Untold(scan[v].kind, of, scan[v].via)
          BY DEF NoticesInv, TodoIsUntold
        <4>2. IsQueueing(scan[v])
          BY StageOfScan DEF NoticesInv, NoticesTypes, ScanAt
        <4>3. scan[v].kind \in Kind
          BY <4>2 DEF IsQueueing
        <4>4. scan'[v] = scan[v]
          BY <2>4, <3>2
        <4> QED BY <2>3, <4>1, <4>3, <4>4 DEF Untold
      <3> QED BY <3>1, <3>2
    <2>8. ToldOnce'
      <3> SUFFICES ASSUME NEW n \in Rows', n[1] \in Kind \ together
                   PROVE  IF n[1] = "absence" THEN n[4] = "PUSH" \/ log'[n] = 1
                          ELSE log'[n] = 1 /\ \A other \in Channel \ {n[4]} :
                                   log'[<<n[1], n[2], n[3], other>>] = 0
        BY <1>2 DEF ToldOnce
      <3>1. n \in Rows /\ n \in Notice /\ log'[n] = log[n]
        BY <2>2, <2>3, KindsOfNotice DEF Rows
      <3>2. ASSUME NEW other \in Channel
            PROVE  log'[<<n[1], n[2], n[3], other>>] = log[<<n[1], n[2], n[3], other>>]
        <4>1. n[1] \in DOMAIN About /\ n[2] \in About[n[1]] /\ n[3] \in Guardian
          BY <3>1, PartsOfNotice
        <4>2. <<n[1], n[2], n[3], other>> \in Notice /\ <<n[1], n[2], n[3], other>>[1] = n[1]
          BY <4>1, NoticeOf
        <4> QED BY <2>2, <4>2, KindsOfNotice
      <3>3. ToldOnce
        BY DEF NoticesInv, NoticesAreTold
      <3> QED BY <3>1, <3>2, <3>3 DEF ToldOnce
    <2>9. ScanCovers'
      <3> SUFFICES ASSUME NEW v \in Scanner, scan'[v].pc = "queue",
                          NEW of \in scan'[v].due \ scan'[v].todo
                   PROVE  Covered(scan[v].kind, of, scan[v].via)'
        BY DEF ScanCovers, ScanAt, Covered, Reach
      <3>1. v # w
        BY <1>1, <2>4
      <3>2. scan'[v] = scan[v]
        BY <2>4, <3>1
      <3>3. Covered(scan[v].kind, of, scan[v].via)
        BY <3>2 DEF NoticesInv, NoticesAreTold, ScanCovers, ScanAt
      <3> QED BY <1>2, <2>2, <3>2, <3>3 DEF Covered, Reach
    <2> QED BY <2>5, <2>6, <2>7, <2>8, <2>9 DEF NoticesInv, NoticesAreTold
  <1> QED BY <1>3, <1>4 DEF CreateLogs

LEMMA QueueNoticesKeeps ==
    ASSUME NoticesInv, NEW w \in Scanner, QueueNotices(w)
    PROVE  NoticesInv'
  <1>1. IsQueueing(scan[w])
    BY StageOfScan DEF QueueNotices, ScanAt, NoticesInv, NoticesTypes
  <1>2. PICK kind \in Kind, via \in Channel : \E due \in SUBSET About[kind] :
            \E todo \in SUBSET due : scan[w] =
                [pc |-> "queue", kind |-> kind, via |-> via, due |-> due, todo |-> todo]
    BY <1>1 DEF IsQueueing
  <1>3. PICK due \in SUBSET About[kind] : \E todo \in SUBSET due : scan[w] =
            [pc |-> "queue", kind |-> kind, via |-> via, due |-> due, todo |-> todo]
    BY <1>2
  <1>4. PICK todo \in SUBSET due : scan[w] =
            [pc |-> "queue", kind |-> kind, via |-> via, due |-> due, todo |-> todo]
    BY <1>3
  <1>5. /\ scan[w].pc = "queue" /\ scan[w].kind = kind /\ scan[w].via = via
        /\ scan[w].due = due /\ scan[w].todo = todo
    BY <1>4
  <1>6. PICK of \in todo : Queued(kind, of, via) /\ GoOn(w, of)
    BY <1>5 DEF QueueNotices
  <1>7. UNCHANGED <<comms, together>>
    BY DEF QueueNotices, sources
  <1> DEFINE s == [pc |-> "queue", kind |-> kind, via |-> via, due |-> due, todo |-> todo \ {of}]
  <1>8. ScanBecomes(w, s)
    <2>1. [scan[w] EXCEPT !.todo = @ \ {of}] = s
      BY <1>4
    <2> QED BY <1>6, <2>1 DEF GoOn, ScanBecomes
  <1>9. ScanIs(s)
    <2>1. todo \ {of} \in SUBSET due
      OBVIOUS
    <2> QED BY <2>1 DEF ScanIs, IsQueueing
  <1>10. s.pc = "queue" /\ s.kind = kind /\ s.via = via /\ s.due = due /\ s.todo = todo \ {of}
    OBVIOUS
  <1> HIDE DEF s
  <1>11. scan'[w] = s /\ \A v \in Scanner \ {w} : scan'[v] = scan[v]
    BY <1>8 DEF ScanBecomes, NoticesInv, NoticesTypes
  <1>12. kind \in DOMAIN About /\ of \in About[kind]
    BY KindsOfNotice
  <1>13. /\ log' \in [Notice -> Nat] /\ Rows \subseteq Rows'
         /\ \A n \in Notice :
               IF n[1] = kind /\ n[2] = of /\ n[4] = via /\ n[3] \in Reach(kind, of)
               THEN log'[n] = log[n] + 1 ELSE log'[n] = log[n]
    BY <1>6, <1>7, <1>12, RowsInserted
  <1>14. \A n \in Rows' : n[1] # kind \/ n[2] # of => n \in Rows
    BY <1>13 DEF Rows
  <1>15. NoticesTypes'
    BY <1>7, <1>8, <1>9, <1>11, <1>13 DEF NoticesInv, NoticesTypes, ScanBecomes
  <1>16. ASSUME NEW k \in (Kind \ together)' PROVE ScansAlone(k)'
    <2>1. ScansAlone(k)
      BY <1>7, <1>16 DEF NoticesInv
    <2> QED BY <1>5, <1>10, <1>11, <2>1 DEF ScansAlone, ScanAt
  <1>17. ASSUME NEW v \in Scanner PROVE TodoIsUntold(v)'
    <2>1. CASE v = w
      <3> SUFFICES ASSUME kind \notin together, NEW o \in todo \ {of} PROVE Untold(kind, o, via)'
        BY <1>7, <1>10, <1>11, <2>1 DEF TodoIsUntold, Untold
      <3>1. Untold(kind, o, via)
        BY <1>5 DEF NoticesInv, TodoIsUntold, ScanAt
      <3> QED BY <1>14, <3>1 DEF Untold
    <2>2. CASE v # w
      <3> SUFFICES ASSUME ScanAt(v, "queue"), scan[v].kind \notin together,
                          NEW o \in scan[v].todo
                   PROVE  Untold(scan[v].kind, o, scan[v].via)'
        BY <1>7, <1>11, <2>2 DEF TodoIsUntold, ScanAt, Untold
      <3>1. Untold(scan[v].kind, o, scan[v].via)
        BY DEF NoticesInv, TodoIsUntold
      <3>2. IsQueueing(scan[v])
        BY StageOfScan DEF NoticesInv, NoticesTypes, ScanAt
      <3>3. scan[v].kind \in Kind
        BY <3>2 DEF IsQueueing
      <3>4. scan[v].kind # kind
        BY <1>5, <2>2, <3>3 DEF NoticesInv, ScansAlone, ScanAt
      <3>5. scan'[v] = scan[v]
        BY <1>11, <2>2
      <3> QED BY <1>14, <3>1, <3>4, <3>5 DEF Untold
    <2> QED BY <2>1, <2>2
  <1>18. ToldOnce'
    <2> SUFFICES ASSUME NEW n \in Rows', n[1] \in Kind \ together
                 PROVE  IF n[1] = "absence" THEN n[4] = "PUSH" \/ log'[n] = 1
                        ELSE log'[n] = 1 /\ \A other \in Channel \ {n[4]} :
                                 log'[<<n[1], n[2], n[3], other>>] = 0
      BY <1>7 DEF ToldOnce
    <2>1. n \in Notice /\ log'[n] > 0
      BY DEF Rows
    <2>2. n[1] \in DOMAIN About /\ n[2] \in About[n[1]] /\ n[3] \in Guardian /\ n[4] \in Channel
      BY <2>1, PartsOfNotice
    <2>3. \A other \in Channel : /\ <<n[1], n[2], n[3], other>> \in Notice
                                 /\ <<n[1], n[2], n[3], other>>[1] = n[1]
                                 /\ <<n[1], n[2], n[3], other>>[2] = n[2]
                                 /\ <<n[1], n[2], n[3], other>>[4] = other
      BY <2>2, NoticeOf
    <2>4. CASE n[1] # kind \/ n[2] # of
      <3>1. n \in Rows /\ log'[n] = log[n]
        BY <1>13, <1>14, <2>1, <2>4
      <3>2. ASSUME NEW other \in Channel
            PROVE  log'[<<n[1], n[2], n[3], other>>] = log[<<n[1], n[2], n[3], other>>]
        BY <1>13, <2>3, <2>4
      <3>3. ToldOnce
        BY DEF NoticesInv, NoticesAreTold
      <3> QED BY <3>1, <3>2, <3>3 DEF ToldOnce
    <2>5. CASE n[1] = kind /\ n[2] = of
      <3>1. Untold(kind, of, via)
        BY <1>5, <2>5 DEF NoticesInv, TodoIsUntold, ScanAt
      <3>2. \A m \in Notice : log[m] \in Nat
        BY DEF NoticesInv, NoticesTypes
      <3>3. CASE kind = "absence"
        <4>1. CASE n[4] = via /\ n[3] \in Reach(kind, of)
          <5>1. n[3] \in Parents[of[2]]
            BY <3>3, <4>1 DEF Reach
          <5>2. via = "PUSH" \/ n \notin Rows
            BY <2>5, <3>1, <4>1, <5>1 DEF Untold
          <5>3. log'[n] = log[n] + 1
            BY <1>13, <2>1, <2>5, <4>1
          <5> QED BY <2>1, <2>5, <3>2, <3>3, <4>1, <5>2, <5>3 DEF Rows
        <4>2. CASE ~(n[4] = via /\ n[3] \in Reach(kind, of))
          <5>1. log'[n] = log[n] /\ n \in Rows
            BY <1>13, <2>1, <4>2 DEF Rows
          <5>2. ToldOnce
            BY DEF NoticesInv, NoticesAreTold
          <5> QED BY <2>5, <3>3, <5>1, <5>2 DEF ToldOnce
        <4> QED BY <4>1, <4>2
      <3>4. CASE kind # "absence"
        <4>1. \A m \in Notice : m[1] = kind /\ m[2] = of => log[m] = 0
          BY <3>1, <3>2, <3>4 DEF Untold, Rows
        <4>2. log'[n] # log[n]
          BY <2>1, <2>5, <3>2, <4>1
        <4>3. n[4] = via /\ log'[n] = 1
          BY <1>13, <2>1, <2>5, <4>1, <4>2
        <4>4. ASSUME NEW other \in Channel \ {n[4]}
              PROVE  log'[<<n[1], n[2], n[3], other>>] = 0
          BY <1>13, <2>3, <2>5, <4>1, <4>3
        <4> QED BY <2>5, <3>4, <4>3, <4>4
      <3> QED BY <3>3, <3>4
    <2> QED BY <2>4, <2>5
  <1>19. ScanCovers'
    <2> SUFFICES ASSUME NEW v \in Scanner, scan'[v].pc = "queue",
                        NEW o \in scan'[v].due \ scan'[v].todo
                 PROVE  Covered(scan[v].kind, o, scan[v].via)'
      BY DEF ScanCovers, ScanAt, Covered, Reach
    <2>1. ScanCovers
      BY DEF NoticesInv, NoticesAreTold
    <2>2. CASE v # w
      <3>1. scan'[v] = scan[v]
        BY <1>11, <2>2
      <3>2. Covered(scan[v].kind, o, scan[v].via)
        BY <2>1, <3>1 DEF ScanCovers, ScanAt
      <3> QED BY <1>7, <1>13, <3>1, <3>2 DEF Covered, Reach
    <2>3. CASE v = w /\ o # of
      <3>1. Covered(kind, o, via)
        BY <1>5, <1>10, <1>11, <2>1, <2>3 DEF ScanCovers, ScanAt
      <3>2. scan'[v].kind = kind /\ scan'[v].via = via
        BY <1>10, <1>11, <2>3
      <3> QED BY <1>7, <1>13, <3>1, <3>2 DEF Covered, Reach
    <2>4. CASE v = w /\ o = of
      <3>1. scan'[v].kind = kind /\ scan'[v].via = via
        BY <1>10, <1>11, <2>4
      <3>2. CASE Reach(kind, of) = {}
        BY <1>7, <2>4, <3>1, <3>2 DEF Covered, Reach
      <3>3. CASE Reach(kind, of) # {}
        <4>1. PICK to \in Reach(kind, of) : TRUE
          BY <3>3
        <4>2. to \in Guardian
          BY <4>1 DEF Reach, NoticesInv, NoticesTypes
        <4> DEFINE n == <<kind, of, to, via>>
        <4>3. n \in Notice /\ n[1] = kind /\ n[2] = of /\ n[3] = to /\ n[4] = via
          BY <1>12, <4>2, NoticeOf
        <4> HIDE DEF n
        <4>4. log'[n] = log[n] + 1 /\ log[n] \in Nat
          BY <1>13, <4>1, <4>3 DEF NoticesInv, NoticesTypes
        <4>5. n \in Rows'
          BY <4>3, <4>4 DEF Rows
        <4> QED BY <2>4, <3>1, <4>3, <4>5 DEF Covered
      <3> QED BY <3>2, <3>3
    <2> QED BY <2>2, <2>3, <2>4
  <1> QED BY <1>15, <1>16, <1>17, <1>18, <1>19 DEF NoticesInv, NoticesAreTold

-----------------------------------------------------------------------------

LEMMA NoticesInvInit ==
    ASSUME NoticesInit
    PROVE  NoticesInv
  <1>1. Rows = {} /\ \A w \in Scanner : scan[w] = NoScan /\ NoScan.pc = "idle"
    BY DEF NoticesInit, Rows, NoScan
  <1>2. NoticesTypes
    BY <1>1 DEF NoticesInit, NoticesTypes, ScanIs
  <1> QED BY <1>1, <1>2 DEF NoticesInv, ScansAlone, ScanAt, TodoIsUntold, NoticesAreTold,
         ToldOnce, ScanCovers

LEMMA NoticesInvKept ==
    ASSUME NoticesInv, [NoticesNext]_noticesVars
    PROVE  NoticesInv'
  <1>1. ASSUME NEW w \in Scanner, Scan(w) PROVE NoticesInv'
    <2>1. CASE FinishScan(w) \/ Die(w)
      BY <2>1, ScanEnds DEF FinishScan, Die, sources
    <2> QED BY <1>1, <2>1, StartScanKeeps, ReadLogKeeps, QueueNoticesKeeps DEF Scan
  <1>2. ASSUME NEW w \in Scanner, Dispatch(w) PROVE NoticesInv'
    BY <1>2, StartDispatchKeeps, CreateLogsKeeps, AnnounceKeeps DEF Dispatch
  <1>3. ASSUME NEW c \in Child, NEW as, MarkChild(c, as) PROVE NoticesInv'
    BY <1>3, ScansUntouched DEF MarkChild, Changing
  <1>4. ASSUME NEW c \in Child, AgeBill(c) PROVE NoticesInv'
    BY <1>4, ScansUntouched DEF AgeBill, Changing
  <1>5. ASSUME NEW e \in Exam, MoveExam(e) PROVE NoticesInv'
    BY <1>5, ScansUntouched DEF MoveExam, Changing
  <1>6. CASE UNCHANGED noticesVars
    BY <1>6, ScansUntouched DEF noticesVars
  <1> QED BY <1>1, <1>2, <1>3, <1>4, <1>5, <1>6 DEF NoticesNext

\* Unless two scans of a kind overlapped, nobody is told a thing twice, and no scan leaves
\* out anybody it found (absence-alerts.ts:13-18, 93-125, fee-reminders.ts:10-14).
THEOREM NoticesAreToldHolds == NoticesSpec => []NoticesAreTold
  <1>1. NoticesInv => NoticesAreTold
    BY DEF NoticesInv
  <1>2. NoticesInv /\ [NoticesNext]_noticesVars => NoticesInv'
    BY NoticesInvKept
  <1> QED BY <1>1, <1>2, NoticesInvInit, PTL DEF NoticesSpec

-----------------------------------------------------------------------------
(* Attendance: what an undisturbed rebuild has read are the records.        *)

RecordRow == [status : AttendanceStatus \cup {"NONE"}, linked : BOOLEAN]
Line == [before : AttendanceStatus, after : AttendanceStatus]
Tallied == [AttendanceStatus -> Nat]
RecordKey == SessionId \X Pupil

IsOpening(s) ==
    \E marks \in [Pupil -> AttendanceStatus] : s = [pc |-> "create", marks |-> marks]

IsMarking(s) ==
    \E marks \in [Pupil -> AttendanceStatus], n \in SessionId :
        s = [pc |-> "records", marks |-> marks, session |-> n]

IsAmending(s) ==
    \E k \in RecordKey, before \in AttendanceStatus, after \in AttendanceStatus :
        s = [pc |-> "amend", key |-> k, before |-> before, after |-> after]

IsRebuilding(s) ==
    s \in [pc : {"read", "store"}, todo : SUBSET Pupil, tally : [Pupil -> Tallied]]

IsDeciding(s) ==
    \E pc \in {"decide", "link"}, p \in Pupil, decision \in Decision :
        s = [pc |-> pc, of |-> p, as |-> decision]

CallerIs(s) ==
    \/ s = NoRequest \/ s.pc = "staff"
    \/ IsOpening(s) \/ IsMarking(s) \/ IsAmending(s) \/ IsRebuilding(s) \/ IsDeciding(s)

AttendanceTypes ==
    /\ sessions \in Seq(Slot) /\ Len(sessions) <= MaxSessions
    /\ record \in [RecordKey -> RecordRow]
    /\ trail \in [RecordKey -> Seq(Line)]
    /\ summary \in [Pupil -> Tallied]
    /\ DOMAIN caller = Caller
    /\ \A c \in Caller : CallerIs(caller[c])

\* What a rebuild that nobody has disturbed has counted, and stored, so far.
LoneTally(c) ==
    c \in lone =>
        /\ At(c, "read") =>
              \A p \in Pupil \ caller[c].todo : caller[c].tally[p] = Counts(p)
        /\ At(c, "store") =>
              \A p \in Pupil : /\ caller[c].tally[p] = Counts(p)
                               /\ p \notin caller[c].todo => summary[p] = Counts(p)

AttendanceInv ==
    /\ AttendanceTypes
    /\ \A c \in Caller : LoneTally(c)
    /\ RecordsAgree

LEMMA CountsOfRecords ==
    ASSUME NEW p \in Pupil
    PROVE  Counts(p) \in Tallied
  <1> SUFFICES ASSUME NEW st \in AttendanceStatus
               PROVE  Cardinality({n \in SessionId : record[<<n, p>>].status = st}) \in Nat
    BY DEF Counts, Tallied
  <1> DEFINE S == {n \in SessionId : record[<<n, p>>].status = st}
  <1>1. IsFiniteSet(SessionId)
    BY AttendanceAssumption, FS_Interval DEF SessionId
  <1>2. S \subseteq SessionId
    OBVIOUS
  <1>3. IsFiniteSet(S)
    BY <1>1, <1>2, FS_Subset
  <1> QED BY <1>3, FS_CardinalityType

LEMMA CountsStay ==
    ASSUME NEW p \in Pupil,
           \A n \in SessionId : record'[<<n, p>>].status = record[<<n, p>>].status
    PROVE  Counts(p)' = Counts(p)
  BY DEF Counts

LEMMA DoingOfCaller ==
    ASSUME NEW s, CallerIs(s)
    PROVE  /\ s.pc = "create" => IsOpening(s)
           /\ s.pc = "records" => IsMarking(s)
           /\ s.pc = "amend" => IsAmending(s)
           /\ s.pc \in {"read", "store"} => IsRebuilding(s)
           /\ s.pc \in {"decide", "link"} => IsDeciding(s)
  <1>1. NoRequest.pc = "idle"
    BY DEF NoRequest
  <1>2. ASSUME IsMarking(s) PROVE s.pc = "records"
    BY <1>2 DEF IsMarking
  <1>6. ASSUME IsOpening(s) PROVE s.pc = "create"
    BY <1>6 DEF IsOpening
  <1>3. ASSUME IsAmending(s) PROVE s.pc = "amend"
    BY <1>3 DEF IsAmending
  <1>4. ASSUME IsRebuilding(s) PROVE s.pc \in {"read", "store"}
    BY <1>4 DEF IsRebuilding
  <1>5. ASSUME IsDeciding(s) PROVE s.pc \in {"decide", "link"}
    BY <1>5 DEF IsDeciding
  <1> QED BY <1>1, <1>2, <1>3, <1>4, <1>5, <1>6 DEF CallerIs

-----------------------------------------------------------------------------
(* Steps that leave the records and what is derived from them alone         *)

Derived == <<record, trail, summary, exact, remarked>>

LEMMA RecordsStillAgree ==
    ASSUME AttendanceInv, UNCHANGED Derived
    PROVE  RecordsAgree'
  BY DEF AttendanceInv, RecordsAgree, FreshSummary, TrailEndsAtStatus, Counts, Derived

LEMMA RecordsUntouched ==
    ASSUME AttendanceInv, UNCHANGED <<Derived, sessions, caller, lone>>
    PROVE  AttendanceInv'
  <1>1. AttendanceTypes'
    BY DEF AttendanceInv, AttendanceTypes, Derived
  <1>2. \A c \in Caller : LoneTally(c)'
    BY DEF AttendanceInv, LoneTally, At, Counts, Derived
  <1> QED BY <1>1, <1>2, RecordsStillAgree DEF AttendanceInv

LEMMA CallerMoves ==
    ASSUME AttendanceInv, NEW c \in Caller, NEW s, CallerIs(s), Becomes(c, s),
           s.pc \notin {"read", "store"}, UNCHANGED Derived, lone' \subseteq lone,
           sessions' \in Seq(Slot), Len(sessions') <= MaxSessions
    PROVE  AttendanceInv'
  <1>1. caller'[c] = s /\ \A d \in Caller \ {c} : caller'[d] = caller[d]
    BY DEF Becomes, AttendanceInv, AttendanceTypes
  <1>2. AttendanceTypes'
    BY <1>1 DEF AttendanceInv, AttendanceTypes, Derived, Becomes
  <1>3. ASSUME NEW d \in Caller PROVE LoneTally(d)'
    <2>1. CASE d = c
      BY <1>1, <2>1 DEF LoneTally, At
    <2>2. CASE d # c
      BY <1>1, <2>2 DEF AttendanceInv, LoneTally, At, Counts, Derived
    <2> QED BY <2>1, <2>2
  <1> QED BY <1>2, <1>3, RecordsStillAgree DEF AttendanceInv

LEMMA RequestBegins ==
    ASSUME AttendanceInv, NEW c \in Caller, NEW s, CallerIs(s), Begins(c, s),
           s.pc \notin {"read", "store"}, UNCHANGED <<record, trail, summary>>,
           sessions' \in Seq(Slot), Len(sessions') <= MaxSessions
    PROVE  AttendanceInv'
  BY CallerMoves DEF Begins, Derived, attendanceGhosts

LEMMA RequestEnds ==
    ASSUME AttendanceInv, NEW c \in Caller, Becomes(c, NoRequest), UNCHANGED Derived,
           UNCHANGED sessions, lone' \subseteq lone
    PROVE  AttendanceInv'
  <1>1. CallerIs(NoRequest) /\ NoRequest.pc \notin {"read", "store"}
    BY DEF CallerIs, NoRequest
  <1>2. sessions' \in Seq(Slot) /\ Len(sessions') <= MaxSessions
    BY DEF AttendanceInv, AttendanceTypes
  <1> QED BY <1>1, <1>2, CallerMoves

LEMMA StartMarkKeeps ==
    ASSUME AttendanceInv, NEW c \in Caller, NEW marks \in [Pupil -> AttendanceStatus],
           StartMark(c, marks)
    PROVE  AttendanceInv'
  <1>1. sessions' = sessions /\ UNCHANGED <<record, trail, summary>>
    BY DEF StartMark, tables
  <1>2. sessions' \in Seq(Slot) /\ Len(sessions') <= MaxSessions
    BY <1>1 DEF AttendanceInv, AttendanceTypes
  <1>3. CASE Begins(c, [pc |-> "create", marks |-> marks])
    <2> DEFINE s == [pc |-> "create", marks |-> marks]
    <2>1. CallerIs(s) /\ s.pc = "create" /\ Begins(c, s)
      BY <1>3 DEF CallerIs, IsOpening
    <2> HIDE DEF s
    <2> QED BY <1>1, <1>2, <2>1, RequestBegins
  <1>4. ASSUME NEW n \in SessionsOf("day"),
               Begins(c, [pc |-> "records", marks |-> marks, session |-> n])
        PROVE  AttendanceInv'
    <2> DEFINE s == [pc |-> "records", marks |-> marks, session |-> n]
    <2>1. n \in SessionId
      BY AttendanceAssumption DEF AttendanceInv, AttendanceTypes, SessionsOf, SessionId
    <2>2. CallerIs(s) /\ s.pc = "records" /\ Begins(c, s)
      BY <1>4, <2>1 DEF CallerIs, IsMarking
    <2> HIDE DEF s
    <2> QED BY <1>1, <1>2, <2>2, RequestBegins
  <1> QED BY <1>3, <1>4 DEF StartMark

LEMMA CreateSessionKeeps ==
    ASSUME AttendanceInv, NEW c \in Caller, CreateSession(c)
    PROVE  AttendanceInv'
  <1>1. IsOpening(caller[c])
    BY DoingOfCaller DEF CreateSession, At, AttendanceInv, AttendanceTypes
  <1>2. caller[c].marks \in [Pupil -> AttendanceStatus]
    BY <1>1 DEF IsOpening
  <1>3. PICK n : n = Len(sessions) + 1
    OBVIOUS
  <1>4. sessions \in Seq(Slot) /\ Len(sessions) < MaxSessions /\ sessions' = Append(sessions, "day")
    BY DEF CreateSession, AttendanceInv, AttendanceTypes
  <1>5. sessions' \in Seq(Slot) /\ Len(sessions') = n
    BY <1>3, <1>4, AttendanceAssumption
  <1>6. Len(sessions) \in Nat
    BY <1>4
  <1>7. n \in SessionId /\ n <= MaxSessions
    BY <1>3, <1>4, <1>6, AttendanceAssumption DEF SessionId
  <1>8. PICK marks \in [Pupil -> AttendanceStatus] : marks = caller[c].marks
    BY <1>2
  <1> DEFINE s == [pc |-> "records", marks |-> marks, session |-> n]
  <1>9. CallerIs(s) /\ s.pc = "records"
    BY <1>7 DEF CallerIs, IsMarking
  <1>10. Becomes(c, s) /\ UNCHANGED Derived /\ lone' \subseteq lone
    BY <1>3, <1>8 DEF CreateSession, Derived, attendanceGhosts
  <1> HIDE DEF s
  <1> QED BY <1>5, <1>7, <1>9, <1>10, CallerMoves

LEMMA StartMarkPeriodKeeps ==
    ASSUME AttendanceInv, NEW c \in Caller, NEW slot \in Slot,
           NEW marks \in [Pupil -> AttendanceStatus], StartMarkPeriod(c, slot, marks)
    PROVE  AttendanceInv'
  <1> DEFINE m == IF SessionsOf(slot) = {} THEN Len(sessions) + 1
                  ELSE CHOOSE i \in SessionsOf(slot) : TRUE
  <1>1. PICK n : n = m
    OBVIOUS
  <1>2. /\ sessions' = IF SessionsOf(slot) = {} THEN Append(sessions, slot) ELSE sessions
        /\ n <= MaxSessions /\ UNCHANGED <<record, trail, summary>>
        /\ Begins(c, [pc |-> "records", marks |-> marks, session |-> n])
    BY <1>1 DEF StartMarkPeriod
  <1>3. sessions \in Seq(Slot) /\ Len(sessions) \in Nat /\ Len(sessions) <= MaxSessions
    BY DEF AttendanceInv, AttendanceTypes
  <1>4. n \in SessionId /\ sessions' \in Seq(Slot) /\ Len(sessions') <= MaxSessions
    <2>1. CASE SessionsOf(slot) = {}
      <3>1. n = Len(sessions) + 1 /\ sessions' = Append(sessions, slot)
        BY <1>1, <1>2, <2>1
      <3>2. sessions' \in Seq(Slot) /\ Len(sessions') = Len(sessions) + 1
        BY <1>3, <3>1
      <3> QED BY <1>2, <1>3, <3>1, <3>2, AttendanceAssumption DEF SessionId
    <2>2. CASE SessionsOf(slot) # {}
      <3>1. n \in SessionsOf(slot)
        BY <1>1, <2>2
      <3>2. n \in 1 .. Len(sessions)
        BY <3>1 DEF SessionsOf
      <3> QED BY <1>2, <1>3, <2>2, <3>2, AttendanceAssumption DEF SessionId
    <2> QED BY <2>1, <2>2
  <1> HIDE DEF m
  <1> DEFINE s == [pc |-> "records", marks |-> marks, session |-> n]
  <1>5. CallerIs(s) /\ s.pc = "records" /\ Begins(c, s)
    BY <1>2, <1>4 DEF CallerIs, IsMarking
  <1> HIDE DEF s
  <1> QED BY <1>2, <1>4, <1>5, RequestBegins

LEMMA StartAmendKeeps ==
    ASSUME AttendanceInv, NEW c \in Caller, NEW k \in RecordKey,
           NEW other \in AttendanceStatus, StartAmend(c, k, other)
    PROVE  AttendanceInv'
  <1>1. record[k].status \in AttendanceStatus
    BY DEF StartAmend, Marked, AttendanceInv, AttendanceTypes, RecordRow
  <1>2. PICK before \in AttendanceStatus : before = record[k].status
    BY <1>1
  <1> DEFINE s == [pc |-> "amend", key |-> k, before |-> before, after |-> other]
  <1>3. CallerIs(s) /\ s.pc = "amend"
    BY DEF CallerIs, IsAmending
  <1>4. Begins(c, s) /\ UNCHANGED <<sessions, record, trail, summary>>
    BY <1>2 DEF StartAmend, tables
  <1>5. sessions' \in Seq(Slot) /\ Len(sessions') <= MaxSessions
    BY <1>4 DEF AttendanceInv, AttendanceTypes
  <1> HIDE DEF s
  <1> QED BY <1>3, <1>4, <1>5, RequestBegins

LEMMA StartDecisionKeeps ==
    ASSUME AttendanceInv, NEW c \in Caller, NEW p \in Pupil, NEW decision \in Decision,
           StartDecision(c, p, decision)
    PROVE  AttendanceInv'
  <1> DEFINE s == [pc |-> "decide", of |-> p, as |-> decision]
  <1>1. CallerIs(s) /\ s.pc = "decide"
    BY DEF CallerIs, IsDeciding
  <1>2. Begins(c, s) /\ UNCHANGED <<sessions, record, trail, summary>>
    BY DEF StartDecision, tables
  <1>3. sessions' \in Seq(Slot) /\ Len(sessions') <= MaxSessions
    BY <1>2 DEF AttendanceInv, AttendanceTypes
  <1> HIDE DEF s
  <1> QED BY <1>1, <1>2, <1>3, RequestBegins

LEMMA DecideKeeps ==
    ASSUME AttendanceInv, NEW c \in Caller, Decide(c)
    PROVE  AttendanceInv'
  <1>1. UNCHANGED Derived /\ UNCHANGED <<sessions, lone>>
    BY DEF Decide, Derived, attendanceGhosts
  <1>2. CASE Becomes(c, NoRequest)
    BY <1>1, <1>2, RequestEnds
  <1>3. CASE Becomes(c, [caller[c] EXCEPT !.pc = "link"])
    <2>1. IsDeciding(caller[c])
      BY DoingOfCaller DEF Decide, At, AttendanceInv, AttendanceTypes
    <2>2. PICK pc \in {"decide", "link"}, p \in Pupil, decision \in Decision :
              caller[c] = [pc |-> pc, of |-> p, as |-> decision]
      BY <2>1 DEF IsDeciding
    <2> DEFINE s == [pc |-> "link", of |-> p, as |-> decision]
    <2>3. [caller[c] EXCEPT !.pc = "link"] = s
      BY <2>2
    <2>4. CallerIs(s) /\ s.pc = "link"
      BY DEF CallerIs, IsDeciding
    <2>5. sessions' \in Seq(Slot) /\ Len(sessions') <= MaxSessions
      BY <1>1 DEF AttendanceInv, AttendanceTypes
    <2>6. Becomes(c, s)
      BY <1>3, <2>3
    <2> HIDE DEF s
    <2> QED BY <1>1, <2>4, <2>5, <2>6, CallerMoves
  <1> QED BY <1>2, <1>3 DEF Decide

LEMMA StartStaffKeeps ==
    ASSUME AttendanceInv, NEW c \in Caller, NEW act, StartStaff(c, act)
    PROVE  AttendanceInv'
  <1> DEFINE s == [pc |-> "staff", act |-> Written(act), id |-> staff.id]
  <1>1. CallerIs(s) /\ s.pc = "staff"
    BY DEF CallerIs
  <1>2. Begins(c, s) /\ UNCHANGED <<sessions, record, trail, summary>>
    BY DEF StartStaff, tables
  <1>3. sessions' \in Seq(Slot) /\ Len(sessions') <= MaxSessions
    BY <1>2 DEF AttendanceInv, AttendanceTypes
  <1> HIDE DEF s
  <1> QED BY <1>1, <1>2, <1>3, RequestBegins

-----------------------------------------------------------------------------
(* Steps that write records, and the rebuild                                *)

\* The writer's rebuild begins and nothing is known of the summary.
LEMMA WriterRebuilds ==
    ASSUME AttendanceInv, NEW c \in Caller, Becomes(c, Rebuild(c)), Disturbs(c),
           UNCHANGED <<sessions, summary>>,
           record' \in [RecordKey -> RecordRow], trail' \in [RecordKey -> Seq(Line)],
           TrailEndsAtStatus'
    PROVE  AttendanceInv'
  <1>1. PICK s : s = Rebuild(c)
    OBVIOUS
  <1>2. s.pc = "read" /\ s.todo = Pupil /\ IsRebuilding(s)
    BY <1>1 DEF Rebuild, IsRebuilding, AttendanceInv, AttendanceTypes
  <1>3. caller'[c] = s /\ \A d \in Caller \ {c} : caller'[d] = caller[d]
    BY <1>1 DEF Becomes, AttendanceInv, AttendanceTypes
  <1>4. CallerIs(s)
    BY <1>2 DEF CallerIs
  <1>5. AttendanceTypes'
    BY <1>3, <1>4 DEF AttendanceInv, AttendanceTypes, Becomes
  <1>6. \A d \in Caller : LoneTally(d)'
    BY <1>2, <1>3 DEF LoneTally, Disturbs, At
  <1>7. FreshSummary'
    BY DEF FreshSummary, Disturbs
  <1> QED BY <1>5, <1>6, <1>7 DEF AttendanceInv, RecordsAgree

LEMMA SaveRecordsKeeps ==
    ASSUME AttendanceInv, NEW c \in Caller, SaveRecords(c)
    PROVE  AttendanceInv'
  <1>1. IsMarking(caller[c])
    BY DoingOfCaller DEF SaveRecords, At, AttendanceInv, AttendanceTypes
  <1>3. PICK marks \in [Pupil -> AttendanceStatus], n \in SessionId :
            caller[c] = [pc |-> "records", marks |-> marks, session |-> n]
    BY <1>1 DEF IsMarking
  <1>4. caller[c].marks = marks /\ caller[c].session = n
    BY <1>3
  <1>5. record \in [RecordKey -> RecordRow] /\ DOMAIN record = RecordKey
    BY DEF AttendanceInv, AttendanceTypes
  <1>6. record' = [k \in RecordKey |->
            IF k[1] = n THEN [record[k] EXCEPT !.status = marks[k[2]]] ELSE record[k]]
    BY <1>4, <1>5 DEF SaveRecords
  <1>7. ASSUME NEW k \in RecordKey
        PROVE  record'[k] \in RecordRow /\ (k[1] # n => record'[k] = record[k])
    <2>1. k[2] \in Pupil
      BY DEF RecordKey
    <2>2. PICK mine \in AttendanceStatus : mine = marks[k[2]]
      BY <2>1
    <2>3. record[k] \in RecordRow
      BY <1>5
    <2>4. [record[k] EXCEPT !.status = mine] \in RecordRow
      BY <2>3 DEF RecordRow
    <2> QED BY <1>6, <2>2, <2>3, <2>4
  <1>8. record' \in [RecordKey -> RecordRow]
    BY <1>6, <1>7
  <1>9. trail' = trail /\ trail \in [RecordKey -> Seq(Line)]
    BY DEF SaveRecords, AttendanceInv, AttendanceTypes
  <1>10. remarked' = remarked \cup ({n} \X Pupil)
    BY <1>4 DEF SaveRecords
  <1>11. TrailEndsAtStatus'
    <2> SUFFICES ASSUME NEW k \in RecordKey, trail'[k] # <<>>, k \notin remarked'
                 PROVE  Last(trail'[k]).after = record'[k].status
      BY <1>9 DEF TrailEndsAtStatus
    <2>1. k[1] # n
      BY <1>10 DEF RecordKey
    <2>2. record'[k] = record[k] /\ k \notin remarked
      BY <1>7, <1>10, <2>1
    <2> QED BY <1>9, <2>2 DEF AttendanceInv, RecordsAgree, TrailEndsAtStatus
  <1> QED BY <1>8, <1>9, <1>11, WriterRebuilds DEF SaveRecords

LEMMA LastOfTrail ==
    ASSUME NEW s \in Seq(Line), NEW e \in Line
    PROVE  Append(s, e) \in Seq(Line) /\ Last(Append(s, e)) = e
  BY DEF Last

LEMMA SaveAmendmentKeeps ==
    ASSUME AttendanceInv, NEW c \in Caller, SaveAmendment(c)
    PROVE  AttendanceInv'
  <1>1. IsAmending(caller[c])
    BY DoingOfCaller DEF SaveAmendment, At, AttendanceInv, AttendanceTypes
  <1>2. PICK k \in RecordKey, before \in AttendanceStatus, after \in AttendanceStatus :
            caller[c] = [pc |-> "amend", key |-> k, before |-> before, after |-> after]
    BY <1>1 DEF IsAmending
  <1>3. caller[c].key = k /\ caller[c].before = before /\ caller[c].after = after
    BY <1>2
  <1>4. PICK line \in Line : line = [before |-> before, after |-> after]
    BY DEF Line
  <1>5. line.after = after
    BY <1>4
  <1>6. record \in [RecordKey -> RecordRow] /\ trail \in [RecordKey -> Seq(Line)]
    BY DEF AttendanceInv, AttendanceTypes
  <1>7. PICK row : row = [record[k] EXCEPT !.status = after]
    OBVIOUS
  <1>8. row \in RecordRow /\ row.status = after
    <2>1. record[k] \in RecordRow
      BY <1>6
    <2> QED BY <1>7, <2>1 DEF RecordRow
  <1>9. record' = [record EXCEPT ![k] = row]
    BY <1>3, <1>7 DEF SaveAmendment
  <1>10. trail' = [trail EXCEPT ![k] = Append(@, line)] /\ remarked' = remarked \ {k}
    BY <1>3, <1>4 DEF SaveAmendment
  <1>11. record' \in [RecordKey -> RecordRow]
    BY <1>6, <1>8, <1>9
  <1>12. PICK new : new = Append(trail[k], line)
    OBVIOUS
  <1>13. new \in Seq(Line) /\ Last(new) = line
    BY <1>6, <1>12, LastOfTrail
  <1>14. trail' = [trail EXCEPT ![k] = new]
    BY <1>10, <1>12
  <1>15. trail' \in [RecordKey -> Seq(Line)]
    BY <1>6, <1>13, <1>14
  <1>16. TrailEndsAtStatus'
    <2> SUFFICES ASSUME NEW j \in RecordKey, trail'[j] # <<>>, j \notin remarked'
                 PROVE  Last(trail'[j]).after = record'[j].status
      BY <1>15 DEF TrailEndsAtStatus
    <2>1. CASE j = k
      BY <1>5, <1>6, <1>8, <1>9, <1>13, <1>14, <2>1
    <2>2. CASE j # k
      <3>1. trail'[j] = trail[j] /\ record'[j] = record[j] /\ j \notin remarked
        BY <1>6, <1>9, <1>10, <1>14, <2>2
      <3> QED BY <1>6, <3>1 DEF AttendanceInv, RecordsAgree, TrailEndsAtStatus
    <2> QED BY <2>1, <2>2
  <1> QED BY <1>11, <1>15, <1>16, WriterRebuilds DEF SaveAmendment

\* A leave is linked to a record, whose status stays.
LEMMA LinkLeaveKeeps ==
    ASSUME AttendanceInv, NEW c \in Caller, LinkLeave(c)
    PROVE  AttendanceInv'
  <1>1. record \in [RecordKey -> RecordRow] /\ DOMAIN record = RecordKey
    BY DEF AttendanceInv, AttendanceTypes
  <1>2. record' = [k \in RecordKey |->
            IF k[2] = caller[c].of /\ record[k].status = "ON_LEAVE"
            THEN [record[k] EXCEPT !.linked = TRUE] ELSE record[k]]
    BY <1>1 DEF LinkLeave
  <1>3. ASSUME NEW k \in RecordKey
        PROVE  record'[k] \in RecordRow /\ record'[k].status = record[k].status
    <2>1. record[k] \in RecordRow
      BY <1>1
    <2>2. /\ [record[k] EXCEPT !.linked = TRUE] \in RecordRow
          /\ [record[k] EXCEPT !.linked = TRUE].status = record[k].status
      BY <2>1 DEF RecordRow
    <2> QED BY <1>2, <2>1, <2>2
  <1>4. record' \in [RecordKey -> RecordRow]
    BY <1>2, <1>3
  <1>5. Becomes(c, NoRequest) /\ UNCHANGED <<sessions, trail, summary, exact, lone, remarked>>
    BY DEF LinkLeave, attendanceGhosts
  <1>6. NoRequest.pc = "idle" /\ CallerIs(NoRequest)
    BY DEF NoRequest, CallerIs
  <1>7. caller'[c] = NoRequest /\ \A d \in Caller \ {c} : caller'[d] = caller[d]
    BY <1>5 DEF Becomes, AttendanceInv, AttendanceTypes
  <1>8. AttendanceTypes'
    BY <1>4, <1>5, <1>6, <1>7 DEF AttendanceInv, AttendanceTypes, Becomes
  <1>9. \A p \in Pupil : Counts(p)' = Counts(p)
    BY <1>3, CountsStay DEF RecordKey
  <1>10. \A d \in Caller : LoneTally(d)'
    BY <1>5, <1>6, <1>7, <1>9 DEF AttendanceInv, LoneTally, At
  <1>11. FreshSummary'
    BY <1>5, <1>9 DEF AttendanceInv, RecordsAgree, FreshSummary
  <1>12. TrailEndsAtStatus'
    <2>1. DOMAIN trail = RecordKey
      BY DEF AttendanceInv, AttendanceTypes
    <2> QED BY <1>3, <1>5, <2>1 DEF AttendanceInv, RecordsAgree, TrailEndsAtStatus
  <1> QED BY <1>8, <1>10, <1>11, <1>12 DEF AttendanceInv, RecordsAgree

LEMMA ReadPupilKeeps ==
    ASSUME AttendanceInv, NEW c \in Caller, NEW p \in Pupil, ReadPupil(c, p)
    PROVE  AttendanceInv'
  <1>1. IsRebuilding(caller[c])
    BY DoingOfCaller DEF ReadPupil, At, AttendanceInv, AttendanceTypes
  <1>2. PICK todo \in SUBSET Pupil, tally \in [Pupil -> Tallied] :
            caller[c] = [pc |-> "read", todo |-> todo, tally |-> tally]
    BY <1>1 DEF IsRebuilding, ReadPupil, At
  <1>3. PICK counts \in Tallied : counts = Counts(p)
    BY CountsOfRecords
  <1>4. PICK new \in [Pupil -> Tallied] : new = [tally EXCEPT ![p] = counts]
    OBVIOUS
  <1>5. PICK s : s = IF todo \ {p} # {} THEN [pc |-> "read", todo |-> todo \ {p}, tally |-> new]
                     ELSE [pc |-> "store", todo |-> Pupil, tally |-> new]
    OBVIOUS
  <1>6. Becomes(c, s) /\ UNCHANGED Derived /\ UNCHANGED <<sessions, lone>>
    BY <1>2, <1>3, <1>4, <1>5 DEF ReadPupil, tables, Derived, attendanceGhosts, Tally
  <1>7. /\ s.tally = new /\ IsRebuilding(s)
        /\ s.pc = "read" => s.todo = todo \ {p}
        /\ s.pc = "store" => todo \ {p} = {} /\ s.todo = Pupil
    BY <1>5 DEF IsRebuilding
  <1>8. caller'[c] = s /\ \A d \in Caller \ {c} : caller'[d] = caller[d]
    BY <1>6 DEF Becomes, AttendanceInv, AttendanceTypes
  <1>9. CallerIs(s)
    BY <1>7 DEF CallerIs
  <1>10. AttendanceTypes'
    BY <1>6, <1>8, <1>9 DEF AttendanceInv, AttendanceTypes, Becomes, Derived
  <1>11. /\ \A q \in Pupil : Counts(q)' = Counts(q)
         /\ summary' = summary
    BY <1>6 DEF Counts, Derived
  <1>12. LoneTally(c)'
    <2>1. ASSUME c \in lone, NEW q \in Pupil \ (todo \ {p}) PROVE new[q] = Counts(q)
      <3>1. CASE q = p
        BY <1>3, <1>4, <3>1
      <3>2. CASE q # p
        <4>1. caller[c].pc = "read" /\ caller[c].todo = todo /\ caller[c].tally = tally
          BY <1>2
        <4>2. tally[q] = Counts(q)
          BY <2>1, <3>2, <4>1 DEF AttendanceInv, LoneTally, At
        <4> QED BY <1>4, <3>2, <4>2
      <3> QED BY <3>1, <3>2
    <2> QED BY <1>6, <1>7, <1>8, <1>11, <2>1 DEF LoneTally, At
  <1>13. \A d \in Caller \ {c} : LoneTally(d)'
    BY <1>6, <1>8, <1>11 DEF AttendanceInv, LoneTally, At
  <1> QED BY <1>6, <1>10, <1>12, <1>13, RecordsStillAgree DEF AttendanceInv

\* An upsert ends every other rebuild's being undisturbed, and the last one of an
\* undisturbed rebuild makes the summary exact.
LEMMA StorePupilKeeps ==
    ASSUME AttendanceInv, NEW c \in Caller, NEW p \in Pupil, StorePupil(c, p)
    PROVE  AttendanceInv'
  <1>1. IsRebuilding(caller[c])
    BY DoingOfCaller DEF StorePupil, At, AttendanceInv, AttendanceTypes
  <1>2. PICK todo \in SUBSET Pupil, tally \in [Pupil -> Tallied] :
            caller[c] = [pc |-> "store", todo |-> todo, tally |-> tally]
    BY <1>1 DEF IsRebuilding, StorePupil, At
  <1>3. /\ summary' = [summary EXCEPT ![p] = tally[p]]
        /\ UNCHANGED <<sessions, record, trail, remarked>>
    BY <1>2 DEF StorePupil
  <1>4. /\ summary \in [Pupil -> Tallied] /\ summary' \in [Pupil -> Tallied]
        /\ \A q \in Pupil : summary'[q] = IF q = p THEN tally[p] ELSE summary[q]
    BY <1>3 DEF AttendanceInv, AttendanceTypes
  <1>5. \A q \in Pupil : Counts(q)' = Counts(q)
    BY <1>3 DEF Counts
  <1>6. c \in lone => \A q \in Pupil : tally[q] = Counts(q) /\ (q \notin todo => summary[q] = Counts(q))
    <2>1. caller[c].pc = "store" /\ caller[c].todo = todo /\ caller[c].tally = tally
      BY <1>2
    <2> QED BY <2>1 DEF AttendanceInv, LoneTally, At
  <1>7. TrailEndsAtStatus'
    BY <1>3 DEF AttendanceInv, RecordsAgree, TrailEndsAtStatus
  <1>8. CASE todo \ {p} # {}
    <2>1. PICK s : s = [pc |-> "store", todo |-> todo \ {p}, tally |-> tally]
      OBVIOUS
    <2>2. Becomes(c, s) /\ exact' = FALSE /\ lone' = lone \cap {c}
      BY <1>2, <1>8, <2>1 DEF StorePupil
    <2>3. s.pc = "store" /\ s.todo = todo \ {p} /\ s.tally = tally /\ CallerIs(s)
      BY <2>1 DEF IsRebuilding, CallerIs
    <2>4. caller'[c] = s /\ \A d \in Caller \ {c} : caller'[d] = caller[d]
      BY <2>2 DEF Becomes, AttendanceInv, AttendanceTypes
    <2>5. AttendanceTypes'
      BY <1>3, <1>4, <2>2, <2>3, <2>4 DEF AttendanceInv, AttendanceTypes, Becomes
    <2>6. LoneTally(c)'
      BY <1>4, <1>5, <1>6, <2>2, <2>3, <2>4 DEF LoneTally, At
    <2>7. \A d \in Caller \ {c} : LoneTally(d)'
      BY <2>2 DEF LoneTally
    <2>8. FreshSummary'
      BY <2>2 DEF FreshSummary
    <2> QED BY <1>7, <2>5, <2>6, <2>7, <2>8 DEF AttendanceInv, RecordsAgree
  <1>9. CASE todo \ {p} = {}
    <2>1. Becomes(c, NoRequest) /\ exact' = (c \in lone) /\ lone' = {}
      BY <1>2, <1>9 DEF StorePupil
    <2>2. CallerIs(NoRequest)
      BY DEF CallerIs
    <2>3. caller'[c] = NoRequest /\ \A d \in Caller \ {c} : caller'[d] = caller[d]
      BY <2>1 DEF Becomes, AttendanceInv, AttendanceTypes
    <2>4. AttendanceTypes'
      BY <1>3, <1>4, <2>1, <2>2, <2>3 DEF AttendanceInv, AttendanceTypes, Becomes
    <2>5. \A d \in Caller : LoneTally(d)'
      BY <2>1 DEF LoneTally
    <2>6. FreshSummary'
      BY <1>4, <1>5, <1>6, <1>9, <2>1 DEF FreshSummary
    <2> QED BY <1>7, <2>4, <2>5, <2>6 DEF AttendanceInv, RecordsAgree
  <1> QED BY <1>8, <1>9

-----------------------------------------------------------------------------

LEMMA AttendanceInvInit ==
    ASSUME AttendanceInit
    PROVE  AttendanceInv
  <1>1. ASSUME NEW p \in Pupil, NEW st \in AttendanceStatus
        PROVE  Cardinality({n \in SessionId : record[<<n, p>>].status = st}) = 0
    <2>1. \A n \in SessionId : record[<<n, p>>].status = "NONE"
      BY DEF AttendanceInit, NoRecord
    <2>2. st # "NONE"
      BY AttendanceAssumption
    <2>3. {n \in SessionId : record[<<n, p>>].status = st} = {}
      BY <2>1, <2>2
    <2> QED BY <2>3, FS_EmptySet
  <1>2. \A p \in Pupil : Counts(p) = NoCounts
    BY <1>1 DEF Counts, NoCounts
  <1>3. NoRecord \in RecordRow /\ NoCounts \in Tallied
    BY DEF NoRecord, RecordRow, NoCounts, Tallied
  <1>4. <<>> \in Seq(Slot) /\ Len(<<>>) = 0 /\ <<>> \in Seq(Line)
    OBVIOUS
  <1>5. AttendanceTypes
    BY <1>3, <1>4, AttendanceAssumption DEF AttendanceInit, AttendanceTypes, CallerIs, RecordKey
  <1> QED BY <1>2, <1>5 DEF AttendanceInit, AttendanceInv, LoneTally, RecordsAgree,
         FreshSummary, TrailEndsAtStatus

LEMMA AttendanceInvKept ==
    ASSUME AttendanceInv, [AttendanceNext]_attendanceVars
    PROVE  AttendanceInv'
  <1>1. ASSUME NEW c \in Caller, Mark(c) PROVE AttendanceInv'
    BY <1>1, StartMarkKeeps, StartMarkPeriodKeeps, CreateSessionKeeps, SaveRecordsKeeps DEF Mark
  <1>2. ASSUME NEW c \in Caller, Amend(c) PROVE AttendanceInv'
    BY <1>2, StartAmendKeeps, SaveAmendmentKeeps DEF Amend, RecordKey
  <1>3. ASSUME NEW c \in Caller, RebuildMonthlySummary(c) PROVE AttendanceInv'
    BY <1>3, ReadPupilKeeps, StorePupilKeeps DEF RebuildMonthlySummary
  <1>4. ASSUME NEW c \in Caller, DecideLeave(c) PROVE AttendanceInv'
    BY <1>4, StartDecisionKeeps, DecideKeeps, LinkLeaveKeeps DEF DecideLeave
  <1>5. ASSUME NEW c \in Caller, MarkStaff(c) PROVE AttendanceInv'
    <2>1. CASE SaveStaff(c)
      BY <2>1, RequestEnds DEF SaveStaff, Derived, attendanceGhosts
    <2> QED BY <1>5, <2>1, StartStaffKeeps DEF MarkStaff
  <1>6. ASSUME NEW c \in Caller, RequestDies(c) PROVE AttendanceInv'
    BY <1>6, RequestEnds DEF RequestDies, tables, Derived
  <1>7. ASSUME NEW p \in Pupil, FileLeave(p) PROVE AttendanceInv'
    BY <1>7, RecordsUntouched DEF FileLeave, Derived, attendanceGhosts
  <1>8. ASSUME NEW as, BulkMarkStaff(as) PROVE AttendanceInv'
    BY <1>8, RecordsUntouched DEF BulkMarkStaff, Derived, attendanceGhosts
  <1>9. CASE UNCHANGED attendanceVars
    BY <1>9, RecordsUntouched DEF attendanceVars, Derived
  <1> QED BY <1>1, <1>2, <1>3, <1>4, <1>5, <1>6, <1>7, <1>8, <1>9 DEF AttendanceNext

\* A rebuild that no write disturbed leaves the summary equal to the records, and the trail
\* of amendments ends at the record's status (index.ts:898-921), whatever races or dies.
THEOREM RecordsAgreeHolds == AttendanceSpec => []RecordsAgree
  <1>1. AttendanceInv => RecordsAgree
    BY DEF AttendanceInv
  <1>2. AttendanceInv /\ [AttendanceNext]_attendanceVars => AttendanceInv'
    BY AttendanceInvKept
  <1> QED BY <1>1, <1>2, AttendanceInvInit, PTL DEF AttendanceSpec

-----------------------------------------------------------------------------
(* ClassChat: what a tab has been sent or has loaded is on its screen, or on *)
(* its way to it.                                                            *)

TabPc == {"closed", "ticket", "connect", "live", "polling", "dead"}
ChatTab == [pc : TabPc, load : {"none", "asked", "answered"}, shown : SUBSET Nat,
            wiped : BOOLEAN, room : Room \cup {Nowhere}, at : Server \cup {Nowhere},
            rows : SUBSET Nat]
Finding == [pc : {"limit", "create"}, user : Student, at : Server, room : Room]
Publishing == [pc : {"publish"}, user : Student, at : Server, message : Nat]
Stored == [room : Room, author : Student]

ChatTypeOK ==
    /\ enrolled \in [Member -> Room]
    /\ message \in Seq(Stored)
    /\ posting \in [Request -> {NoPost} \cup Finding \cup Publishing]
    /\ pipe \in [Server -> Seq(Nat)]
    /\ tab \in [Member -> ChatTab]
    /\ owed \in [Member -> SUBSET Nat]
    /\ faults \in Nat

\* Envelopes and requests name messages that are stored.
KnownInv ==
    /\ \A i \in Server : \A n \in 1 .. Len(pipe[i]) : pipe[i][n] \in 1 .. Len(message)
    /\ \A r \in Request : posting[r].pc = "publish" => posting[r].message \in 1 .. Len(message)

\* A socket that is up is on an instance; what is owed and not shown is in the
\* pipe to it.
Holds(q, m) == \E n \in 1 .. Len(q) : q[n] = m
TabTells(u) ==
    /\ Live(u) => tab[u].at \in Server
    /\ Live(u) /\ ~tab[u].wiped =>
          \A m \in owed[u] : \/ m \in tab[u].shown
                             \/ /\ Holds(pipe[tab[u].at], m) /\ m \in 1 .. Len(message)
                                /\ message[m].room = tab[u].room
    /\ tab[u].pc \notin {"live", "dead"} /\ ~tab[u].wiped => owed[u] \subseteq tab[u].shown
ChatInv == ChatTypeOK /\ KnownInv /\ \A u \in Member : TabTells(u)

-----------------------------------------------------------------------------
\* An envelope at the end of a pipe leaves the others where they are.
LEMMA PipeGrows ==
    ASSUME NEW q \in Seq(Nat), NEW m \in Nat
    PROVE  /\ Append(q, m) \in Seq(Nat)
           /\ \A n \in 1 .. Len(q) : n \in 1 .. Len(Append(q, m)) /\ Append(q, m)[n] = q[n]
           /\ Len(q) + 1 \in 1 .. Len(Append(q, m)) /\ Append(q, m)[Len(q) + 1] = m
           /\ \A n \in 1 .. Len(Append(q, m)) : n \in 1 .. Len(q) \/ Append(q, m)[n] = m
  OBVIOUS

\* The one taken out is the first; the others move up.
LEMMA PipeMoves ==
    ASSUME NEW q \in Seq(Nat), q # <<>>
    PROVE  /\ Head(q) \in Nat /\ Tail(q) \in Seq(Nat)
           /\ 1 \in 1 .. Len(q) /\ q[1] = Head(q)
           /\ \A n \in 1 .. Len(q) : n = 1 \/ (n - 1 \in 1 .. Len(Tail(q)) /\ Tail(q)[n - 1] = q[n])
           /\ \A n \in 1 .. Len(Tail(q)) : n + 1 \in 1 .. Len(q) /\ q[n + 1] = Tail(q)[n]
  OBVIOUS

LEMMA DeliveredShape ==
    ASSUME ChatTypeOK, NEW i, NEW m \in Nat, Delivered(i, m)
    PROVE  /\ tab' \in [Member -> ChatTab]
           /\ \A u \in Member :
                 /\ tab'[u].pc = tab[u].pc /\ tab'[u].wiped = tab[u].wiped
                 /\ tab'[u].room = tab[u].room /\ tab'[u].at = tab[u].at
                 /\ tab'[u].shown = IF u \in Hears(i, m) THEN tab[u].shown \cup {m}
                                    ELSE tab[u].shown
  <1>1. ASSUME NEW u \in Member
        PROVE  /\ tab'[u] \in ChatTab /\ tab'[u].pc = tab[u].pc /\ tab'[u].wiped = tab[u].wiped
               /\ tab'[u].room = tab[u].room /\ tab'[u].at = tab[u].at
               /\ tab'[u].shown = IF u \in Hears(i, m) THEN tab[u].shown \cup {m}
                                  ELSE tab[u].shown
    <2>1. PICK before \in ChatTab : before = tab[u]
      BY DEF ChatTypeOK
    <2>2. PICK after : after = [before EXCEPT !.shown = before.shown \cup {m}]
      OBVIOUS
    <2>3. /\ after \in ChatTab /\ after.pc = before.pc /\ after.wiped = before.wiped
          /\ after.room = before.room /\ after.at = before.at
          /\ after.shown = before.shown \cup {m}
      BY <2>2 DEF ChatTab
    <2>4. tab'[u] = IF u \in Hears(i, m) THEN after ELSE before
      BY <2>1, <2>2 DEF Delivered
    <2> QED BY <2>1, <2>3, <2>4
  <1>2. DOMAIN tab' = Member /\ tab' = [u \in Member |-> tab'[u]]
    BY DEF Delivered
  <1> QED BY <1>1, <1>2

\* A step that touches no tab and no pipe.
LEMMA TabsRest ==
    ASSUME ChatInv, UNCHANGED <<message, pipe, tab, owed>>, enrolled' \in [Member -> Room], faults' \in Nat,
           posting' \in [Request -> {NoPost} \cup Finding \cup Publishing],
           \A r \in Request : posting'[r].pc = "publish" => posting'[r].message \in 1 .. Len(message)
    PROVE  ChatInv'
  <1>1. ChatTypeOK' /\ KnownInv'
    BY DEF ChatInv, ChatTypeOK, KnownInv
  <1>2. \A u \in Member : TabTells(u)'
    BY DEF ChatInv, TabTells, Holds, Live
  <1> QED BY <1>1, <1>2 DEF ChatInv

\* A step of one member's tab.
LEMMA TabMoves ==
    ASSUME ChatInv, UNCHANGED <<enrolled, message, posting, pipe>>, faults' \in Nat,
           NEW u \in Member, NEW next \in ChatTab, tab' = [tab EXCEPT ![u] = next],
           NEW owes \in SUBSET Nat, owed' = [owed EXCEPT ![u] = owes],
           next.pc = "live" =>
              /\ next.at \in Server
              /\ next.wiped \/ \A m \in owes :
                    \/ m \in next.shown
                    \/ /\ Holds(pipe[next.at], m) /\ m \in 1 .. Len(message)
                       /\ message[m].room = next.room,
           next.pc \notin {"live", "dead"} /\ ~next.wiped => owes \subseteq next.shown
    PROVE  ChatInv'
  <1>1. /\ tab' \in [Member -> ChatTab] /\ tab'[u] = next
        /\ owed' \in [Member -> SUBSET Nat] /\ owed'[u] = owes
        /\ \A v \in Member \ {u} : tab'[v] = tab[v] /\ owed'[v] = owed[v]
    BY DEF ChatInv, ChatTypeOK
  <1>2. ChatTypeOK' /\ KnownInv'
    BY <1>1 DEF ChatInv, ChatTypeOK, KnownInv
  <1>3. ASSUME NEW v \in Member PROVE TabTells(v)'
    <2>1. CASE v = u
      BY <1>1, <2>1 DEF TabTells, Holds, Live
    <2>2. CASE v # u
      BY <1>1, <2>2 DEF ChatInv, TabTells, Holds, Live
    <2> QED BY <2>1, <2>2
  <1> QED BY <1>2, <1>3 DEF ChatInv

-----------------------------------------------------------------------------
LEMMA FindRoomKeeps ==
    ASSUME ChatInv, NEW r \in Request, NEW u \in Student, NEW i \in Server, FindRoom(r, u, i)
    PROVE  ChatInv'
  <1>1. UNCHANGED <<message, pipe, tab, owed, faults>> /\ enrolled' = enrolled /\ faults \in Nat
        /\ enrolled \in [Member -> Room]
        /\ posting \in [Request -> {NoPost} \cup Finding \cup Publishing]
    BY DEF FindRoom, ChatInv, ChatTypeOK
  <1>2. PICK new \in Finding : new = [pc |-> "limit", user |-> u, at |-> i, room |-> enrolled[u]]
    BY <1>1, ChatAssumption DEF Finding
  <1>3. posting' = [posting EXCEPT ![r] = new] /\ new.pc # "publish"
    BY <1>2 DEF FindRoom
  <1>4. /\ posting' \in [Request -> {NoPost} \cup Finding \cup Publishing]
        /\ \A v \in Request : posting'[v].pc = "publish" => posting'[v] = posting[v]
    BY <1>1, <1>3
  <1> QED BY <1>1, <1>4, TabsRest DEF ChatInv, KnownInv

\* A request passes the limit of its instance.
LEMMA AcceptPostKeeps ==
    ASSUME ChatInv, NEW r \in Request, AcceptPost(r)
    PROVE  ChatInv'
  <1>1. UNCHANGED <<message, pipe, tab, owed, faults>> /\ enrolled' = enrolled /\ faults \in Nat
        /\ enrolled \in [Member -> Room]
        /\ posting \in [Request -> {NoPost} \cup Finding \cup Publishing]
    BY DEF AcceptPost, ChatInv, ChatTypeOK
  <1>2. PICK before \in Finding : before = posting[r]
    BY <1>1 DEF AcceptPost, NoPost, Publishing
  <1>3. PICK new : new = [before EXCEPT !.pc = "create"]
    OBVIOUS
  <1>4. posting' = [posting EXCEPT ![r] = new] /\ new \in Finding /\ new.pc # "publish"
    <2>1. posting' = [posting EXCEPT ![r].pc = "create"]
      BY DEF AcceptPost, LimitRate
    <2>2. new \in Finding /\ new.pc # "publish"
      BY <1>3 DEF Finding
    <2> QED BY <1>1, <1>2, <1>3, <2>1, <2>2
  <1>5. /\ posting' \in [Request -> {NoPost} \cup Finding \cup Publishing]
        /\ \A v \in Request : posting'[v].pc = "publish" => posting'[v] = posting[v]
    BY <1>1, <1>4
  <1> QED BY <1>1, <1>5, TabsRest DEF ChatInv, KnownInv

LEMMA RefusePostKeeps ==
    ASSUME ChatInv, NEW r \in Request, RefusePost(r)
    PROVE  ChatInv'
  <1>1. UNCHANGED <<message, pipe, tab, owed, faults>> /\ enrolled' = enrolled /\ faults \in Nat
        /\ enrolled \in [Member -> Room]
        /\ posting \in [Request -> {NoPost} \cup Finding \cup Publishing]
    BY DEF RefusePost, ChatInv, ChatTypeOK
  <1>2. posting' = [posting EXCEPT ![r] = NoPost] /\ NoPost.pc # "publish"
    BY DEF RefusePost, NoPost
  <1>3. /\ posting' \in [Request -> {NoPost} \cup Finding \cup Publishing]
        /\ \A v \in Request : posting'[v].pc = "publish" => posting'[v] = posting[v]
    BY <1>1, <1>2
  <1> QED BY <1>1, <1>3, TabsRest DEF ChatInv, KnownInv

LEMMA CreateMessageKeeps ==
    ASSUME ChatInv, NEW r \in Request, CreateMessage(r)
    PROVE  ChatInv'
  <1>1. /\ UNCHANGED <<enrolled, pipe, tab, owed, faults>> /\ posting[r].pc = "create"
        /\ message \in Seq(Stored)
        /\ posting \in [Request -> {NoPost} \cup Finding \cup Publishing]
    BY DEF CreateMessage, ChatInv, ChatTypeOK
  <1>2. PICK before \in Finding : before = posting[r]
    BY <1>1 DEF NoPost, Publishing
  <1>3. PICK new : new = [pc |-> "publish", user |-> before.user, at |-> before.at,
                          message |-> Len(message) + 1]
    OBVIOUS
  <1>4. Len(message) \in Nat /\ Len(message) + 1 \in Nat
    BY <1>1
  <1>5. new \in Publishing /\ new.message = Len(message) + 1
    BY <1>2, <1>3, <1>4 DEF Finding, Publishing
  <1>6. posting' = [posting EXCEPT ![r] = new]
    BY <1>1, <1>2, <1>3 DEF CreateMessage
  <1>7. PICK row \in Stored : row = [room |-> before.room, author |-> before.user]
    BY <1>2 DEF Finding, Stored
  <1>8. message' = Append(message, row)
    BY <1>2, <1>7 DEF CreateMessage
  <1>9. /\ message' \in Seq(Stored) /\ Len(message') = Len(message) + 1
        /\ \A m \in 1 .. Len(message) : message'[m] = message[m]
    BY <1>1, <1>8
  <1>10. \A m : m \in 1 .. Len(message) => m \in 1 .. Len(message') /\ message'[m] = message[m]
    BY <1>4, <1>9
  <1>11. ChatTypeOK'
    BY <1>1, <1>5, <1>6, <1>9 DEF ChatInv, ChatTypeOK
  <1>12. KnownInv'
    <2>1. Len(message) + 1 \in 1 .. Len(message')
      BY <1>4, <1>9
    <2>2. \A v \in Request \ {r} : posting'[v] = posting[v]
      BY <1>1, <1>6
    <2>3. posting'[r] = new
      BY <1>1, <1>6
    <2>4. \A v \in Request : posting'[v].pc = "publish" => posting'[v].message \in 1 .. Len(message')
      BY <1>5, <1>10, <2>1, <2>2, <2>3 DEF ChatInv, KnownInv
    <2>5. \A i \in Server : \A n \in 1 .. Len(pipe'[i]) : pipe'[i][n] \in 1 .. Len(message')
      BY <1>1, <1>10 DEF ChatInv, KnownInv
    <2> QED BY <2>4, <2>5 DEF KnownInv
  <1>13. ASSUME NEW u \in Member PROVE TabTells(u)'
    <2>1. TabTells(u)
      BY DEF ChatInv
    <2> QED BY <1>1, <1>10, <2>1 DEF TabTells, Holds, Live
  <1> QED BY <1>11, <1>12, <1>13 DEF ChatInv

\* Whoever is reached at once shows the message; the others have it in their pipe.
LEMMA PublishMessageKeeps ==
    ASSUME ChatInv, NEW r \in Request, PublishMessage(r)
    PROVE  ChatInv'
  <1>1. /\ ChatTypeOK /\ UNCHANGED <<enrolled, message>> /\ posting[r].pc = "publish"
        /\ posting \in [Request -> {NoPost} \cup Finding \cup Publishing]
    BY DEF PublishMessage, ChatInv, ChatTypeOK
  <1>2. PICK before \in Publishing : before = posting[r]
    BY <1>1 DEF NoPost, Finding
  <1>3. PICK i \in Server, m \in Nat : i = posting[r].at /\ m = posting[r].message
    BY <1>2 DEF Publishing
  <1>4. m \in 1 .. Len(message)
    BY <1>1, <1>3 DEF ChatInv, KnownInv
  <1>5. PICK reached : reached = Hears(i, m) \cup
                             IF faults' = faults THEN UNION {Hears(j, m) : j \in Subscribed} ELSE {}
    OBVIOUS
  <1>5a. owed' = [u \in Member |-> IF u \in reached THEN owed[u] \cup {m} ELSE owed[u]]
    BY <1>3, <1>5 DEF PublishMessage
  <1>6. /\ Delivered(i, m) /\ posting' = [posting EXCEPT ![r] = NoPost]
        /\ \/ HandOver(m) /\ UNCHANGED faults
           \/ Faulty /\ UNCHANGED pipe
    BY <1>3 DEF PublishMessage, Publish
  <1>7. /\ tab' \in [Member -> ChatTab]
        /\ \A u \in Member :
              /\ tab'[u].pc = tab[u].pc /\ tab'[u].wiped = tab[u].wiped
              /\ tab'[u].room = tab[u].room /\ tab'[u].at = tab[u].at
              /\ tab'[u].shown = IF u \in Hears(i, m) THEN tab[u].shown \cup {m} ELSE tab[u].shown
    BY <1>1, <1>6, DeliveredShape
  <1>8. owed' \in [Member -> SUBSET Nat]
    BY <1>1, <1>3, <1>5a DEF ChatTypeOK
  <1>9. \A j \in Server : pipe'[j] = pipe[j] \/ pipe'[j] = Append(pipe[j], m)
    BY <1>1, <1>6 DEF HandOver, ChatTypeOK
  <1>10. pipe' \in [Server -> Seq(Nat)]
    <2>1. DOMAIN pipe' = Server /\ pipe' = [j \in Server |-> pipe'[j]]
      BY <1>1, <1>6 DEF HandOver, ChatTypeOK
    <2>2. \A j \in Server : pipe'[j] \in Seq(Nat)
      <3> TAKE j \in Server
      <3>1. pipe[j] \in Seq(Nat) /\ Append(pipe[j], m) \in Seq(Nat)
        BY <1>1 DEF ChatTypeOK
      <3> QED BY <1>9, <3>1
    <2> QED BY <2>1, <2>2
  <1>11. posting' \in [Request -> {NoPost} \cup Finding \cup Publishing]
         /\ \A v \in Request : posting'[v].pc = "publish" => posting'[v] = posting[v]
    <2>1. NoPost.pc # "publish"
      BY DEF NoPost
    <2> QED BY <1>1, <1>6, <2>1
  <1>12. ChatTypeOK'
    <2>1. faults' \in Nat
      BY <1>1, <1>6 DEF Faulty, ChatTypeOK
    <2> QED BY <1>1, <1>7, <1>8, <1>10, <1>11, <2>1 DEF ChatTypeOK
  <1>13. \A j \in Server : \A x : Holds(pipe[j], x) => Holds(pipe'[j], x)
    <2> SUFFICES ASSUME NEW j \in Server, NEW x, Holds(pipe[j], x) PROVE Holds(pipe'[j], x)
      OBVIOUS
    <2>1. PICK n \in 1 .. Len(pipe[j]) : pipe[j][n] = x
      BY DEF Holds
    <2>2. CASE pipe'[j] = pipe[j]
      BY <2>1, <2>2 DEF Holds
    <2>3. CASE pipe'[j] = Append(pipe[j], m)
      <3>1. pipe[j] \in Seq(Nat)
        BY <1>1 DEF ChatTypeOK
      <3>2. n \in 1 .. Len(pipe'[j]) /\ pipe'[j][n] = x
        BY <2>1, <2>3, <3>1, PipeGrows
      <3> QED BY <3>2 DEF Holds
    <2> QED BY <1>9, <2>2, <2>3
  <1>14. KnownInv'
    <2>1. ASSUME NEW j \in Server, NEW n \in 1 .. Len(pipe'[j]) PROVE pipe'[j][n] \in 1 .. Len(message')
      <3>1. pipe[j] \in Seq(Nat) /\ m \in 1 .. Len(message') /\ \A x : x \in 1 .. Len(message) => x \in 1 .. Len(message')
        BY <1>1, <1>4 DEF ChatTypeOK
      <3>2. CASE pipe'[j] = pipe[j]
        BY <2>1, <3>1, <3>2 DEF ChatInv, KnownInv
      <3>3. CASE pipe'[j] = Append(pipe[j], m)
        <4>1. n \in 1 .. Len(pipe[j]) \/ pipe'[j][n] = m
          BY <2>1, <3>1, <3>3, PipeGrows
        <4>2. n \in 1 .. Len(pipe[j]) => pipe'[j][n] = pipe[j][n]
          BY <3>1, <3>3, PipeGrows
        <4> QED BY <3>1, <4>1, <4>2 DEF ChatInv, KnownInv
      <3> QED BY <1>9, <3>2, <3>3
    <2>2. \A v \in Request : posting'[v].pc = "publish" => posting'[v].message \in 1 .. Len(message')
      BY <1>1, <1>11 DEF ChatInv, KnownInv
    <2> QED BY <2>1, <2>2 DEF KnownInv
  <1>15. ASSUME NEW u \in Member PROVE TabTells(u)'
    <2>1. TabTells(u)
      BY DEF ChatInv
    <2>2. u \in reached => Live(u) /\ tab[u].room = message[m].room
      BY <1>5 DEF Hears
    <2>3. owed'[u] = IF u \in reached THEN owed[u] \cup {m} ELSE owed[u]
      BY <1>5a
    <2>4. tab[u].shown \subseteq tab'[u].shown
      BY <1>7
    <2>5. CASE u \notin reached
      BY <1>1, <1>7, <1>13, <2>1, <2>3, <2>4, <2>5 DEF TabTells, Live
    <2>6. CASE u \in reached
      <3>1. Live(u) /\ Live(u)' /\ tab[u].at \in Server /\ tab'[u].at = tab[u].at
            /\ tab'[u].room = tab[u].room /\ tab'[u].wiped = tab[u].wiped
        BY <1>7, <2>1, <2>2, <2>6 DEF TabTells, Live
      <3>2. m \in tab'[u].shown \/ Holds(pipe'[tab[u].at], m)
        <4>1. CASE u \in Hears(i, m)
          BY <1>7, <4>1
        <4>2. CASE u \notin Hears(i, m)
          <5>1. faults' = faults /\ tab[u].at \in Subscribed
            BY <1>5, <2>6, <4>2 DEF Hears
          <5>2. HandOver(m)
            <6>1. faults + 1 # faults
              BY <1>1 DEF ChatTypeOK
            <6> QED BY <1>6, <5>1, <6>1 DEF Faulty
          <5>3. pipe'[tab[u].at] = Append(pipe[tab[u].at], m) /\ pipe[tab[u].at] \in Seq(Nat)
            BY <1>1, <3>1, <5>1, <5>2 DEF HandOver, ChatTypeOK
          <5>4. /\ Len(pipe[tab[u].at]) + 1 \in 1 .. Len(pipe'[tab[u].at])
                /\ pipe'[tab[u].at][Len(pipe[tab[u].at]) + 1] = m
            BY <5>3, PipeGrows
          <5>5. Holds(pipe'[tab[u].at], m)
            BY <5>4 DEF Holds
          <5> QED BY <5>5
        <4> QED BY <4>1, <4>2
      <3>3. ASSUME ~tab[u].wiped, NEW x \in owed'[u]
            PROVE  \/ x \in tab'[u].shown
                   \/ /\ Holds(pipe'[tab[u].at], x) /\ x \in 1 .. Len(message')
                      /\ message'[x].room = tab[u].room
        <4>1. CASE x = m
          BY <1>1, <1>4, <2>2, <2>6, <3>2, <4>1
        <4>2. CASE x # m
          <5>1. x \in owed[u]
            BY <2>3, <3>3, <4>2
          <5>2. \/ x \in tab[u].shown
                \/ /\ Holds(pipe[tab[u].at], x) /\ x \in 1 .. Len(message)
                   /\ message[x].room = tab[u].room
            BY <2>1, <3>1, <3>3, <5>1 DEF TabTells
          <5> QED BY <1>1, <1>13, <2>4, <3>1, <5>2
        <4> QED BY <4>1, <4>2
      <3> QED BY <3>1, <3>3 DEF TabTells, Live
    <2> QED BY <2>5, <2>6
  <1> QED BY <1>12, <1>14, <1>15 DEF ChatInv

LEMMA ReceiveKeeps ==
    ASSUME ChatInv, NEW i \in Server, Receive(i)
    PROVE  ChatInv'
  <1>1. /\ ChatTypeOK /\ UNCHANGED <<enrolled, message, posting, owed, faults>> /\ pipe[i] # <<>>
        /\ pipe[i] \in Seq(Nat) /\ pipe' = [pipe EXCEPT ![i] = Tail(pipe[i])]
    BY DEF Receive, ChatInv, ChatTypeOK
  <1>14. \A n \in 1 .. Len(pipe[i]) :
            n = 1 \/ (n - 1 \in 1 .. Len(Tail(pipe[i])) /\ Tail(pipe[i])[n - 1] = pipe[i][n])
    BY <1>1, PipeMoves
  <1>15. \A n \in 1 .. Len(Tail(pipe[i])) :
            n + 1 \in 1 .. Len(pipe[i]) /\ pipe[i][n + 1] = Tail(pipe[i])[n]
    BY <1>1, PipeMoves
  <1>2. PICK m \in Nat : m = Head(pipe[i])
    BY <1>1, PipeMoves
  <1>3. Delivered(i, m)
    BY <1>2 DEF Receive
  <1>4. /\ tab' \in [Member -> ChatTab]
        /\ \A u \in Member :
              /\ tab'[u].pc = tab[u].pc /\ tab'[u].wiped = tab[u].wiped
              /\ tab'[u].room = tab[u].room /\ tab'[u].at = tab[u].at
              /\ tab'[u].shown = IF u \in Hears(i, m) THEN tab[u].shown \cup {m} ELSE tab[u].shown
    BY <1>1, <1>3, DeliveredShape
  <1>5. pipe'[i] = Tail(pipe[i]) /\ \A j \in Server \ {i} : pipe'[j] = pipe[j]
    BY <1>1 DEF ChatTypeOK
  <1>6. pipe' \in [Server -> Seq(Nat)]
    <2>1. Tail(pipe[i]) \in Seq(Nat)
      BY <1>1, PipeMoves
    <2> QED BY <1>1, <2>1 DEF ChatTypeOK
  <1>7. ChatTypeOK'
    BY <1>1, <1>4, <1>6 DEF ChatTypeOK
  <1>8. KnownInv'
    <2>1. ASSUME NEW j \in Server, NEW n \in 1 .. Len(pipe'[j]) PROVE pipe'[j][n] \in 1 .. Len(message')
      <3>1. CASE j = i
        <4>1. n + 1 \in 1 .. Len(pipe[i]) /\ pipe[i][n + 1] = pipe'[i][n]
          BY <1>5, <1>15, <2>1, <3>1
        <4> QED BY <1>1, <3>1, <4>1 DEF ChatInv, KnownInv
      <3>2. CASE j # i
        BY <1>1, <1>5, <2>1, <3>2 DEF ChatInv, KnownInv
      <3> QED BY <3>1, <3>2
    <2>2. \A v \in Request : posting'[v].pc = "publish" => posting'[v].message \in 1 .. Len(message')
      BY <1>1 DEF ChatInv, KnownInv
    <2> QED BY <2>1, <2>2 DEF KnownInv
  <1>9. ASSUME NEW j \in Server, NEW x, Holds(pipe[j], x) PROVE Holds(pipe'[j], x) \/ (j = i /\ x = m)
    <2>1. PICK n \in 1 .. Len(pipe[j]) : pipe[j][n] = x
      BY <1>9 DEF Holds
    <2>2. CASE j # i
      BY <1>5, <2>1, <2>2 DEF Holds
    <2>3. CASE j = i
      <3>1. n = 1 \/ (n - 1 \in 1 .. Len(pipe'[i]) /\ pipe'[i][n - 1] = x)
        BY <1>5, <1>14, <2>1, <2>3
      <3>2. n = 1 => x = m
        BY <1>1, <1>2, <2>1, <2>3, PipeMoves
      <3>3. n - 1 \in 1 .. Len(pipe'[i]) /\ pipe'[i][n - 1] = x => Holds(pipe'[i], x)
        BY DEF Holds
      <3> QED BY <2>3, <3>1, <3>2, <3>3
    <2> QED BY <2>2, <2>3
  <1>10. ASSUME NEW u \in Member PROVE TabTells(u)'
    <2>1. TabTells(u)
      BY DEF ChatInv
    <2>2. tab[u].shown \subseteq tab'[u].shown
      BY <1>4
    <2>3. ASSUME Live(u), ~tab[u].wiped, NEW x \in owed[u]
          PROVE  \/ x \in tab'[u].shown
                 \/ /\ Holds(pipe'[tab[u].at], x) /\ x \in 1 .. Len(message)
                   /\ message[x].room = tab[u].room
      <3>1. \/ x \in tab[u].shown
            \/ /\ Holds(pipe[tab[u].at], x) /\ x \in 1 .. Len(message)
               /\ message[x].room = tab[u].room
        BY <2>1, <2>3 DEF TabTells
      <3>2. tab[u].at \in Server
        BY <2>1, <2>3 DEF TabTells
      <3>3. CASE tab[u].at = i /\ x = m /\ message[x].room = tab[u].room
        <4>1. u \in Hears(i, m)
          BY <2>3, <3>3 DEF Hears
        <4> QED BY <1>4, <3>3, <4>1
      <3> QED BY <1>9, <2>2, <3>1, <3>2, <3>3
    <2> QED BY <1>1, <1>4, <2>1, <2>2, <2>3 DEF TabTells, Live
  <1> QED BY <1>7, <1>8, <1>10 DEF ChatInv

\* Its tabs are dead, and what was in its pipe was for them.
LEMMA RestartServerKeeps ==
    ASSUME ChatInv, NEW i \in Server, RestartServer(i)
    PROVE  ChatInv'
  <1>1. /\ ChatTypeOK /\ UNCHANGED <<enrolled, message, owed>>
        /\ pipe' = [pipe EXCEPT ![i] = <<>>]
        /\ posting' = [r \in Request |-> IF posting[r] # NoPost /\ posting[r].at = i THEN NoPost
                                         ELSE posting[r]]
    BY DEF RestartServer, ChatInv
  <1>2. pipe'[i] = <<>> /\ \A j \in Server \ {i} : pipe'[j] = pipe[j]
    BY <1>1 DEF ChatTypeOK
  <1>3. ASSUME NEW u \in Member
        PROVE  /\ tab'[u] \in ChatTab /\ tab'[u].wiped = tab[u].wiped
               /\ tab'[u].room = tab[u].room /\ tab'[u].at = tab[u].at
               /\ tab'[u].shown = tab[u].shown
               /\ IF Live(u) /\ tab[u].at = i THEN tab'[u].pc = "dead" ELSE tab'[u].pc = tab[u].pc
    <2>1. PICK before \in ChatTab : before = tab[u]
      BY <1>1 DEF ChatTypeOK
    <2>2. PICK after : after = [before EXCEPT !.pc = "dead"]
      OBVIOUS
    <2>3. /\ after \in ChatTab /\ after.pc = "dead" /\ after.wiped = before.wiped
          /\ after.room = before.room /\ after.at = before.at /\ after.shown = before.shown
      BY <2>2 DEF ChatTab, TabPc
    <2>4. tab'[u] = IF Live(u) /\ tab[u].at = i THEN after ELSE before
      BY <2>1, <2>2 DEF RestartServer
    <2> QED BY <2>1, <2>3, <2>4
  <1>4. tab' \in [Member -> ChatTab]
    <2>1. DOMAIN tab' = Member /\ tab' = [u \in Member |-> tab'[u]]
      BY DEF RestartServer
    <2> QED BY <1>3, <2>1
  <1>5. ChatTypeOK'
    <2>1. <<>> \in Seq(Nat)
      OBVIOUS
    <2>2. pipe' \in [Server -> Seq(Nat)]
      BY <1>1, <2>1 DEF ChatTypeOK
    <2>3. posting' \in [Request -> {NoPost} \cup Finding \cup Publishing]
      BY <1>1 DEF ChatTypeOK
    <2>4. faults' \in Nat
      BY <1>1 DEF RestartServer, Faulty, ChatTypeOK
    <2> QED BY <1>1, <1>4, <2>2, <2>3, <2>4 DEF ChatTypeOK
  <1>6. KnownInv'
    <2>1. ASSUME NEW j \in Server, NEW n \in 1 .. Len(pipe'[j]) PROVE pipe'[j][n] \in 1 .. Len(message')
      <3>1. j # i
        BY <1>2, <2>1
      <3> QED BY <1>1, <1>2, <2>1, <3>1 DEF ChatInv, KnownInv
    <2>2. \A v \in Request : posting'[v].pc = "publish" => posting'[v] = posting[v]
      BY <1>1 DEF NoPost
    <2>3. \A v \in Request : posting'[v].pc = "publish" => posting'[v].message \in 1 .. Len(message')
      BY <1>1, <2>2 DEF ChatInv, KnownInv
    <2> QED BY <2>1, <2>3 DEF KnownInv
  <1>7. ASSUME NEW u \in Member PROVE TabTells(u)'
    <2>1. TabTells(u)
      BY DEF ChatInv
    <2>2. CASE Live(u) /\ tab[u].at = i
      BY <1>3, <2>2 DEF TabTells, Live
    <2>3. CASE ~(Live(u) /\ tab[u].at = i)
      <3>1. tab'[u].pc = tab[u].pc
        BY <1>3, <2>3
      <3>2. Live(u) => tab[u].at \in Server \ {i}
        BY <2>1, <2>3 DEF TabTells
      <3>3. Live(u) => \A x : Holds(pipe[tab[u].at], x) => Holds(pipe'[tab[u].at], x)
        BY <1>2, <3>2 DEF Holds
      <3> QED BY <1>1, <1>3, <2>1, <3>1, <3>2, <3>3 DEF TabTells, Live
    <2> QED BY <2>2, <2>3
  <1> QED BY <1>5, <1>6, <1>7 DEF ChatInv

\* The hub's and the directory's own affairs.
LEMMA AsideKeeps ==
    ASSUME ChatInv, NEW i, NEW u,
           \/ PassInterval(i, u) \/ Subscribe(i)
           \/ \E room \in Room : MoveSection(u, room)
    PROVE  ChatInv'
  <1>1. UNCHANGED <<message, pipe, tab, owed, posting>>
    BY DEF PassInterval, Subscribe, MoveSection
  <1>2. faults' \in Nat
    BY DEF PassInterval, Subscribe, MoveSection, Faulty, ChatInv, ChatTypeOK
  <1>3. enrolled' \in [Member -> Room]
    BY DEF PassInterval, Subscribe, MoveSection, ChatInv, ChatTypeOK
  <1>4. /\ posting' \in [Request -> {NoPost} \cup Finding \cup Publishing]
        /\ \A r \in Request : posting'[r].pc = "publish" =>
              posting'[r].message \in 1 .. Len(message)
    BY <1>1 DEF ChatInv, ChatTypeOK, KnownInv
  <1> QED BY <1>1, <1>2, <1>3, <1>4, TabsRest

\* The screen stays; the socket, or the load, takes its next step.
LEMMA ScreenStays ==
    ASSUME ChatInv, UNCHANGED <<enrolled, message, posting, pipe, owed>>, faults' \in Nat,
           NEW u \in Member, NEW next \in ChatTab, tab' = [tab EXCEPT ![u] = next],
           next.shown = tab[u].shown, next.wiped = tab[u].wiped,
           next.pc = "live" =>
              \/ /\ tab[u].pc = "live" /\ next.at = tab[u].at /\ next.room = tab[u].room
              \/ /\ tab[u].pc = "connect" /\ next.at \in Server,
           next.pc \notin {"live", "dead"} => tab[u].pc \notin {"live", "dead"}
    PROVE  ChatInv'
  <1>1. owed' = [owed EXCEPT ![u] = owed[u]] /\ owed[u] \in SUBSET Nat
    BY DEF ChatInv, ChatTypeOK
  <1>2. TabTells(u)
    BY DEF ChatInv
  <1>3. next.pc = "live" =>
           /\ next.at \in Server
           /\ next.wiped \/ \A m \in owed[u] :
                 \/ m \in next.shown
                 \/ /\ Holds(pipe[next.at], m) /\ m \in 1 .. Len(message)
                    /\ message[m].room = next.room
    BY <1>2 DEF TabTells, Live
  <1>4. next.pc \notin {"live", "dead"} /\ ~next.wiped => owed[u] \subseteq next.shown
    BY <1>2 DEF TabTells
  <1>5. /\ UNCHANGED <<enrolled, message, posting, pipe>>
        /\ tab' = [tab EXCEPT ![u] = next]
    OBVIOUS
  <1> QED BY <1>1, <1>3, <1>4, <1>5, TabMoves

LEMMA OpenTabKeeps ==
    ASSUME ChatInv, NEW u \in Member, OpenTab(u)
    PROVE  ChatInv'
  <1>1. PICK before \in ChatTab : before = tab[u]
    BY DEF ChatInv, ChatTypeOK
  <1>2. PICK next : next = [before EXCEPT !.pc = "ticket", !.load = "asked"]
    OBVIOUS
  <1>3. /\ next \in ChatTab /\ next.pc = "ticket" /\ next.shown = before.shown
        /\ next.wiped = before.wiped
    BY <1>2 DEF ChatTab, TabPc
  <1>4. tab' = [tab EXCEPT ![u] = next] /\ tab[u].pc = "closed"
    BY <1>1, <1>2 DEF OpenTab, Tab
  <1>5. UNCHANGED <<enrolled, message, posting, pipe, owed>> /\ faults' \in Nat
    BY DEF OpenTab, TabRests, ChatInv, ChatTypeOK
  <1> QED BY <1>1, <1>3, <1>4, <1>5, ScreenStays

LEMMA MintTicketKeeps ==
    ASSUME ChatInv, NEW u \in Member, MintTicket(u)
    PROVE  ChatInv'
  <1>1. PICK before \in ChatTab : before = tab[u]
    BY DEF ChatInv, ChatTypeOK
  <1>2. PICK room \in Room : room = enrolled[u]
    BY DEF ChatInv, ChatTypeOK
  <1>3. PICK next : next = [before EXCEPT !.pc = "connect", !.room = room]
    OBVIOUS
  <1>4. /\ next \in ChatTab /\ next.pc = "connect" /\ next.shown = before.shown
        /\ next.wiped = before.wiped
    BY <1>3 DEF ChatTab, TabPc
  <1>5. tab' = [tab EXCEPT ![u] = next] /\ tab[u].pc = "ticket"
    BY <1>1, <1>2, <1>3 DEF MintTicket, Tab
  <1>6. UNCHANGED <<enrolled, message, posting, pipe, owed>> /\ faults' \in Nat
    BY DEF MintTicket, TabRests, ChatInv, ChatTypeOK
  <1> QED BY <1>1, <1>4, <1>5, <1>6, ScreenStays

LEMMA RegisterKeeps ==
    ASSUME ChatInv, NEW u \in Member, NEW i \in Server, Register(u, i)
    PROVE  ChatInv'
  <1>1. PICK before \in ChatTab : before = tab[u]
    BY DEF ChatInv, ChatTypeOK
  <1>2. PICK next : next = [before EXCEPT !.pc = "live", !.at = i]
    OBVIOUS
  <1>3. /\ next \in ChatTab /\ next.pc = "live" /\ next.shown = before.shown
        /\ next.wiped = before.wiped /\ next.at = i
    BY <1>2 DEF ChatTab, TabPc
  <1>4. tab' = [tab EXCEPT ![u] = next] /\ tab[u].pc = "connect"
    BY <1>1, <1>2 DEF Register, Tab
  <1>5. UNCHANGED <<enrolled, message, posting, pipe, owed>> /\ faults' \in Nat
    BY DEF Register, TabRests, ChatInv, ChatTypeOK
  <1> QED BY <1>1, <1>3, <1>4, <1>5, ScreenStays

LEMMA LoseSocketKeeps ==
    ASSUME ChatInv, NEW u \in Member, LoseSocket(u)
    PROVE  ChatInv'
  <1>1. PICK before \in ChatTab : before = tab[u]
    BY DEF ChatInv, ChatTypeOK
  <1>2. PICK pc : pc = IF before.pc = "ticket" THEN "polling" ELSE "dead"
    OBVIOUS
  <1>3. PICK next : next = [before EXCEPT !.pc = pc]
    OBVIOUS
  <1>4. /\ next \in ChatTab /\ next.pc = pc /\ next.shown = before.shown
        /\ next.wiped = before.wiped
    BY <1>2, <1>3 DEF ChatTab, TabPc
  <1>5. tab' = [tab EXCEPT ![u] = next]
    BY <1>1, <1>2, <1>3 DEF LoseSocket, Tab
  <1>6. UNCHANGED <<enrolled, message, posting, pipe, owed>> /\ faults' \in Nat
    BY DEF LoseSocket, TabRests, Faulty, ChatInv, ChatTypeOK
  <1> QED BY <1>1, <1>2, <1>4, <1>5, <1>6, ScreenStays

LEMMA AskAgainKeeps ==
    ASSUME ChatInv, NEW u \in Member, AskAgain(u)
    PROVE  ChatInv'
  <1>1. PICK before \in ChatTab : before = tab[u]
    BY DEF ChatInv, ChatTypeOK
  <1>2. PICK next : next = [before EXCEPT !.load = "asked"]
    OBVIOUS
  <1>3. /\ next \in ChatTab /\ next.pc = before.pc /\ next.shown = before.shown
        /\ next.wiped = before.wiped /\ next.at = before.at /\ next.room = before.room
    BY <1>2 DEF ChatTab
  <1>4. tab' = [tab EXCEPT ![u] = next]
    BY <1>1, <1>2 DEF AskAgain, Tab
  <1>5. UNCHANGED <<enrolled, message, posting, pipe, owed>> /\ faults' \in Nat
    BY DEF AskAgain, TabRests, ChatInv, ChatTypeOK
  <1> QED BY <1>1, <1>3, <1>4, <1>5, ScreenStays

LEMMA ReadRoomKeeps ==
    ASSUME ChatInv, NEW u \in Member, ReadRoom(u)
    PROVE  ChatInv'
  <1>1. PICK before \in ChatTab : before = tab[u]
    BY DEF ChatInv, ChatTypeOK
  <1>2. PICK found \in SUBSET Nat : found = Page(enrolled[u])
    <2>1. message \in Seq(Stored)
      BY DEF ChatInv, ChatTypeOK
    <2>2. DOMAIN message \subseteq Nat
      BY <2>1
    <2> QED BY <2>2 DEF InRoom, Page
  <1>3. PICK next : next = [before EXCEPT !.load = "answered", !.rows = found]
    OBVIOUS
  <1>4. /\ next \in ChatTab /\ next.pc = before.pc /\ next.shown = before.shown
        /\ next.wiped = before.wiped /\ next.at = before.at /\ next.room = before.room
    BY <1>2, <1>3 DEF ChatTab
  <1>5. tab' = [tab EXCEPT ![u] = next]
    BY <1>1, <1>2, <1>3 DEF ReadRoom, Tab
  <1>6. UNCHANGED <<enrolled, message, posting, pipe, owed>> /\ faults' \in Nat
    BY DEF ReadRoom, TabRests, ChatInv, ChatTypeOK
  <1> QED BY <1>1, <1>4, <1>5, <1>6, ScreenStays

\* What was on the screen, is not in the answer and is not dropped with the
\* page is wiped off it.
LEMMA ShowRoomKeeps ==
    ASSUME ChatInv, NEW u \in Member, ShowRoom(u)
    PROVE  ChatInv'
  <1>1. PICK before \in ChatTab : before = tab[u]
    BY DEF ChatInv, ChatTypeOK
  <1>2. PICK page \in SUBSET Nat : page = before.rows
    BY DEF ChatTab
  <1>3. PICK adds \in {FALSE} \cup {before.pc = "polling"}, dropped \in SUBSET owed[u] :
           /\ tab' = [tab EXCEPT ![u] =
                       [before EXCEPT !.load = "none",
                                      !.shown = IF adds THEN @ \cup page ELSE page,
                                      !.wiped = @ \/ (~adds /\ before.shown \ (page \cup dropped) # {})]]
           /\ owed' = [owed EXCEPT ![u] = (@ \ dropped) \cup page]
    <2>1. PICK adds \in {FALSE} \cup {before.pc = "polling"} :
             LET dropped == IF adds \/ Cardinality(page) < PageSize THEN {}
                            ELSE {m \in owed[u] : \A n \in page : m < n}
             IN  /\ tab' = [tab EXCEPT ![u] =
                           [before EXCEPT !.load = "none",
                                          !.shown = IF adds THEN @ \cup page ELSE page,
                                          !.wiped = @ \/ (~adds /\ before.shown \ (page \cup dropped) # {})]]
                 /\ owed' = [owed EXCEPT ![u] = (@ \ dropped) \cup page]
      BY <1>1, <1>2 DEF ShowRoom, Tab
    <2>2. PICK dropped : dropped = IF adds \/ Cardinality(page) < PageSize THEN {}
                                   ELSE {m \in owed[u] : \A n \in page : m < n}
      OBVIOUS
    <2>3. dropped \in SUBSET owed[u]
      BY <2>2
    <2> QED BY <2>1, <2>2, <2>3
  <1>4. PICK shows : shows = IF adds THEN before.shown \cup page ELSE page
    OBVIOUS
  <1>5. PICK wiped \in BOOLEAN :
           wiped <=> before.wiped \/ (~adds /\ before.shown \ (page \cup dropped) # {})
    OBVIOUS
  <1>6. before.wiped \in BOOLEAN /\ shows \in SUBSET Nat
    BY <1>4 DEF ChatTab
  <1>7. PICK next : next = [before EXCEPT !.load = "none", !.shown = shows, !.wiped = wiped]
    OBVIOUS
  <1>8. /\ next \in ChatTab /\ next.pc = before.pc /\ next.shown = shows
        /\ next.wiped = wiped /\ next.at = before.at /\ next.room = before.room
    BY <1>6, <1>7 DEF ChatTab
  <1>9. wiped = (before.wiped \/ (~adds /\ before.shown \ (page \cup dropped) # {}))
    BY <1>5, Zenon
  <1>10. tab' = [tab EXCEPT ![u] = next]
    BY <1>3, <1>4, <1>7, <1>9
  <1>11. PICK owes : owes = (owed[u] \ dropped) \cup page
    OBVIOUS
  <1>12. owes \in SUBSET Nat /\ owed' = [owed EXCEPT ![u] = owes]
    BY <1>3, <1>11 DEF ChatInv, ChatTypeOK
  <1>13. UNCHANGED <<enrolled, message, posting, pipe>> /\ faults' \in Nat
    BY DEF ShowRoom, TabRests, ChatInv, ChatTypeOK
  <1>14. TabTells(u)
    BY DEF ChatInv
  <1>15. ~wiped => ~before.wiped /\ before.shown \ dropped \subseteq shows
    BY <1>4, <1>5
  <1>16. page \subseteq shows
    BY <1>4
  <1>17. next.pc = "live" =>
            /\ next.at \in Server
            /\ next.wiped \/ \A m \in owes :
                  \/ m \in next.shown
                  \/ /\ Holds(pipe[next.at], m) /\ m \in 1 .. Len(message)
                     /\ message[m].room = next.room
    BY <1>1, <1>8, <1>11, <1>14, <1>15, <1>16 DEF TabTells, Live
  <1>18. next.pc \notin {"live", "dead"} /\ ~next.wiped => owes \subseteq next.shown
    BY <1>1, <1>8, <1>11, <1>14, <1>15, <1>16 DEF TabTells
  <1> QED BY <1>8, <1>10, <1>12, <1>13, <1>17, <1>18, TabMoves

-----------------------------------------------------------------------------
LEMMA ChatStarts == ChatInit => ChatInv
  <1> SUFFICES ASSUME ChatInit PROVE ChatInv
    OBVIOUS
  <1>1. NewTab \in ChatTab /\ NewTab.pc = "closed" /\ <<>> \in Seq(Nat) /\ NoPost.pc = "idle"
    BY DEF NewTab, ChatTab, TabPc, NoPost
  <1>2. ChatTypeOK
    BY <1>1 DEF ChatInit, ChatTypeOK
  <1>3. KnownInv
    BY <1>1 DEF ChatInit, KnownInv
  <1>4. \A u \in Member : TabTells(u)
    BY <1>1 DEF ChatInit, TabTells, Live
  <1> QED BY <1>2, <1>3, <1>4 DEF ChatInv

LEMMA ChatKeeps == ChatInv /\ [ChatNext]_chatVars => ChatInv'
  <1> SUFFICES ASSUME ChatInv, [ChatNext]_chatVars PROVE ChatInv'
    OBVIOUS
  <1>1. ASSUME NEW r \in Request, PostSteps(r) PROVE ChatInv'
    BY <1>1, FindRoomKeeps, AcceptPostKeeps, RefusePostKeeps, CreateMessageKeeps,
       PublishMessageKeeps DEF PostSteps
  <1>2. ASSUME NEW i \in Server, Hub(i) PROVE ChatInv'
    BY <1>2, AsideKeeps, ReceiveKeeps, RestartServerKeeps DEF Hub
  <1>3. ASSUME NEW u \in Member, Show(u) PROVE ChatInv'
    BY <1>3, OpenTabKeeps, MintTicketKeeps, RegisterKeeps, LoseSocketKeeps, AskAgainKeeps,
       ReadRoomKeeps, ShowRoomKeeps, AsideKeeps DEF Show
  <1>4. CASE UNCHANGED chatVars
    <2>1. /\ UNCHANGED <<message, pipe, tab, owed, posting>> /\ faults' = faults
          /\ enrolled' = enrolled
      BY <1>4 DEF chatVars
    <2> QED BY <2>1, TabsRest DEF ChatInv, ChatTypeOK, KnownInv
  <1> QED BY <1>1, <1>2, <1>3, <1>4 DEF ChatNext

\* The class-room chat, for any members, rooms, instances and faults: a tab
\* whose socket is up shows all that it has loaded and all that was published
\* to its room since, once Redis has handed it over, back to its last page, unless
\* a load wiped it off.
THEOREM SeesTheRoomHolds == ChatSpec => []SeesTheRoom
  <1>1. ChatInv => SeesTheRoom
    <2> SUFFICES ASSUME ChatInv, NEW u \in Member, Live(u), pipe[tab[u].at] = <<>>, ~tab[u].wiped
                 PROVE  owed[u] \subseteq tab[u].shown
      BY DEF SeesTheRoom
    <2>1. TabTells(u)
      BY DEF ChatInv
    <2>2. \A m : ~Holds(pipe[tab[u].at], m)
      BY DEF Holds
    <2> QED BY <2>1, <2>2 DEF TabTells
  <1> QED BY <1>1, ChatStarts, ChatKeeps, PTL DEF ChatSpec
=============================================================================
