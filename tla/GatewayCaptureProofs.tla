------------------------- MODULE GatewayCaptureProofs -------------------------
(***************************************************************************)
(* Proofs about GatewayCapture, for every number of intents, gateway        *)
(* payments, handlers and faults: an intent is credited at most once, its   *)
(* status says whether it was, what was credited was taken at the gateway,  *)
(* and a claimed row keeps exactly one owner unless a process dies.         *)
(***************************************************************************)
EXTENDS GatewayCapture, TLAPS

USE GatewayAssumption DEF Payment, Worker

-----------------------------------------------------------------------------
(* What the invariant gives *)

\* Webhook, verify and reconcile may all race on an intent, with lost replies
\* and crashes in between: its money transaction commits at most once.
CreditedOnce == \A p \in Payment : credit[p] <= 1

\* A row says SUCCESS or REFUNDED exactly when its money was credited.
StatusTellsCredit ==
    \A p \in Payment : status[p] \in {"SUCCESS", "REFUNDED"} <=> credit[p] > 0

\* Nothing is credited that the gateway did not take, on that order and for
\* the amount of the row.
CreditIsEarned ==
    \A p \in Payment :
        credit[p] > 0 =>
            \E a \in Attempt : key[p] = a /\ att[a].p = p /\ IsPaid(a) /\ att[a].right

\* A claim is never forgotten: unless a worker died, a PENDING row has the one
\* worker that will credit or release it.
InCapture(w, p) == task[w].pc \in {"lookup", "commit", "release"} /\ task[w].p = p

ClaimHasOwner ==
    crashed \/ \A p \in Payment :
        status[p] = "PENDING" => \E w \in Worker :
            InCapture(w, p) /\ \A v \in Worker : InCapture(v, p) => v = w

-----------------------------------------------------------------------------
(* The parts of the inductive invariant *)

Credited == {"SUCCESS", "REFUNDED"}

\* An attempt that was made is made on an order that exists.
Attempts == \A a \in Attempt : att[a].state # "none" => att[a].p \in Payment

\* A request that captures holds a paid attempt on its own row, and the amounts
\* have been compared once it claims.
Capture == {"read", "claim", "lookup", "commit", "release"}

RequestOK(w) ==
    /\ task[w].pc \in Capture =>
          /\ task[w].p \in Payment /\ task[w].a \in Attempt
          /\ IsPaid(task[w].a) /\ att[task[w].a].p = task[w].p
    /\ task[w].pc \in {"claim", "lookup", "commit", "release"} =>
          att[task[w].a].right

Requests == \A w \in Worker : RequestOK(w)

\* Status, credit and key of a row change together, and the key is an attempt
\* that was paid on the row, for its amount.
Books ==
    \A p \in Payment :
        /\ credit[p] = IF status[p] \in Credited THEN 1 ELSE 0
        /\ key[p] # NoAttempt <=> status[p] \in Credited
        /\ key[p] # NoAttempt =>
              IsPaid(key[p]) /\ att[key[p]].p = p /\ att[key[p]].right

\* Whoever goes for the commit has claimed the row, and nobody else has.
Claims ==
    \A w \in Worker, p \in Payment : InCapture(w, p) =>
        /\ status[p] \in {"PENDING"} \cup Credited
        /\ task[w].pc # "release" => status[p] = "PENDING"
        /\ \A v \in Worker : InCapture(v, p) => v = w

\* A claimed row has an owner.
Owned ==
    crashed \/ \A p \in Payment :
        status[p] = "PENDING" => \E w \in Worker : InCapture(w, p)

CaptureInv == TypeOK /\ Attempts /\ Requests /\ Books /\ Claims /\ Owned

-----------------------------------------------------------------------------
(* Facts about one worker's move *)

Task == [pc : Stage, p : Payment \cup {0}, a : Attempt \cup {NoAttempt},
         todo : SUBSET Payment]

\* Only w's request changes.
OthersStay(w) == \A v \in Worker : v # w => task'[v] = task[v]

LEMMA IdleTask == Idle \in Task /\ Idle.pc = "idle"
BY DEF Idle, Task, Stage

LEMMA GotoFacts ==
    ASSUME TypeOK, NEW w \in Worker, NEW pc \in Stage, Goto(w, pc)
    PROVE  /\ task' \in [Worker -> Task] /\ OthersStay(w)
           /\ task'[w].pc = pc /\ task'[w].p = task[w].p /\ task'[w].a = task[w].a
<1>1. task[w] \in Task
  BY DEF TypeOK, Task
<1>2. [task[w] EXCEPT !.pc = pc] \in Task
  BY <1>1 DEF Task
<1> QED BY <1>1, <1>2 DEF TypeOK, Task, Goto, OthersStay

LEMMA BecomesFacts ==
    ASSUME TypeOK, NEW w \in Worker, NEW r \in Task, task' = [task EXCEPT ![w] = r]
    PROVE  task' \in [Worker -> Task] /\ OthersStay(w) /\ task'[w] = r
BY DEF TypeOK, Task, OthersStay

LEMMA ContinueFacts ==
    ASSUME NEW w, NEW todo \in SUBSET Payment
    PROVE  Continue(w, todo) \in Task /\ Continue(w, todo).pc \in {"idle", "next"}
BY DEF Continue, Idle, Task, Stage

LEMMA ReturnFacts ==
    ASSUME TypeOK, NEW w \in Worker, Return(w)
    PROVE  /\ task' \in [Worker -> Task] /\ OthersStay(w)
           /\ task'[w].pc \in {"idle", "next"}
<1>1. task[w].todo \in SUBSET Payment
  BY DEF TypeOK
<1>2. task' = [task EXCEPT ![w] = Continue(w, task[w].todo)]
  BY DEF Return, TypeOK
<1> QED BY <1>1, <1>2, ContinueFacts, BecomesFacts

LEMMA CapturingTask ==
    ASSUME NEW p \in Payment, NEW a \in Attempt, NEW todo \in SUBSET Payment
    PROVE  Capturing(p, a, todo) \in Task
BY DEF Capturing, Task, Stage

\* Steps of a worker that leave the attempts alone disturb Requests only there.
LEMMA RequestsKept ==
    ASSUME Requests, NEW w \in Worker, OthersStay(w), UNCHANGED att, RequestOK(w)'
    PROVE  Requests'
BY DEF Requests, RequestOK, OthersStay, IsPaid

\* The same for Claims and Owned, when no status changes and the worker keeps
\* what it has claimed.
LEMMA ClaimsKept ==
    ASSUME Claims, NEW w \in Worker, OthersStay(w), UNCHANGED status,
           \A p \in Payment : InCapture(w, p)' =>
               InCapture(w, p) /\ (task'[w].pc = "release" \/ task[w].pc # "release")
    PROVE  Claims'
BY DEF Claims, InCapture, OthersStay

LEMMA OwnedKept ==
    ASSUME Owned, NEW w \in Worker, OthersStay(w), UNCHANGED <<status, crashed>>,
           \A p \in Payment : InCapture(w, p) /\ status[p] = "PENDING" => InCapture(w, p)'
    PROVE  Owned'
BY DEF Owned, InCapture, OthersStay

-----------------------------------------------------------------------------
(* Every step keeps the invariant *)

LEMMA InitInv == Init => CaptureInv
<1> SUFFICES ASSUME Init PROVE CaptureInv
  OBVIOUS
<1>1. TypeOK
  BY IdleTask DEF Init, TypeOK, Status, Task
<1>2. \A w \in Worker : task[w].pc = "idle"
  BY IdleTask DEF Init
<1>3. Requests /\ Claims
  BY <1>2 DEF Requests, RequestOK, Claims, InCapture, Capture
<1>4. Attempts /\ Books /\ Owned
  BY DEF Init, Attempts, Books, Owned, Credited
<1> QED BY <1>1, <1>3, <1>4 DEF CaptureInv

LEMMA CreateOrderInv ==
    ASSUME CaptureInv, NEW p \in Payment, NEW ok \in BOOLEAN, CreateOrder(p, ok)
    PROVE  CaptureInv'
<1> USE DEF CaptureInv, CreateOrder, rows, errors
<1>1. TypeOK'
  BY DEF TypeOK, Status
<1>2. Attempts' /\ Requests'
  BY DEF Attempts, Requests, RequestOK, IsPaid
<1>3. Books'
  <2>1. \A q \in Payment : status'[q] \in Credited <=> status[q] \in Credited
    BY DEF TypeOK, Credited
  <2> QED BY <2>1 DEF Books, IsPaid
<1>4. Claims'
  BY DEF TypeOK, Claims, InCapture, Credited
<1>5. Owned'
  BY DEF TypeOK, Owned, InCapture
<1> QED BY <1>1, <1>2, <1>3, <1>4, <1>5

LEMMA RefundInv ==
    ASSUME CaptureInv, NEW p \in Payment, Refund(p)
    PROVE  CaptureInv'
<1> USE DEF CaptureInv, Refund, rows, errors
<1>1. TypeOK'
  BY DEF TypeOK, Status
<1>2. Attempts' /\ Requests'
  BY DEF Attempts, Requests, RequestOK, IsPaid
<1>3. Books'
  BY DEF TypeOK, Books, IsPaid, Credited
<1>4. Claims'
  BY DEF TypeOK, Claims, InCapture, Credited
<1>5. Owned'
  BY DEF TypeOK, Owned, InCapture
<1> QED BY <1>1, <1>2, <1>3, <1>4, <1>5

LEMMA FailWebhookInv ==
    ASSUME CaptureInv, NEW w \in Handler, NEW a \in Attempt, FailWebhook(w, a)
    PROVE  CaptureInv'
<1> USE DEF CaptureInv, FailWebhook, rows, errors
<1>1. TypeOK'
  BY DEF TypeOK, Status
<1>2. Attempts' /\ Requests'
  BY DEF Attempts, Requests, RequestOK, IsPaid
<1>3. Books'
  <2>1. \A q \in Payment : status'[q] \in Credited <=> status[q] \in Credited
    BY DEF TypeOK, Credited
  <2> QED BY <2>1 DEF Books, IsPaid
<1>4. Claims'
  BY DEF TypeOK, Claims, InCapture, Credited
<1>5. Owned'
  BY DEF TypeOK, Owned, InCapture
<1> QED BY <1>1, <1>2, <1>3, <1>4, <1>5

LEMMA TryPayInv ==
    ASSUME CaptureInv, NEW a \in Attempt, NEW p \in Payment, NEW o \in Outcomes,
           NEW r \in Exact, TryPay(a, p, o, r)
    PROVE  CaptureInv'
<1> USE DEF CaptureInv, TryPay, rows, errors
<1>1. TypeOK'
  BY DEF TypeOK
<1>2. Attempts'
  BY DEF TypeOK, Attempts
<1>3. Requests'
  BY DEF TypeOK, Requests, RequestOK, IsPaid, Paid, Capture
<1>4. Books'
  BY DEF TypeOK, Books, IsPaid, Paid
<1>5. Claims' /\ Owned'
  BY DEF Claims, Owned, InCapture
<1> QED BY <1>1, <1>2, <1>3, <1>4, <1>5

LEMMA SettleInv ==
    ASSUME CaptureInv, NEW a \in Attempt, Settle(a)
    PROVE  CaptureInv'
<1> USE DEF CaptureInv, Settle, rows, errors
<1>1. TypeOK'
  <2>1. att[a] \in [p : Payment \cup {0}, right : BOOLEAN,
                   state : {"none", "failed", "authorized", "captured"}]
    BY DEF TypeOK
  <2>2. [att[a] EXCEPT !.state = "captured"] \in
            [p : Payment \cup {0}, right : BOOLEAN,
             state : {"none", "failed", "authorized", "captured"}]
    BY <2>1
  <2> QED BY <2>2 DEF TypeOK
<1>2. Attempts'
  BY DEF TypeOK, Attempts
<1>3. Requests'
  BY DEF TypeOK, Requests, RequestOK, IsPaid, Paid
<1>4. Books'
  BY DEF TypeOK, Books, IsPaid, Paid
<1>5. Claims' /\ Owned'
  BY DEF Claims, Owned, InCapture
<1> QED BY <1>1, <1>2, <1>3, <1>4, <1>5

LEMMA StartReconcileInv ==
    ASSUME CaptureInv, StartReconcile
    PROVE  CaptureInv'
<1> USE DEF CaptureInv, StartReconcile, rows, errors
<1> DEFINE r == [Idle EXCEPT !.pc = "next", !.todo = Stale]
<1>a. r \in Task /\ r.pc = "next"
  BY DEF Idle, Task, Stage, Stale
<1>b. /\ task' \in [Worker -> Task] /\ OthersStay(Reconciler) /\ task'[Reconciler] = r
      /\ task[Reconciler].pc = "idle"
  BY <1>a, BecomesFacts, IdleTask
<1> HIDE DEF r
<1>1. TypeOK'
  BY <1>a, <1>b DEF TypeOK, Task
<1>2. Attempts' /\ Books'
  BY DEF Attempts, Books, IsPaid
<1>3. Requests'
  BY <1>a, <1>b, RequestsKept DEF RequestOK, Capture
<1>4. Claims' /\ Owned'
  BY <1>a, <1>b, ClaimsKept, OwnedKept DEF InCapture
<1> QED BY <1>1, <1>2, <1>3, <1>4

LEMMA CaptureWebhookInv ==
    ASSUME CaptureInv, NEW w \in Handler, NEW a \in Attempt, CaptureWebhook(w, a)
    PROVE  CaptureInv'
<1> USE DEF CaptureInv, CaptureWebhook, rows, errors
<1> DEFINE r == Capturing(att[a].p, a, {})
<1>a. att[a].p \in Payment /\ r.pc = "read" /\ r.p = att[a].p /\ r.a = a
  BY DEF Attempts, IsPaid, Paid, Capturing
<1>b. /\ task' \in [Worker -> Task] /\ OthersStay(w) /\ task'[w] = r
      /\ task[w].pc = "idle"
  BY <1>a, CapturingTask, BecomesFacts, IdleTask
<1> HIDE DEF r
<1>1. TypeOK'
  BY <1>a, <1>b DEF TypeOK, Task
<1>2. Attempts' /\ Books'
  BY DEF Attempts, Books, IsPaid
<1>3. Requests'
  <2>1. RequestOK(w)'
    BY <1>a, <1>b DEF RequestOK, IsPaid
  <2> QED BY <1>b, <2>1, RequestsKept
<1>4. Claims' /\ Owned'
  BY <1>a, <1>b, ClaimsKept, OwnedKept DEF InCapture
<1> QED BY <1>1, <1>2, <1>3, <1>4

LEMMA VerifyInv ==
    ASSUME CaptureInv, NEW w \in Handler, NEW a \in Attempt, Verify(w, a)
    PROVE  CaptureInv'
<1> USE DEF CaptureInv, Verify, rows, errors
<1> DEFINE r == Capturing(att[a].p, a, {})
<1>a. att[a].p \in Payment /\ r.pc = "read" /\ r.p = att[a].p /\ r.a = a
  BY DEF Attempts, IsPaid, Paid, Capturing
<1>b. /\ task' \in [Worker -> Task] /\ OthersStay(w) /\ task'[w] = r
      /\ task[w].pc = "idle"
  BY <1>a, CapturingTask, BecomesFacts, IdleTask
<1> HIDE DEF r
<1>1. TypeOK'
  BY <1>a, <1>b DEF TypeOK, Task
<1>2. Attempts' /\ Books'
  BY DEF Attempts, Books, IsPaid
<1>3. Requests'
  <2>1. RequestOK(w)'
    BY <1>a, <1>b DEF RequestOK, IsPaid
  <2> QED BY <1>b, <2>1, RequestsKept
<1>4. Claims' /\ Owned'
  BY <1>a, <1>b, ClaimsKept, OwnedKept DEF InCapture
<1> QED BY <1>1, <1>2, <1>3, <1>4

LEMMA NextOrderInv ==
    ASSUME CaptureInv, NEW w \in Worker, NEW p \in Payment, NextOrder(w, p)
    PROVE  CaptureInv'
<1> USE DEF CaptureInv, NextOrder, rows, errors
<1> DEFINE rest == task[w].todo \ {p}
           paid == {a \in Attempt : att[a].p = p /\ IsPaid(a)}
<1>a. rest \in SUBSET Payment
  BY DEF TypeOK
<1>b. PICK r \in Task :
         /\ task' = [task EXCEPT ![w] = r]
         /\ \/ r.pc \in {"idle", "next"}
            \/ r.pc = "read" /\ r.p = p /\ r.a \in paid
  <2>1. CASE task' = [task EXCEPT ![w] = Continue(w, rest)]
    BY <1>a, <2>1, ContinueFacts
  <2>2. CASE \E a \in paid : task' = [task EXCEPT ![w] = Capturing(p, a, rest)]
    <3>1. PICK a \in paid : task' = [task EXCEPT ![w] = Capturing(p, a, rest)]
      BY <2>2
    <3>2. LET r == Capturing(p, a, rest)
          IN  r \in Task /\ r.pc = "read" /\ r.p = p /\ r.a = a
      BY <1>a, CapturingTask DEF Capturing
    <3> QED BY <3>1, <3>2
  <2> QED BY <2>1, <2>2
<1>c. task' \in [Worker -> Task] /\ OthersStay(w) /\ task'[w] = r
  BY <1>b, BecomesFacts
<1>d. task[w].pc = "next"
  OBVIOUS
<1>1. TypeOK'
  BY <1>b, <1>c, <1>d DEF TypeOK, Task
<1>2. Attempts' /\ Books'
  BY DEF Attempts, Books, IsPaid
<1>3. Requests'
  <2>1. RequestOK(w)'
    BY <1>b, <1>c DEF RequestOK, Capture, IsPaid
  <2> QED BY <1>c, <2>1, RequestsKept
<1>4. Claims' /\ Owned'
  BY <1>b, <1>c, <1>d, ClaimsKept, OwnedKept DEF InCapture
<1> QED BY <1>1, <1>2, <1>3, <1>4

LEMMA ReadRowInv ==
    ASSUME CaptureInv, NEW w \in Worker, ReadRow(w)
    PROVE  CaptureInv'
<1> USE DEF CaptureInv, ReadRow, rows, errors
<1>a. /\ task' \in [Worker -> Task] /\ OthersStay(w)
      /\ \/ task'[w].pc \in {"idle", "next"}
         \/ /\ task'[w].pc = "claim" /\ att[task[w].a].right
            /\ task'[w].p = task[w].p /\ task'[w].a = task[w].a
  BY GotoFacts, ReturnFacts DEF Stage
<1>1. TypeOK'
  BY <1>a DEF TypeOK, Task
<1>2. Attempts' /\ Books'
  BY DEF Attempts, Books, IsPaid
<1>3. Requests'
  <2>1. RequestOK(w) /\ task[w].pc = "read"
    BY DEF Requests
  <2>2. RequestOK(w)'
    BY <1>a, <2>1 DEF RequestOK, Capture, IsPaid
  <2> QED BY <1>a, <2>2, RequestsKept
<1>4. Claims'
  BY <1>a, ClaimsKept DEF InCapture
<1>5. Owned'
  BY <1>a, OwnedKept DEF InCapture
<1> QED BY <1>1, <1>2, <1>3, <1>4, <1>5

LEMMA ClaimInv ==
    ASSUME CaptureInv, NEW w \in Worker, Claim(w)
    PROVE  CaptureInv'
<1> USE DEF CaptureInv, rows, errors
<1> DEFINE p == task[w].p
<1>a. RequestOK(w) /\ task[w].pc = "claim" /\ p \in Payment
  BY DEF Claim, Requests, RequestOK, Capture
<1>b. CASE status[p] = "INITIATED"
  <2>1. /\ task' \in [Worker -> Task] /\ OthersStay(w)
        /\ task'[w].pc = "lookup" /\ task'[w].p = p /\ task'[w].a = task[w].a
    BY <1>b, GotoFacts DEF Claim, Stage
  <2>2. /\ status' = [status EXCEPT ![p] = "PENDING"]
        /\ UNCHANGED <<order, key, credit, att, errors>>
    BY <1>b DEF Claim
  <2>3. TypeOK'
    BY <2>1, <2>2 DEF TypeOK, Task, Status
  <2>4. Attempts' /\ Books'
    BY <1>a, <1>b, <2>2 DEF TypeOK, Attempts, Books, IsPaid, Credited
  <2>5. Requests'
    <3>1. RequestOK(w)'
      BY <1>a, <2>1, <2>2 DEF RequestOK, Capture, IsPaid
    <3> QED BY <2>1, <2>2, <3>1, RequestsKept
  <2>6. Claims'
    <3>1. \A v \in Worker : ~InCapture(v, p)
      BY <1>a, <1>b DEF Claims, Credited
    <3>2. \A v \in Worker, q \in Payment :
             InCapture(v, q)' <=> (IF v = w THEN q = p ELSE InCapture(v, q))
      BY <1>a, <2>1 DEF InCapture, OthersStay
    <3> QED BY <1>a, <2>1, <2>2, <3>1, <3>2 DEF TypeOK, Claims, OthersStay
  <2>7. Owned'
    <3>1. \A q \in Payment : q = p => InCapture(w, q)'
      BY <2>1 DEF InCapture
    <3>2. \A v \in Worker, q \in Payment : InCapture(v, q) => InCapture(v, q)'
      BY <1>a, <2>1 DEF InCapture, OthersStay
    <3>3. \A q \in Payment : status'[q] = "PENDING" => q = p \/ status[q] = "PENDING"
      BY <2>2 DEF TypeOK
    <3>4. crashed' = crashed
      BY <2>2
    <3> QED BY <3>1, <3>2, <3>3, <3>4 DEF Owned
  <2> QED BY <2>3, <2>4, <2>5, <2>6, <2>7
<1>c. CASE status[p] # "INITIATED"
  <2>1. /\ task' \in [Worker -> Task] /\ OthersStay(w)
        /\ task'[w].pc \in {"idle", "next"}
        /\ UNCHANGED <<status, order, key, credit, att, errors>>
    BY <1>c, ReturnFacts DEF Claim
  <2>2. TypeOK' /\ Attempts' /\ Books'
    BY <2>1 DEF TypeOK, Task, Attempts, Books, IsPaid
  <2>3. Requests'
    BY <2>1, RequestsKept DEF RequestOK, Capture
  <2>4. Claims' /\ Owned'
    BY <1>a, <2>1, ClaimsKept, OwnedKept DEF InCapture
  <2> QED BY <2>2, <2>3, <2>4
<1> QED BY <1>b, <1>c

\* The key of a claimed row is still free: no other row has it either, since
\* every key is an attempt on its own row.
LEMMA LookUpKeyInv ==
    ASSUME CaptureInv, NEW w \in Worker, LookUpKey(w)
    PROVE  CaptureInv'
<1> USE DEF CaptureInv, rows, errors
<1> DEFINE p == task[w].p
<1>a. RequestOK(w) /\ task[w].pc = "lookup" /\ p \in Payment /\ InCapture(w, p)
  BY DEF LookUpKey, Requests, RequestOK, Capture, InCapture
<1>b. status[p] = "PENDING"
  BY <1>a DEF Claims
<1>c. \A q \in Payment : key[q] # task[w].a
  <2> SUFFICES ASSUME NEW q \in Payment, key[q] = task[w].a
               PROVE  FALSE
    OBVIOUS
  <2>1. task[w].a \in Attempt /\ att[task[w].a].p = p
    BY <1>a DEF RequestOK, Capture
  <2>2. key[q] # NoAttempt /\ q = p
    BY <2>1 DEF Books
  <2> QED BY <1>b, <2>2 DEF Books, Credited
<1>d. /\ task' \in [Worker -> Task] /\ OthersStay(w)
      /\ task'[w].pc = "commit" /\ task'[w].p = p /\ task'[w].a = task[w].a
      /\ UNCHANGED <<status, order, key, credit, att, errors>>
  BY <1>c, GotoFacts DEF LookUpKey, Stage
<1>1. TypeOK' /\ Attempts' /\ Books'
  BY <1>d DEF TypeOK, Task, Attempts, Books, IsPaid
<1>2. Requests'
  <2>1. RequestOK(w)'
    BY <1>a, <1>d DEF RequestOK, Capture, IsPaid
  <2> QED BY <1>d, <2>1, RequestsKept
<1>3. Claims' /\ Owned'
  BY <1>a, <1>d, ClaimsKept, OwnedKept DEF InCapture
<1> QED BY <1>1, <1>2, <1>3

LEMMA CommitInv ==
    ASSUME CaptureInv, NEW w \in Worker, Commit(w)
    PROVE  CaptureInv'
<1> USE DEF CaptureInv, rows, errors
<1> DEFINE p == task[w].p
<1>a. RequestOK(w) /\ task[w].pc = "commit" /\ p \in Payment /\ InCapture(w, p)
  BY DEF Commit, Requests, RequestOK, Capture, InCapture
<1>b. status[p] = "PENDING"
  BY <1>a DEF Claims
<1>c. /\ task[w].a \in Attempt /\ IsPaid(task[w].a)
      /\ att[task[w].a].p = p /\ att[task[w].a].right
  BY <1>a DEF RequestOK, Capture
<1>d. /\ status' = [status EXCEPT ![p] = "SUCCESS"]
      /\ key' = [key EXCEPT ![p] = task[w].a]
      /\ credit' = [credit EXCEPT ![p] = @ + 1]
      /\ UNCHANGED <<order, att, crashed>>
      /\ faults' \in Nat
  BY DEF Commit, TypeOK
<1>e. /\ task' \in [Worker -> Task] /\ OthersStay(w)
      /\ \/ task'[w].pc \in {"idle", "next"}
         \/ /\ task'[w].pc = "release"
            /\ task'[w].p = p /\ task'[w].a = task[w].a
  BY GotoFacts, ReturnFacts DEF Commit, Stage
<1>1. TypeOK'
  BY <1>a, <1>c, <1>d, <1>e DEF TypeOK, Task, Status
<1>2. Attempts'
  BY <1>d DEF Attempts
<1>3. Books'
  BY <1>a, <1>b, <1>c, <1>d DEF TypeOK, Books, IsPaid, Credited
<1>4. Requests'
  <2>1. RequestOK(w)'
    BY <1>c, <1>d, <1>e, <1>a DEF RequestOK, Capture, IsPaid
  <2> QED BY <1>d, <1>e, <2>1, RequestsKept
<1>5. Claims'
  <2>1. \A v \in Worker, q \in Payment :
           InCapture(v, q)' => InCapture(v, q) /\ (v = w => task'[w].pc = "release")
    BY <1>a, <1>e DEF InCapture, OthersStay
  <2>2. \A v \in Worker : InCapture(v, p) => v = w
    BY <1>a DEF Claims
  <2> QED BY <1>a, <1>d, <1>e, <2>1, <2>2 DEF TypeOK, Claims, Credited, OthersStay
<1>6. Owned'
  <2>1. \A v \in Worker, q \in Payment : InCapture(v, q) /\ q # p => InCapture(v, q)'
    BY <1>a, <1>e DEF InCapture, OthersStay
  <2> QED BY <1>a, <1>d, <2>1 DEF TypeOK, Owned
<1> QED BY <1>1, <1>2, <1>3, <1>4, <1>5, <1>6

LEMMA CommitFailsInv ==
    ASSUME CaptureInv, NEW w \in Worker, CommitFails(w)
    PROVE  CaptureInv'
<1> USE DEF CaptureInv, CommitFails, rows, errors
<1>a. /\ task' \in [Worker -> Task] /\ OthersStay(w)
      /\ task'[w].pc = "release" /\ task'[w].p = task[w].p /\ task'[w].a = task[w].a
  BY GotoFacts DEF Stage
<1>1. TypeOK'
  BY <1>a DEF TypeOK, Task
<1>2. Attempts' /\ Books'
  BY DEF Attempts, Books, IsPaid
<1>3. Requests'
  <2>1. RequestOK(w) /\ task[w].pc \in {"lookup", "commit"}
    BY DEF Requests
  <2>2. RequestOK(w)'
    BY <1>a, <2>1 DEF RequestOK, Capture, IsPaid
  <2> QED BY <1>a, <2>2, RequestsKept
<1>4. Claims' /\ Owned'
  BY <1>a, ClaimsKept, OwnedKept DEF InCapture
<1> QED BY <1>1, <1>2, <1>3, <1>4

LEMMA ReleaseInv ==
    ASSUME CaptureInv, NEW w \in Worker, Release(w)
    PROVE  CaptureInv'
<1> USE DEF CaptureInv, Release, rows, errors
<1> DEFINE p == task[w].p
<1>a. task' \in [Worker -> Task] /\ OthersStay(w) /\ task'[w].pc = "idle"
  BY IdleTask, BecomesFacts
<1>b. p \in Payment /\ \A v \in Worker : InCapture(v, p) => v = w
  BY DEF Requests, RequestOK, Capture, Claims, InCapture
<1>1. TypeOK'
  BY <1>a DEF TypeOK, Task, Status
<1>2. Attempts'
  BY DEF Attempts
<1>3. Requests'
  BY <1>a, RequestsKept DEF RequestOK, Capture
<1>4. Books'
  BY <1>b DEF TypeOK, Books, IsPaid, Credited
<1>5. Claims'
  BY <1>a, <1>b DEF TypeOK, Claims, OthersStay, InCapture
<1>6. Owned'
  BY <1>a, <1>b DEF TypeOK, Owned, OthersStay, InCapture
<1> QED BY <1>1, <1>2, <1>3, <1>4, <1>5, <1>6

LEMMA FetchFailsInv ==
    ASSUME CaptureInv, NEW w \in Worker, FetchFails(w)
    PROVE  CaptureInv'
<1> USE DEF CaptureInv, FetchFails, rows
<1>a. task' \in [Worker -> Task] /\ OthersStay(w) /\ task'[w].pc = "idle"
  BY IdleTask, BecomesFacts
<1>1. TypeOK'
  BY <1>a DEF TypeOK, Task
<1>2. Attempts' /\ Books'
  BY DEF Attempts, Books, IsPaid
<1>3. Requests'
  BY <1>a, RequestsKept DEF RequestOK, Capture
<1>4. Claims' /\ Owned'
  BY <1>a, ClaimsKept, OwnedKept DEF InCapture
<1> QED BY <1>1, <1>2, <1>3, <1>4

LEMMA CrashInv ==
    ASSUME CaptureInv, NEW w \in Worker, Crash(w)
    PROVE  CaptureInv'
<1> USE DEF CaptureInv, Crash, rows
<1>a. task' \in [Worker -> Task] /\ OthersStay(w) /\ task'[w].pc = "idle"
  BY IdleTask, BecomesFacts
<1>1. TypeOK'
  BY <1>a DEF TypeOK, Task
<1>2. Attempts' /\ Books'
  BY DEF Attempts, Books, IsPaid
<1>3. Requests'
  BY <1>a, RequestsKept DEF RequestOK, Capture
<1>4. Claims' /\ Owned'
  BY <1>a, ClaimsKept DEF Owned, InCapture
<1> QED BY <1>1, <1>2, <1>3, <1>4

LEMMA NextInv ==
    ASSUME CaptureInv, [Next]_vars
    PROVE  CaptureInv'
<1>1. CASE Checkout
  BY <1>1, CreateOrderInv, TryPayInv, SettleInv, RefundInv DEF Checkout
<1>2. CASE StartReconcile
  BY <1>2, StartReconcileInv
<1>3. CASE \E w \in Handler : Serve(w)
  BY <1>3, CaptureWebhookInv, FailWebhookInv, VerifyInv DEF Serve
<1>4. ASSUME NEW w \in Worker, Advance(w)
      PROVE  CaptureInv'
  BY <1>4, NextOrderInv, ReadRowInv, ClaimInv, LookUpKeyInv, CommitInv, ReleaseInv
     DEF Advance
<1>5. CASE \E w \in Worker : FetchFails(w) \/ CommitFails(w) \/ Crash(w)
  BY <1>5, FetchFailsInv, CommitFailsInv, CrashInv
<1>6. CASE UNCHANGED vars
  BY <1>6 DEF vars, rows, errors, CaptureInv, TypeOK, Attempts, Requests, RequestOK,
              IsPaid, Books, Claims, Owned, InCapture
<1> QED BY <1>1, <1>2, <1>3, <1>4, <1>5, <1>6 DEF Next

\* The inductive invariant holds of the races between webhook, verify and
\* reconcile, whatever fails.
THEOREM CaptureInvariant == Spec => []CaptureInv
BY InitInv, NextInv, PTL DEF Spec

-----------------------------------------------------------------------------
\* Rows, attempts and requests keep their types.
THEOREM TypeCorrect == Spec => []TypeOK
<1>1. CaptureInv => TypeOK
  BY DEF CaptureInv
<1> QED BY <1>1, CaptureInvariant, PTL

\* captureGatewayPayment: the money transaction of an intent commits at most
\* once, however many surfaces capture it.
THEOREM CreditedOnceHolds == Spec => []CreditedOnce
<1>1. CaptureInv => CreditedOnce
  BY DEF CaptureInv, Books, CreditedOnce
<1> QED BY <1>1, CaptureInvariant, PTL

\* A row is SUCCESS or REFUNDED exactly when its money was credited.
THEOREM StatusTellsCreditHolds == Spec => []StatusTellsCredit
<1>1. CaptureInv => StatusTellsCredit
  BY DEF CaptureInv, Books, Credited, StatusTellsCredit
<1> QED BY <1>1, CaptureInvariant, PTL

\* What was credited was paid at the gateway, on that order, for its amount.
THEOREM CreditIsEarnedHolds == Spec => []CreditIsEarned
<1>1. CaptureInv => CreditIsEarned
  <2> SUFFICES ASSUME CaptureInv, NEW p \in Payment, credit[p] > 0
               PROVE  \E a \in Attempt :
                         key[p] = a /\ att[a].p = p /\ IsPaid(a) /\ att[a].right
    BY DEF CreditIsEarned
  <2>1. key[p] # NoAttempt /\ IsPaid(key[p]) /\ att[key[p]].p = p /\ att[key[p]].right
    BY DEF CaptureInv, Books
  <2>2. key[p] \in Attempt
    BY <2>1 DEF CaptureInv, TypeOK
  <2> QED BY <2>1, <2>2
<1> QED BY <1>1, CaptureInvariant, PTL

\* Unless a process died, a PENDING row has the one worker that will credit or
\* release it.
THEOREM ClaimHasOwnerHolds == Spec => []ClaimHasOwner
<1>1. CaptureInv => ClaimHasOwner
  BY DEF CaptureInv, Owned, Claims, ClaimHasOwner
<1> QED BY <1>1, CaptureInvariant, PTL

-----------------------------------------------------------------------------
(* The refinement of PaymentIntents *)

IntentStage == [p \in Payment |-> StageOf(status[p])]
IntentTaken == [p \in Payment |-> Taken(p)]

LEMMA InitRefines == Init => Intents!Init
BY DEF Init, Intents!Init, StageOf, Taken, IsPaid, Paid

\* A step that keeps stages, attempts and credits is not seen.
LEMMA Unseen ==
    ASSUME UNCHANGED <<att, credit>>, \A p \in Payment : StageOf(status'[p]) = StageOf(status[p])
    PROVE  UNCHANGED Intents!intents
BY DEF Intents!intents, Taken, IsPaid

\* A step on row p that does not credit, refund or create it keeps its stage.
LEMMA StageKept ==
    ASSUME TypeOK, NEW p \in Payment, NEW s \in {"INITIATED", "PENDING", "FAILED"},
           status[p] \in {"INITIATED", "PENDING", "FAILED"},
           status' = [status EXCEPT ![p] = s], UNCHANGED <<att, credit>>
    PROVE  UNCHANGED Intents!intents
<1>1. \A q \in Payment : StageOf(status'[q]) = StageOf(status[q])
  BY DEF TypeOK, StageOf
<1> QED BY <1>1, Unseen

LEMMA CreateOrderRefines ==
    ASSUME CaptureInv, NEW p \in Payment, NEW ok \in BOOLEAN, CreateOrder(p, ok)
    PROVE  Intents!Open(p)
BY DEF CaptureInv, TypeOK, CreateOrder, Intents!Open, StageOf, Taken, IsPaid

LEMMA RefundRefines ==
    ASSUME CaptureInv, NEW p \in Payment, Refund(p)
    PROVE  Intents!Return(p)
BY DEF CaptureInv, TypeOK, Refund, Intents!Return, StageOf, Taken, IsPaid

\* An order at the gateway belongs to a row.
Ordered == \A p \in Payment : order[p] => status[p] # "NONE"

LEMMA OrderedKept ==
    ASSUME TypeOK, Ordered, [Next]_vars
    PROVE  Ordered'
<1> USE DEF TypeOK, Ordered, rows
<1>1. CASE Checkout
  BY <1>1 DEF Checkout, CreateOrder, TryPay, Settle, Refund
<1>2. CASE StartReconcile
  BY <1>2 DEF StartReconcile
<1>3. CASE \E w \in Handler : Serve(w)
  BY <1>3 DEF Serve, CaptureWebhook, FailWebhook, Verify
<1>4. ASSUME NEW w \in Worker, Advance(w) \/ FetchFails(w) \/ CommitFails(w) \/ Crash(w)
      PROVE  Ordered'
  BY <1>4 DEF Advance, NextOrder, ReadRow, Claim, LookUpKey, Commit, Release,
              FetchFails, CommitFails, Crash
<1>5. CASE UNCHANGED vars
  BY <1>5 DEF vars
<1> QED BY <1>1, <1>2, <1>3, <1>4, <1>5 DEF Next

LEMMA TryPayRefines ==
    ASSUME CaptureInv, Ordered, NEW a \in Attempt, NEW p \in Payment, NEW o \in Outcomes,
           NEW r \in Exact, TryPay(a, p, o, r)
    PROVE  Intents!Take(p) \/ UNCHANGED Intents!intents
<1>1. \A q \in Payment : Taken(q)' = (Taken(q) \/ (q = p /\ r /\ o \in Paid))
  BY DEF CaptureInv, TypeOK, TryPay, Taken, IsPaid, Paid
<1>2. UNCHANGED <<status, credit>>
  BY DEF TryPay, rows
<1>3. CASE r /\ o \in Paid
  <2>1. IntentTaken' = [IntentTaken EXCEPT ![p] = TRUE]
    <3>1. IntentTaken' = [q \in Payment |-> Taken(q)']
      BY DEF IntentTaken
    <3>2. \A q \in Payment : Taken(q)' = (IF q = p THEN TRUE ELSE Taken(q))
      <4> SUFFICES ASSUME NEW q \in Payment
                   PROVE  Taken(q)' = (IF q = p THEN TRUE ELSE Taken(q))
        OBVIOUS
      <4>1. Taken(q) \in BOOLEAN /\ Taken(q)' \in BOOLEAN
        BY DEF Taken
      <4> QED BY <1>1, <1>3, <4>1
    <3> QED BY <3>1, <3>2 DEF IntentTaken
  <2>2. IntentStage[p] # "NONE"
    BY DEF IntentStage, Ordered, StageOf, TryPay
  <2> QED BY <1>2, <2>1, <2>2 DEF Intents!Take, IntentTaken, IntentStage
<1>4. CASE ~(r /\ o \in Paid)
  <2>1. ASSUME NEW q \in Payment
        PROVE  Taken(q)' = Taken(q)
    <3>1. Taken(q) \in BOOLEAN /\ Taken(q)' \in BOOLEAN
      BY DEF Taken
    <3> QED BY <1>1, <1>4, <3>1
  <2>2. IntentTaken' = IntentTaken
    BY <2>1 DEF IntentTaken
  <2>3. IntentStage' = IntentStage
    BY <1>2 DEF IntentStage
  <2> QED BY <1>2, <2>2, <2>3 DEF Intents!intents, IntentTaken, IntentStage
<1> QED BY <1>3, <1>4

LEMMA CommitRefines ==
    ASSUME CaptureInv, NEW w \in Worker, Commit(w)
    PROVE  Intents!Book(task[w].p)
<1> DEFINE p == task[w].p
<1>1. /\ p \in Payment /\ task[w].a \in Attempt /\ status[p] = "PENDING"
      /\ IsPaid(task[w].a) /\ att[task[w].a].p = p /\ att[task[w].a].right
  BY DEF CaptureInv, Commit, Requests, RequestOK, Capture, Claims, InCapture
<1>2. Taken(p)
  BY <1>1 DEF Taken
<1>3. /\ status' = [status EXCEPT ![p] = "SUCCESS"]
      /\ credit' = [credit EXCEPT ![p] = @ + 1]
      /\ UNCHANGED att
  BY DEF Commit
<1>4. IntentStage' = [IntentStage EXCEPT ![p] = "SUCCESS"]
  BY <1>1, <1>3 DEF CaptureInv, TypeOK, IntentStage, StageOf
<1>5. IntentTaken' = IntentTaken
  BY <1>3 DEF IntentTaken, Taken, IsPaid
<1> QED BY <1>1, <1>2, <1>3, <1>4, <1>5 DEF Intents!Book, IntentStage, IntentTaken, StageOf

\* Claims, releases, failure webhooks and everything that only reads.
LEMMA QuietSteps ==
    ASSUME CaptureInv,
           \/ StartReconcile
           \/ \E a \in Attempt : Settle(a)
           \/ \E w \in Handler : Serve(w)
           \/ \E w \in Worker : \/ \E p \in Payment : NextOrder(w, p)
                                \/ ReadRow(w) \/ Claim(w) \/ LookUpKey(w) \/ Release(w)
                                \/ FetchFails(w) \/ CommitFails(w) \/ Crash(w)
           \/ UNCHANGED vars
    PROVE  UNCHANGED Intents!intents
<1> USE DEF CaptureInv
<1>1. ASSUME NEW w \in Handler, NEW a \in Attempt, FailWebhook(w, a)
      PROVE  UNCHANGED Intents!intents
  <2>1. att[a].p \in Payment
    BY <1>1 DEF FailWebhook, Attempts
  <2> QED BY <1>1, <2>1, StageKept DEF FailWebhook
<1>2. ASSUME NEW w \in Worker, Claim(w)
      PROVE  UNCHANGED Intents!intents
  <2>1. task[w].p \in Payment
    BY <1>2 DEF Claim, Requests, RequestOK, Capture
  <2> QED BY <1>2, <2>1, StageKept, Unseen DEF Claim
<1>3. ASSUME NEW w \in Worker, Release(w)
      PROVE  UNCHANGED Intents!intents
  <2>1. task[w].p \in Payment
    BY <1>3 DEF Release, Requests, RequestOK, Capture
  <2>2. CASE status[task[w].p] = "PENDING"
    BY <1>3, <2>1, <2>2, StageKept DEF Release, TypeOK
  <2>3. CASE status[task[w].p] # "PENDING"
    BY <1>3, <2>1, <2>3, Unseen DEF Release, TypeOK
  <2> QED BY <2>2, <2>3
<1>4. ASSUME NEW a \in Attempt, Settle(a)
      PROVE  UNCHANGED Intents!intents
  <2>1. \A p \in Payment : Taken(p)' = Taken(p)
    BY <1>4 DEF Settle, TypeOK, Taken, IsPaid, Paid
  <2>2. UNCHANGED <<status, credit>>
    BY <1>4 DEF Settle, rows
  <2> QED BY <2>1, <2>2 DEF Intents!intents
<1>5. CASE UNCHANGED <<status, att, credit>>
  BY <1>5, Unseen
<1>6. CASE \E w \in Worker : \/ \E p \in Payment : NextOrder(w, p)
                             \/ ReadRow(w) \/ LookUpKey(w) \/ FetchFails(w) \/ CommitFails(w) \/ Crash(w)
  BY <1>5, <1>6 DEF NextOrder, ReadRow, LookUpKey, FetchFails, CommitFails, Crash, rows
<1>7. CASE StartReconcile \/ UNCHANGED vars
  BY <1>5, <1>7 DEF StartReconcile, vars, rows
<1>8. CASE \E w \in Handler : Serve(w)
  BY <1>1, <1>5, <1>8 DEF Serve, CaptureWebhook, Verify, rows
<1> QED BY <1>2, <1>3, <1>4, <1>6, <1>7, <1>8

\* The races of webhook, verify and reconciliation implement PaymentIntents: an
\* intent is booked once, after the gateway took its exact amount, and nothing
\* but a refund takes a booked intent back.
THEOREM Refinement == Spec => ImplementsIntents
<1>1. Init => Ordered
  BY DEF Init, Ordered
<1>2. Spec => []Ordered
  BY <1>1, OrderedKept, TypeCorrect, PTL DEF Spec
<1>3. ASSUME CaptureInv, Ordered, [Next]_vars
      PROVE  Intents!Next \/ UNCHANGED Intents!intents
  <2>1. CASE Checkout
    BY <1>3, <2>1, CreateOrderRefines, TryPayRefines, RefundRefines, QuietSteps
       DEF Checkout, Intents!Next
  <2>2. CASE \E w \in Worker : Commit(w)
    <3>1. \A w \in Worker : Commit(w) => task[w].p \in Payment
      BY <1>3 DEF CaptureInv, Commit, Requests, RequestOK, Capture
    <3> QED BY <1>3, <2>2, <3>1, CommitRefines DEF Intents!Next
  <2> QED BY <1>3, <2>1, <2>2, QuietSteps DEF Next, Advance
<1> QED BY <1>2, <1>3, InitRefines, CaptureInvariant, PTL
       DEF Spec, ImplementsIntents, Intents!Spec
=============================================================================
