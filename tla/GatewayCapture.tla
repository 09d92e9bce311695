---------------------------- MODULE GatewayCapture ----------------------------
(***************************************************************************)
(* Online payments: the life of a Payment row between the creation of a    *)
(* checkout order and its credit (gateway-payments.ts), and the three      *)
(* surfaces that race for it (gateway.routes.ts): the signed webhook, the  *)
(* browser's verify call and the reconciliation poll.                      *)
(*                                                                         *)
(* The gateway is external. Customers try an order any number of times;    *)
(* each attempt fails, is authorized or is captured, for the right amount  *)
(* or another one. Once an attempt has an outcome its webhook may come any *)
(* number of times, late, out of order, or never.                          *)
(*                                                                         *)
(* The money transaction of postPayment is one step here (Commit); what it *)
(* does to invoices and ledger is FeeLedger's subject.                     *)
(***************************************************************************)
EXTENDS Integers, FiniteSets

CONSTANTS
    NP,           \* bound: the intents, numbered in order of creation
    Attempt,      \* bound: the gateway payments customers can try
    NoAttempt,
    Handler,      \* request handlers of the fee-service processes
    Reconciler,   \* the handler that runs POST /reconcile/run
    Batch,        \* take: rows one reconcile run looks at (100 in the code)
    Outcomes,     \* what the gateway makes of an attempt
    Exact,        \* is the amount paid the amount of the row?
    MaxFaults     \* bound: failed commits, failed calls to the gateway and crashes

Payment == 1 .. NP
Worker  == Handler \cup {Reconciler}

ASSUME GatewayAssumption ==
    /\ NP \in Nat
    /\ NoAttempt \notin Attempt
    /\ Reconciler \notin Handler
    /\ Batch \in Nat \ {0}
    /\ Outcomes \subseteq {"failed", "authorized", "captured"}
    /\ Exact \subseteq BOOLEAN
    /\ MaxFaults \in Nat

VARIABLES
    status,    \* Payment.status
    order,     \* is gatewayOrderId set?
    key,       \* the attempt in idempotencyKey (rzp:<id>), once captured
    credit,    \* how many times the money transaction committed for the row
    att,       \* the attempts at the gateway
    task,      \* what each worker is doing
    faults,    \* failed commits, calls and crashes so far
    crashed    \* has a worker died in the middle of a capture?

rows    == <<status, order, key, credit>>
errors  == <<faults, crashed>>
vars    == <<rows, att, task, errors>>

Status == {"NONE", "INITIATED", "PENDING", "SUCCESS", "FAILED", "REFUNDED"}
Paid   == {"authorized", "captured"}

Idle == [pc |-> "idle", p |-> 0, a |-> NoAttempt, todo |-> {}]

Init ==
    /\ status = [p \in Payment |-> "NONE"]
    /\ order = [p \in Payment |-> FALSE]
    /\ key = [p \in Payment |-> NoAttempt]
    /\ credit = [p \in Payment |-> 0]
    /\ att = [a \in Attempt |-> [p |-> 0, state |-> "none", right |-> FALSE]]
    /\ task = [w \in Worker |-> Idle]
    /\ faults = 0
    /\ crashed = FALSE

-----------------------------------------------------------------------------
(* The gateway and its customers *)

\* POST /orders: the row is inserted, then the gateway order is created and its
\* id attached. If that call fails the row stays behind without an order.
CreateOrder(p, ok) ==
    /\ status[p] = "NONE"
    /\ \A q \in Payment : q < p => status[q] # "NONE"
    /\ status' = [status EXCEPT ![p] = "INITIATED"]
    /\ order' = [order EXCEPT ![p] = ok]
    /\ UNCHANGED <<key, credit, att, task, errors>>

TryPay(a, p, outcome, right) ==
    /\ order[p]
    /\ att[a].state = "none"
    /\ att' = [att EXCEPT ![a] = [p |-> p, state |-> outcome, right |-> right]]
    /\ UNCHANGED <<rows, task, errors>>

Settle(a) ==
    /\ att[a].state = "authorized"
    /\ att' = [att EXCEPT ![a].state = "captured"]
    /\ UNCHANGED <<rows, task, errors>>

-----------------------------------------------------------------------------
(* The three surfaces *)

IsPaid(a) == att[a].state \in Paid
Capturing(p, a, todo) == [pc |-> "read", p |-> p, a |-> a, todo |-> todo]

\* payment.authorized and payment.captured.
CaptureWebhook(w, a) ==
    /\ task[w] = Idle
    /\ IsPaid(a)
    /\ task' = [task EXCEPT ![w] = Capturing(att[a].p, a, {})]
    /\ UNCHANGED <<rows, att, errors>>

\* failGatewayPayment is one conditional update.
FailWebhook(w, a) ==
    /\ task[w] = Idle
    /\ att[a].state = "failed"
    /\ status[att[a].p] = "INITIATED"
    /\ status' = [status EXCEPT ![att[a].p] = "FAILED"]
    /\ UNCHANGED <<order, key, credit, att, task, errors>>

\* The browser proves the attempt with its signature; the row must be INITIATED
\* when it is looked up. The gateway is asked for the amount.
Verify(w, a) ==
    /\ task[w] = Idle
    /\ IsPaid(a)
    /\ status[att[a].p] = "INITIATED"
    /\ task' = [task EXCEPT ![w] = Capturing(att[a].p, a, {})]
    /\ UNCHANGED <<rows, att, errors>>

\* The oldest INITIATED rows with an order, whether anybody paid them or not.
Stale ==
    LET stale == {p \in Payment : status[p] = "INITIATED" /\ order[p]}
    IN  {p \in stale : Cardinality({q \in stale : q < p}) < Batch}

StartReconcile ==
    /\ task[Reconciler] = Idle
    /\ Stale # {}
    /\ task' = [task EXCEPT ![Reconciler] = [Idle EXCEPT !.pc = "next", !.todo = Stale]]
    /\ UNCHANGED <<rows, att, errors>>

\* What a worker does after a capture that returned.
Continue(w, todo) ==
    IF todo = {} THEN Idle ELSE [Idle EXCEPT !.pc = "next", !.todo = todo]

\* Mutation of NextOrder: an attempt that is only authorized does not count.
NextOrderCapturedOnly(w, p) ==
    LET rest == task[w].todo \ {p}
        paid == {a \in Attempt : att[a].p = p /\ att[a].state = "captured"}
    IN  /\ task[w].pc = "next"
        /\ p \in task[w].todo /\ \A q \in rest : p < q
        /\ \/ /\ paid = {}
              /\ task' = [task EXCEPT ![w] = Continue(w, rest)]
           \/ \E a \in paid : task' = [task EXCEPT ![w] = Capturing(p, a, rest)]
        /\ UNCHANGED <<rows, att, errors>>

\* fetchOrderPayments: the first paid item is captured, if there is one.
NextOrder(w, p) ==
    LET rest == task[w].todo \ {p}
        paid == {a \in Attempt : att[a].p = p /\ IsPaid(a)}
    IN  /\ task[w].pc = "next"
        /\ p \in task[w].todo /\ \A q \in rest : p < q
        /\ \/ /\ paid = {}
              /\ task' = [task EXCEPT ![w] = Continue(w, rest)]
           \/ \E a \in paid : task' = [task EXCEPT ![w] = Capturing(p, a, rest)]
        /\ UNCHANGED <<rows, att, errors>>

\* The gateway does not answer: the error ends the run.
FetchFails(w) ==
    /\ task[w].pc = "next"
    /\ faults < MaxFaults
    /\ faults' = faults + 1
    /\ task' = [task EXCEPT ![w] = Idle]
    /\ UNCHANGED <<rows, att, crashed>>

-----------------------------------------------------------------------------
(* captureGatewayPayment *)

Goto(w, pc) == task' = [task EXCEPT ![w].pc = pc]
Return(w)   == task' = [task EXCEPT ![w] = Continue(w, @.todo)]

ReadRow(w) ==
    /\ task[w].pc = "read"
    /\ IF att[task[w].a].right /\ status[task[w].p] = "INITIATED"
       THEN Goto(w, "claim") ELSE Return(w)
    /\ UNCHANGED <<rows, att, errors>>

\* Mutation of Claim: the row is updated by id alone.
ClaimById(w) ==
    /\ task[w].pc = "claim"
    /\ status' = [status EXCEPT ![task[w].p] = "PENDING"]
    /\ Goto(w, "lookup")
    /\ UNCHANGED <<order, key, credit, att, errors>>

\* The conditional update: whoever changes INITIATED to PENDING goes on.
Claim(w) ==
    /\ task[w].pc = "claim"
    /\ IF status[task[w].p] = "INITIATED"
       THEN /\ status' = [status EXCEPT ![task[w].p] = "PENDING"]
            /\ Goto(w, "lookup")
       ELSE /\ Return(w)
            /\ UNCHANGED status
    /\ UNCHANGED <<order, key, credit, att, errors>>

\* postPayment's replay guard: a key some row already has is answered with that
\* row, and the claimed row is left as it is.
LookUpKey(w) ==
    /\ task[w].pc = "lookup"
    /\ IF \E q \in Payment : key[q] = task[w].a THEN Return(w) ELSE Goto(w, "commit")
    /\ UNCHANGED <<rows, att, errors>>

\* The money transaction updates the intent row in place. Its caller can see an
\* error although it committed.
Commit(w) ==
    LET p == task[w].p
    IN  /\ task[w].pc = "commit"
        /\ status' = [status EXCEPT ![p] = "SUCCESS"]
        /\ key' = [key EXCEPT ![p] = task[w].a]
        /\ credit' = [credit EXCEPT ![p] = @ + 1]
        /\ \/ Return(w) /\ UNCHANGED faults
           \/ faults < MaxFaults /\ faults' = faults + 1 /\ Goto(w, "release")
        /\ UNCHANGED <<order, att, crashed>>

CommitFails(w) ==
    /\ task[w].pc \in {"lookup", "commit"}
    /\ faults < MaxFaults
    /\ faults' = faults + 1
    /\ Goto(w, "release")
    /\ UNCHANGED <<rows, att, crashed>>

\* The catch block, conditional on PENDING; then the error ends the request (and
\* a reconcile run with it).
Release(w) ==
    LET p == task[w].p
    IN  /\ task[w].pc = "release"
        /\ status' = [status EXCEPT ![p] = IF @ = "PENDING" THEN "INITIATED" ELSE @]
        /\ task' = [task EXCEPT ![w] = Idle]
        /\ UNCHANGED <<order, key, credit, att, errors>>

\* The process dies, or the release itself fails.
Crash(w) ==
    /\ task[w] # Idle
    /\ faults < MaxFaults
    /\ faults' = faults + 1
    /\ crashed' = TRUE
    /\ task' = [task EXCEPT ![w] = Idle]
    /\ UNCHANGED <<rows, att>>

\* refundGatewayPayment of the whole amount.
Refund(p) ==
    /\ status[p] = "SUCCESS"
    /\ status' = [status EXCEPT ![p] = "REFUNDED"]
    /\ UNCHANGED <<order, key, credit, att, task, errors>>

-----------------------------------------------------------------------------
Checkout ==
    \/ \E p \in Payment, ok \in BOOLEAN : CreateOrder(p, ok)
    \/ \E a \in Attempt, p \in Payment, o \in Outcomes, r \in Exact : TryPay(a, p, o, r)
    \/ \E a \in Attempt : Settle(a)
    \/ \E p \in Payment : Refund(p)

Serve(w) ==
    \E a \in Attempt : CaptureWebhook(w, a) \/ FailWebhook(w, a) \/ Verify(w, a)

Advance(w) ==
    \/ \E p \in Payment : NextOrder(w, p)
    \/ ReadRow(w) \/ Claim(w) \/ LookUpKey(w) \/ Commit(w) \/ Release(w)

Next ==
    \/ Checkout
    \/ StartReconcile
    \/ \E w \in Handler : Serve(w)
    \/ \E w \in Worker : Advance(w) \/ FetchFails(w) \/ CommitFails(w) \/ Crash(w)

Spec == Init /\ [][Next]_vars

\* A started request runs on. The reconciliation is a request like any other: no
\* timer sends it.
Fairness == \A w \in Worker : WF_vars(Advance(w))

FairSpec == Spec /\ Fairness
-----------------------------------------------------------------------------
(* Properties *)

Stage == {"idle", "next", "read", "claim", "lookup", "commit", "release"}

\* Rows, attempts and requests keep their types.
TypeOK ==
    /\ status \in [Payment -> Status]
    /\ order \in [Payment -> BOOLEAN]
    /\ key \in [Payment -> Attempt \cup {NoAttempt}]
    /\ credit \in [Payment -> Nat]
    /\ att \in [Attempt -> [p : Payment \cup {0}, right : BOOLEAN,
                            state : {"none", "failed", "authorized", "captured"}]]
    /\ task \in [Worker -> [pc : Stage, p : Payment \cup {0},
                            a : Attempt \cup {NoAttempt}, todo : SUBSET Payment]]
    /\ faults \in Nat
    /\ crashed \in BOOLEAN

\* The refinement: claims, releases and failure webhooks are not seen.
StageOf(s) == IF s \in {"INITIATED", "PENDING", "FAILED"} THEN "OPEN" ELSE s
Taken(p) == \E a \in Attempt : att[a].p = p /\ IsPaid(a) /\ att[a].right

Intents == INSTANCE PaymentIntents WITH
    Intent <- Payment,
    stage  <- [p \in Payment |-> StageOf(status[p])],
    taken  <- [p \in Payment |-> Taken(p)],
    booked <- credit

\* Webhook, verify and reconcile may race on an intent, with lost replies,
\* crashes and late failure webhooks in between: its money is booked once, after
\* the gateway took it, and a booked intent only ever moves on to REFUNDED.
ImplementsIntents == Intents!Spec

\* A failed attempt, a wrong amount, or a crash that left a claim behind.
Spoiled(p) ==
    \/ crashed
    \/ \E a \in Attempt : att[a].p = p /\ (att[a].state = "failed" \/ ~att[a].right)

\* The row waits behind a full batch of older ones.
Crowded(p) == status[p] = "INITIATED" /\ order[p] /\ p \notin Stale

\* If somebody keeps posting /reconcile/run, money for the exact amount on an order
\* that is not spoiled is credited in the end, even if no webhook arrives, or else
\* the row is crowded out for good: abandoned orders stay INITIATED and fill the
\* batch (gateway.routes.ts:302-331), which the comment above the route does not say.
PaidIsCredited ==
    WF_vars(StartReconcile) =>
        \A a \in Attempt, p \in Payment :
            \/ att[a].p = p /\ IsPaid(a) ~> credit[p] > 0 \/ Spoiled(p)
            \/ <>[]Crowded(p)
=============================================================================
