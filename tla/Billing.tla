------------------------------- MODULE Billing -------------------------------
(***************************************************************************)
(* The SaaS billing engine of the control plane: sales of subscriptions    *)
(* and of message credits with their tax-invoice numbers, the spending of  *)
(* credits by the dispatchers, the dunning ladder and its human override.  *)
(*                                                                         *)
(* Every statement outside a transaction is a step, and so are the two     *)
(* halves of a sale's transaction: waiting for the advisory lock, then     *)
(* counting and minting under it. Amounts, tax, plans and subscription     *)
(* rows follow from the invoice and are not kept; all invoices are of one  *)
(* fiscal year; days are counted from 1, and 0 stands for a null date.     *)
(***************************************************************************)
EXTENDS Integers, FiniteSets, Sequences, Functions, FiniteSetsExt

CONSTANTS
    Tenant,       \* tenants of the control plane
    Clerk,        \* console and CLI processes that sell and override
    Drainer,      \* dispatchers spending the tenants' credits
    Worker,       \* processes running a dunning pass
    After,        \* DUNNING_LADDER: afterDaysPastDue of each stage
    Wait,         \* DUNNING_LADDER: nextStageDays of each stage
    LowMark,      \* balance at which the envelope is flagged
    LastDay,      \* bound: days
    MaxSales,     \* bound: invoices issued
    MaxSpends,    \* bound: sends paid from an envelope
    MaxEvents,    \* bound: events of a tenant an override may follow
    MaxByHand     \* bound: statuses written by operators

ASSUME BillingAssumption ==
    /\ After \in Seq(Nat) /\ Len(After) = 4 /\ Wait \in Seq(Nat) /\ Len(Wait) = 4
    /\ {LowMark, LastDay, MaxSales, MaxSpends, MaxEvents, MaxByHand} \subseteq Nat

Null == 0
Override == 0
REMINDER == 1
GRACE == 2
SUSPENDED == 3
CHURN_ALERT == 4
Stage == REMINDER .. CHURN_ALERT
Kind == {"convert", "topUp"}
Units == 1        \* what one top-up buys

VARIABLES
    status,       \* status of each tenant, DELETED once the row is gone; history:
                  \* is SUSPENDED the ladder's doing or an operator's
    invoices,     \* SaasInvoice rows: number, tenant, createdAt, units, paid
    envelope,     \* the tenant's CreditEnvelope
    events,       \* the tenant's DunningEvent rows, numbered by createdAt
    day,          \* today
    clerk, drainer, worker,  \* what each process is doing
    issued,       \* sales committed so far
    byHand,       \* statuses written by operators so far
    spent,        \* units spent from each envelope so far
    excused,      \* history: tenants topped up, or never charged, since the last
                  \* spend, or whose dispatcher has broken off
    purged,       \* invoices went away with a deleted tenant
    collided      \* a sale failed on a number already taken

vars == <<status, invoices, envelope, events, day, clerk, drainer, worker,
          issued, byHand, spent, excused, purged, collided>>

Idle == [pc |-> "idle"]
NoEnvelope == [balance |-> 0, purchased |-> 0, low |-> FALSE]
Exists(t) == status[t] # "DELETED"
InvoicesOf(t) == {i \in invoices : i.of = t}
Goes(proc, p, s) == [proc EXCEPT ![p] = s]

Init ==
    /\ status = [t \in Tenant |-> "TRIAL"]
    /\ invoices = {}
    /\ envelope = [t \in Tenant |-> NoEnvelope]
    /\ events = [t \in Tenant |-> {}]
    /\ day = 1
    /\ clerk = [c \in Clerk |-> Idle]
    /\ drainer = [d \in Drainer |-> Idle]
    /\ worker = [w \in Worker |-> Idle]
    /\ issued = 0 /\ byHand = 0 /\ spent = [t \in Tenant |-> 0] /\ excused = Tenant
    /\ purged = FALSE /\ collided = FALSE

-----------------------------------------------------------------------------
(* Sales: convertTenantToPaid, issueRenewalInvoice, purchaseCreditTopUp.    *)

ReadTenant(c, t, kind) ==
    /\ clerk[c] = Idle /\ Exists(t)
    /\ issued + Cardinality({k \in Clerk : clerk[k].pc \in {"lock", "mint"}}) < MaxSales
    /\ clerk' = Goes(clerk, c, [pc |-> "lock", of |-> t, kind |-> kind])
    /\ UNCHANGED <<status, invoices, envelope, events, day, drainer, worker,
                   issued, spent, excused, byHand, purged, collided>>

\* Mutant: the numbers are counted without waiting for the advisory lock.
LockIsFreeAlways == TRUE

LockIsFree == \A c \in Clerk : clerk[c].pc # "mint"

LockNumbers(c) ==
    /\ clerk[c].pc = "lock" /\ LockIsFree
    /\ clerk' = Goes(clerk, c, [of |-> clerk[c].of, kind |-> clerk[c].kind,
                                pc |-> "mint", no |-> Cardinality(invoices) + 1])
    /\ UNCHANGED <<status, invoices, envelope, events, day, drainer, worker,
                   issued, spent, excused, byHand, purged, collided>>

\* Mutant: the upsert stores the units bought instead of adding them.
ToppedUpStored(e) == [balance |-> Units, purchased |-> e.purchased + Units, low |-> FALSE]

ToppedUp(e) ==
    [balance |-> e.balance + Units, purchased |-> e.purchased + Units, low |-> FALSE]

\* The transaction of a sale: all of it, or nothing when the tenant row has
\* gone or the unique index finds the number taken.
Mint(c) ==
    LET t == clerk[c].of
        taken == \E i \in invoices : i.no = clerk[c].no
        convert == clerk[c].kind = "convert"
        row == [no |-> clerk[c].no, of |-> t, at |-> day, paid |-> FALSE,
                units |-> IF convert THEN 0 ELSE Units]
    IN  /\ clerk[c].pc = "mint"
        /\ clerk' = Goes(clerk, c, Idle)
        /\ collided' = (collided \/ taken)
        /\ IF taken \/ ~Exists(t)
           THEN UNCHANGED <<status, invoices, envelope, events, issued, excused>>
           ELSE /\ invoices' = invoices \cup {row}
                /\ issued' = issued + 1
                /\ IF convert
                   THEN /\ status' = [status EXCEPT ![t] = "ACTIVE"]
                        /\ events' = [events EXCEPT ![t] =
                              {e \in @ : e.stage \notin {REMINDER, GRACE}}]
                        /\ UNCHANGED <<envelope, excused>>
                   ELSE /\ envelope' = [envelope EXCEPT ![t] = ToppedUp(@)]
                        /\ excused' = excused \cup {t}
                        /\ UNCHANGED <<status, events>>
        /\ UNCHANGED <<day, drainer, worker, spent, byHand, purged>>

MarkPaid(i) ==
    /\ i \in invoices
    /\ invoices' = (invoices \ {i}) \cup {[i EXCEPT !.paid = TRUE]}
    /\ UNCHANGED <<status, envelope, events, day, clerk, drainer, worker,
                   issued, spent, excused, byHand, purged, collided>>

-----------------------------------------------------------------------------
(* tryDecrementCredits: the conditional update, the read-back, the flag.    *)

\* A send that finds the balance exhausted is refused and changes nothing; one
\* that cannot reach the control plane is let through and is not charged.
Spend(d, t) ==
    /\ drainer[d] = Idle /\ Exists(t) /\ envelope[t].balance >= 1
    /\ spent[t] < MaxSpends
    /\ envelope' = [envelope EXCEPT ![t].balance = @ - 1]
    /\ spent' = [spent EXCEPT ![t] = @ + 1]
    /\ excused' = excused \ {t}
    /\ drainer' = Goes(drainer, d, [pc |-> "look", of |-> t])
    /\ UNCHANGED <<status, invoices, events, day, clerk, worker, issued,
                   byHand, purged, collided>>

\* The read-back throws when the envelope has gone with its tenant.
LookAtBalance(d) ==
    LET t == drainer[d].of
        flag == Exists(t) /\ envelope[t].balance <= LowMark /\ ~envelope[t].low
    IN  /\ drainer[d].pc = "look"
        /\ drainer' = Goes(drainer, d, IF flag THEN [pc |-> "flag", of |-> t] ELSE Idle)
        /\ UNCHANGED <<status, invoices, envelope, events, day, clerk, worker, issued,
                       spent, excused, byHand, purged, collided>>

FlagLowBalance(d) ==
    LET t == drainer[d].of
    IN  /\ drainer[d].pc = "flag"
        /\ envelope' = IF Exists(t) THEN [envelope EXCEPT ![t].low = TRUE] ELSE envelope
        /\ drainer' = Goes(drainer, d, Idle)
        /\ UNCHANGED <<status, invoices, events, day, clerk, worker, issued, spent,
                       excused, byHand, purged, collided>>

\* The process dies after its decrement, or the read-back or the flag fails: the
\* dispatcher sends all the same.
BreakOffSend(d) ==
    /\ drainer[d] # Idle
    /\ drainer' = Goes(drainer, d, Idle)
    /\ excused' = excused \cup {drainer[d].of}
    /\ UNCHANGED <<status, invoices, envelope, events, day, clerk, worker, issued, spent,
                   byHand, purged, collided>>

-----------------------------------------------------------------------------
(* The dunning ladder: runDunningPass and overrideDunning.                  *)

Unpaid(t) == {i \in InvoicesOf(t) : ~i.paid}

\* The last of a tenant's events, and its events with one more.
Latest(log) == CHOOSE e \in log : \A f \in log : f.no <= e.no
Added(log, s, at, next) ==
    log \cup {[no |-> IF log = {} THEN 1 ELSE Latest(log).no + 1,
               stage |-> s, at |-> at, next |-> next]}

\* createdAt of the latest invoice still ISSUED.
LatestDue(t) == Max({i.at : i \in Unpaid(t)})

\* The pass works from the ACTIVE tenants and the invoices it lists first.
StartPass(w) ==
    /\ worker[w] = Idle
    /\ worker' = Goes(worker, w, [pc |-> "list", now |-> day, todo |->
          {[of |-> t, since |-> LatestDue(t)] :
                t \in {u \in Tenant : status[u] = "ACTIVE" /\ Unpaid(u) # {}}}])
    /\ UNCHANGED <<status, invoices, envelope, events, day, clerk, drainer, issued,
                   spent, excused, byHand, purged, collided>>

\* Mutant: the last event's date is not waited for.
DueStagesImpatient(now, since, log) == {s \in Stage : now - since >= After[s]}

\* The stages an invoice has reached, none before the date the last event set.
DueStages(now, since, log) ==
    {s \in Stage : /\ now - since >= After[s]
                   /\ \/ log = {}
                      \/ Latest(log).next = Null
                      \/ Latest(log).next <= now}

Assess(w, job) ==
    LET log == events[job.of]
        due == DueStages(worker[w].now, job.since, log)
        rest == [pc |-> "list", now |-> worker[w].now, todo |-> worker[w].todo \ {job}]
        skip == due = {} \/ (log # {} /\ Latest(log).stage = Max(due))
    IN  /\ worker[w].pc = "list" /\ job \in worker[w].todo
        /\ worker' = Goes(worker, w,
              IF skip THEN rest
              ELSE [pc |-> "notify", now |-> rest.now, todo |-> rest.todo,
                    of |-> job.of, stage |-> Max(due)])
        /\ UNCHANGED <<status, invoices, envelope, events, day, clerk, drainer, issued,
                       spent, excused, byHand, purged, collided>>

Back(w) == [pc |-> "list", now |-> worker[w].now, todo |-> worker[w].todo]

\* A tenant deleted since the listing makes the insert throw and ends the pass.
Notify(w) ==
    LET t == worker[w].of
        s == worker[w].stage
        next == IF s = CHURN_ALERT THEN Null ELSE worker[w].now + Wait[s]
    IN  /\ worker[w].pc = "notify"
        /\ IF Exists(t)
           THEN /\ events' = [events EXCEPT ![t] = Added(@, s, worker[w].now, next)]
                /\ worker' = Goes(worker, w,
                      IF s = SUSPENDED THEN [worker[w] EXCEPT !.pc = "suspend"] ELSE Back(w))
           ELSE worker' = Goes(worker, w, Idle) /\ UNCHANGED events
        /\ UNCHANGED <<status, invoices, envelope, day, clerk, drainer, issued, spent,
                       excused, byHand, purged, collided>>

\* The update does not look at the status again: ACTIVE was read in the listing.
Suspend(w) ==
    LET t == worker[w].of
    IN  /\ worker[w].pc = "suspend"
        /\ IF Exists(t)
           THEN status' = [status EXCEPT ![t] = "SUSPENDED"] /\ worker' = Goes(worker, w, Back(w))
           ELSE worker' = Goes(worker, w, Idle) /\ UNCHANGED status
        /\ UNCHANGED <<invoices, envelope, events, day, clerk, drainer, issued, spent,
                       excused, byHand, purged, collided>>

\* The pass has seen every tenant, or its process dies.
EndPass(w) ==
    /\ worker[w] # Idle
    /\ worker' = Goes(worker, w, Idle)
    /\ UNCHANGED <<status, invoices, envelope, events, day, clerk, drainer, issued,
                   spent, excused, byHand, purged, collided>>

RecordOverride(c, t, reactivate) ==
    /\ clerk[c] = Idle /\ Exists(t) /\ Cardinality(events[t]) < MaxEvents
    /\ events' = [events EXCEPT ![t] = Added(@, Override, day, Null)]
    /\ clerk' = Goes(clerk, c, IF reactivate THEN [pc |-> "reactivate", of |-> t] ELSE Idle)
    /\ UNCHANGED <<status, invoices, envelope, day, drainer, worker, issued, spent,
                   excused, byHand, purged, collided>>

Reactivate(c) ==
    LET t == clerk[c].of
    IN  /\ clerk[c].pc = "reactivate"
        /\ status' = IF Exists(t) THEN [status EXCEPT ![t] = "ACTIVE"] ELSE status
        /\ clerk' = Goes(clerk, c, Idle)
        /\ UNCHANGED <<invoices, envelope, events, day, drainer, worker, issued, spent,
                       excused, byHand, purged, collided>>

-----------------------------------------------------------------------------
(* lifecycle.ts: what operators do past the ladder and its trail.           *)

ByHand == {"SUSPENDED_BY_HAND", "TRIAL", "ACTIVE", "DELETING"}

\* suspendTenant, resumeTenant by the end of the trial, scheduleTenantDeletion: the
\* status alone, whatever it was; no DunningEvent is written.
WriteStatus(t, s) ==
    /\ Exists(t)
    /\ byHand < MaxByHand                                       \* bound
    /\ byHand' = byHand + 1
    /\ status' = [status EXCEPT ![t] = s]
    /\ UNCHANGED <<invoices, envelope, events, day, clerk, drainer, worker, issued, spent,
                   excused, purged, collided>>

\* hardDeleteTenant looks at the status first...
OpenHardDelete(c, t) ==
    /\ clerk[c] = Idle /\ status[t] = "DELETING"
    /\ clerk' = Goes(clerk, c, [pc |-> "delete", of |-> t])
    /\ UNCHANGED <<status, invoices, envelope, events, day, drainer, worker, issued, spent,
                   excused, byHand, purged, collided>>

\* ...and its last step deletes the row with every row of the tenant.
DeleteTenant(t) ==
    /\ Exists(t) /\ \E c \in Clerk : clerk[c].pc = "delete" /\ clerk[c].of = t
    /\ status' = [status EXCEPT ![t] = "DELETED"]
    /\ invoices' = invoices \ InvoicesOf(t)
    /\ purged' = (purged \/ InvoicesOf(t) # {})
    /\ envelope' = [envelope EXCEPT ![t] = NoEnvelope]
    /\ events' = [events EXCEPT ![t] = {}]
    /\ UNCHANGED <<day, clerk, drainer, worker, issued, spent, byHand, excused, collided>>

\* A process of the console or the CLI gives up or dies; its transaction rolls back.
HangUp(c) ==
    /\ clerk[c] # Idle
    /\ clerk' = Goes(clerk, c, Idle)
    /\ UNCHANGED <<status, invoices, envelope, events, day, drainer, worker, issued, spent,
                   excused, byHand, purged, collided>>

Tick ==
    /\ day < LastDay
    /\ day' = day + 1
    /\ UNCHANGED <<status, invoices, envelope, events, clerk, drainer, worker, issued,
                   spent, excused, byHand, purged, collided>>

Sell(c) == (\E t \in Tenant, k \in Kind : ReadTenant(c, t, k)) \/ LockNumbers(c) \/ Mint(c)
Send(d) ==
    (\E t \in Tenant : Spend(d, t)) \/ LookAtBalance(d) \/ FlagLowBalance(d) \/ BreakOffSend(d)
Dun(w) ==
    \/ StartPass(w) \/ Notify(w) \/ Suspend(w) \/ EndPass(w)
    \/ worker[w].pc = "list" /\ \E job \in worker[w].todo : Assess(w, job)
Intervene(c) ==
    \/ Reactivate(c) \/ HangUp(c)
    \/ \E t \in Tenant : OpenHardDelete(c, t) \/ \E r \in BOOLEAN : RecordOverride(c, t, r)

Next ==
    \/ \E c \in Clerk : Sell(c) \/ Intervene(c)
    \/ \E i \in invoices : MarkPaid(i)
    \/ \E d \in Drainer : Send(d)
    \/ \E w \in Worker : Dun(w)
    \/ \E t \in Tenant : DeleteTenant(t) \/ \E s \in ByHand : WriteStatus(t, s)
    \/ Tick

Spec == Init /\ [][Next]_vars

-----------------------------------------------------------------------------
(* Properties.                                                              *)

\* As long as no invoice has gone away with a deleted tenant, the numbers of
\* the fiscal year have no gap and no sale fails on a number already taken,
\* however many sales run at once (the advisory lock of billing.ts:145-149).
NumbersDense ==
    ~purged => /\ ~collided
               /\ {i.no : i \in invoices} = 1 .. Cardinality(invoices)

\* An envelope holds what its invoices sold less what was sent, never below
\* zero, and one spent down to the mark is flagged as soon as no dispatcher is
\* between its decrement and its flag, unless one broke off there: only the next
\* spend makes up for that (credits.ts:55-85).
EnvelopeTells ==
    \A t \in {u \in Tenant : Exists(u)} :
        /\ envelope[t].purchased = SumFunctionOnSet([i \in invoices |-> i.units], InvoicesOf(t))
        /\ envelope[t].balance \in Nat
        /\ envelope[t].balance + spent[t] = envelope[t].purchased
        /\ envelope[t].balance <= LowMark /\ t \notin excused
              => envelope[t].low \/ \E d \in Drainer : drainer[d] # Idle /\ drainer[d].of = t

\* What was sold, what was sent and what is left add up.
SalesAddUp == NumbersDense /\ EnvelopeTells

\* The trail explains the status and keeps its word: a tenant has its SUSPENDED
\* event, whatever pass died where, unless an operator suspended it, who writes
\* none (lifecycle.ts:18-26, against billing.ts:11-12); and with one pass at a time
\* (one Worker) no event comes before the date its predecessor set. A stage comes
\* twice in a row only when a later conversion has wiped what stood between
\* (billing.ts:430-457, 224).
TrailExplains ==
    \A t \in Tenant :
        /\ status[t] = "SUSPENDED" => \E e \in events[t] : e.stage = SUSPENDED
        /\ \A e, f \in events[t] :
              /\ Override \notin {e.stage, f.stage} /\ e.no < f.no
              /\ \A g \in events[t] : g.no <= e.no \/ g.no >= f.no
              => /\ e.next <= f.at
                 /\ e.stage = f.stage =>
                       /\ e.stage \notin {REMINDER, GRACE}
                       /\ \E i \in InvoicesOf(t) : i.units = 0 /\ i.at >= e.at /\ i.at >= e.next
=============================================================================
