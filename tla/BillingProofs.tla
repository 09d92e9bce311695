---------------------------- MODULE BillingProofs ----------------------------
(***************************************************************************)
(* Proofs about Billing, for any number of tenants, clerks, dispatchers    *)
(* and days and any ladder: numbers and envelopes add up however many      *)
(* sales and sends run at once, and with one dunning pass at a time the    *)
(* trail of events explains what the ladder did. Then Provisioning, for    *)
(* any number of operators, tenants, releases and faults: the registry is  *)
(* true. Last SchoolSetup, for any schools, users and requests: what       *)
(* set-ups and changes of branches and of admins leave behind agrees.      *)
(***************************************************************************)
EXTENDS Billing, Provisioning, SchoolSetup, SumProofs, SequenceTheorems

-----------------------------------------------------------------------------
(* The parts of the inductive invariant *)

StatusName == ByHand \cup {"SUSPENDED", "DELETED"}
Row == [no : Nat, of : Tenant, at : Nat, paid : BOOLEAN, units : Nat]
Envelope == [balance : Nat, purchased : Nat, low : BOOLEAN]
Event == [no : Nat, stage : Override .. CHURN_ALERT, at : Nat, next : Nat]
Job == [of : Tenant, since : Nat]

Waiting == [pc : {"lock"}, of : Tenant, kind : Kind]
Minting == [of : Tenant, kind : Kind, pc : {"mint"}, no : Nat]
Appointed == [pc : {"reactivate", "delete"}, of : Tenant]
Sending == [pc : {"look", "flag"}, of : Tenant]
Listing == [pc : {"list"}, now : Nat, todo : SUBSET Job]
Climbing == [pc : {"notify", "suspend"}, now : Nat, todo : SUBSET Job, of : Tenant, stage : Stage]

BillingTypeOK ==
    /\ status \in [Tenant -> StatusName]
    /\ invoices \subseteq Row /\ IsFiniteSet(invoices)
    /\ envelope \in [Tenant -> Envelope]
    /\ events \in [Tenant -> SUBSET Event] /\ \A t \in Tenant : IsFiniteSet(events[t])
    /\ day \in Nat
    /\ clerk \in [Clerk -> {Idle} \cup Waiting \cup Minting \cup Appointed]
    /\ drainer \in [Drainer -> {Idle} \cup Sending]
    /\ worker \in [Worker -> {Idle} \cup Listing \cup Climbing]
    /\ issued \in Nat /\ byHand \in Nat /\ spent \in [Tenant -> Nat] /\ excused \subseteq Tenant
    /\ purged \in BOOLEAN /\ collided \in BOOLEAN

\* Whoever holds the advisory lock holds the next number, and holds it alone.
NumbersInv ==
    /\ \A i, j \in invoices : i.no = j.no => i = j
    /\ NumbersDense
    /\ \A c \in Clerk : clerk[c].pc = "mint" =>
          /\ ~purged => clerk[c].no = Cardinality(invoices) + 1
          /\ \A d \in Clerk : clerk[d].pc = "mint" => d = c

\* A dispatcher at a tenant's envelope, between its decrement and its flag.
AtEnvelope(t) == \E d \in Drainer : drainer[d].pc \in {"look", "flag"} /\ drainer[d].of = t

Sold(t) == SumFunctionOnSet([i \in invoices |-> i.units], InvoicesOf(t))

EnvelopeInv ==
    \A t \in Tenant : Exists(t) =>
        /\ envelope[t].purchased = Sold(t)
        /\ envelope[t].balance + spent[t] = envelope[t].purchased
        /\ envelope[t].balance <= LowMark /\ t \notin excused
              => envelope[t].low \/ AtEnvelope(t)

SalesInv == BillingTypeOK /\ NumbersInv /\ EnvelopeInv

\* A conversion has come since event e, no earlier than the date e set.
Converted(t, e) == \E i \in InvoicesOf(t) : i.units = 0 /\ i.at >= e.at /\ i.at >= e.next

\* Event s may follow e at once, as far as the stages go.
MayFollow(t, e, s) == e.stage = s => s \notin {REMINDER, GRACE} /\ Converted(t, e)

NoOverrideFrom(log, e) == \A g \in log : g.no >= e.no => g.stage # Override
NoOverrideBetween(log, e, f) ==
    \A g \in log : g.no >= e.no /\ g.no <= f.no => g.stage # Override

Ordered(t, log) ==
    /\ \A e, f \in log : e.no = f.no => e = f
    /\ \A e, f \in log : e.no < f.no /\ NoOverrideBetween(log, e, f) =>
          /\ e.at <= f.at /\ e.next <= f.at
          /\ \/ \E g \in log : e.no < g.no /\ g.no < f.no
             \/ MayFollow(t, e, f.stage)

\* What the pass is about to record keeps the trail in order.
Pending(w, t) ==
    \A e \in events[t] : NoOverrideFrom(events[t], e) =>
        /\ e.next <= worker[w].now
        /\ \/ \E g \in events[t] : g.no > e.no
           \/ MayFollow(t, e, worker[w].stage)

TrailInv ==
    /\ \A t \in Tenant : Ordered(t, events[t])
    /\ \A t \in Tenant : \A e \in events[t] : e.at <= day
    /\ \A w \in Worker : worker[w] # Idle =>
          /\ worker[w].now <= day
          /\ \A t \in Tenant : \A e \in events[t] :
                e.stage # Override => e.at <= worker[w].now
    /\ \A w \in Worker : worker[w].pc = "notify" => Pending(w, worker[w].of)

SuspensionInv ==
    /\ \A t \in Tenant : status[t] = "SUSPENDED" => \E e \in events[t] : e.stage = SUSPENDED
    /\ \A w \in Worker : worker[w].pc = "suspend" =>
          worker[w].stage = SUSPENDED /\
          (Exists(worker[w].of) => \E e \in events[worker[w].of] : e.stage = SUSPENDED)

BillingInv == SalesInv /\ TrailInv /\ SuspensionInv

-----------------------------------------------------------------------------
(* The last events of a log *)

\* The last event of a log is one of it.
LEMMA LatestIs ==
    ASSUME NEW log \in SUBSET Event, IsFiniteSet(log), log # {}
    PROVE  Latest(log) \in log /\ \A f \in log : f.no <= Latest(log).no
<1> DEFINE no == [e \in log |-> e.no]
<1>1. \A e \in log : no[e] \in Int /\ no[e] = e.no
  BY DEF Event
<1> HIDE DEF no
<1>2. PICK m \in log : \A e \in log : no[e] <= no[m]
  BY <1>1, Greatest
<1>3. \A e \in log : e.no <= m.no
  BY <1>1, <1>2
<1> QED BY <1>3 DEF Latest

\* A new event comes after those there are.
LEMMA AddedIs ==
    ASSUME NEW log \in SUBSET Event, IsFiniteSet(log), NEW s \in Override .. CHURN_ALERT,
           NEW at \in Nat, NEW next \in Nat
    PROVE  \E e \in Event :
              /\ Added(log, s, at, next) = log \cup {e}
              /\ e.stage = s /\ e.at = at /\ e.next = next
              /\ \A f \in log : f.no < e.no
<1> DEFINE n == IF log = {} THEN 1 ELSE Latest(log).no + 1
           e == [no |-> n, stage |-> s, at |-> at, next |-> next]
<1>1. n \in Nat /\ \A f \in log : f.no < n
  <2>1. CASE log = {}
    BY <2>1
  <2>2. CASE log # {}
    <3>1. Latest(log) \in log /\ \A f \in log : f.no <= Latest(log).no
      BY <2>2, LatestIs
    <3>2. \A f \in log : f.no \in Nat
      BY DEF Event
    <3> QED BY <2>2, <3>1, <3>2
  <2> QED BY <2>1, <2>2
<1>2. Added(log, s, at, next) = log \cup {e}
  BY DEF Added
<1> HIDE DEF n
<1>3. e \in Event
  BY <1>1 DEF Event
<1> QED BY <1>1, <1>2, <1>3

LEMMA HighestStage ==
    ASSUME NEW due \in SUBSET Stage, due # {}
    PROVE  Max(due) \in due
<1>1. \A s \in Stage : s \in {1, 2, 3, 4}
  BY DEF Stage, REMINDER, CHURN_ALERT
<1>2. \E m \in due : \A s \in due : m >= s
  BY <1>1
<1> QED BY <1>2 DEF Max

\* createdAt of the latest of some invoices is a day.
LEMMA LatestDueIs ==
    ASSUME BillingTypeOK, NEW t \in Tenant, Unpaid(t) # {}
    PROVE  LatestDue(t) \in Nat
<1> DEFINE S == Unpaid(t)
           at == [i \in S |-> i.at]
<1>1. S \in SUBSET invoices
  BY DEF Unpaid, InvoicesOf
<1>2. IsFiniteSet(S)
  BY <1>1, FS_Subset DEF BillingTypeOK
<1>3. \A i \in S : at[i] \in Nat /\ at[i] = i.at
  BY <1>1 DEF BillingTypeOK, Row
<1> HIDE DEF S, at
<1>4. PICK m \in S : \A i \in S : at[i] <= at[m]
  BY <1>2, <1>3, Greatest DEF S
<1>5. \A i \in S : m.at >= i.at /\ m.at \in Nat
  BY <1>3, <1>4
<1>6. \E x \in {i.at : i \in S} : \A y \in {i.at : i \in S} : x >= y
  BY <1>5, <1>4
<1>7. Max({i.at : i \in S}) \in {i.at : i \in S}
  BY <1>6 DEF Max
<1>8. \E i \in S : Max({j.at : j \in S}) = i.at
  BY <1>7
<1>9. PICK i \in S : LatestDue(t) = i.at
  BY <1>8 DEF LatestDue, S
<1> QED BY <1>3, <1>9

-----------------------------------------------------------------------------
(* Types *)

\* A sale leaves the rows of the control plane well typed.
LEMMA MintTypes == ASSUME BillingTypeOK, NEW c \in Clerk, Mint(c) PROVE BillingTypeOK'
<1> DEFINE t == clerk[c].of
           row(n) == [no |-> clerk[c].no, of |-> t, at |-> day, paid |-> FALSE, units |-> n]
<1>1. clerk[c] \in Minting
  BY DEF BillingTypeOK, Mint, Idle, Waiting, Appointed, Minting
<1>2. t \in Tenant /\ clerk[c].no \in Nat
  BY <1>1 DEF Minting
<1>3. row(0) \in Row /\ row(Units) \in Row
  BY <1>2 DEF Row, Units, BillingTypeOK
<1>4. clerk' \in [Clerk -> {Idle} \cup Waiting \cup Minting \cup Appointed]
  BY DEF Mint, Goes, BillingTypeOK
<1>5. invoices' \in {invoices, invoices \cup {row(0)}, invoices \cup {row(Units)}}
  BY DEF Mint
<1>6. invoices' \subseteq Row /\ IsFiniteSet(invoices')
  <2>1. invoices \subseteq Row /\ IsFiniteSet(invoices)
    BY DEF BillingTypeOK
  <2>2. IsFiniteSet(invoices \cup {row(0)}) /\ IsFiniteSet(invoices \cup {row(Units)})
    BY <2>1, FS_AddElement
  <2> HIDE DEF row
  <2> QED BY <2>1, <2>2, <1>3, <1>5
<1>7. events' \in [Tenant -> SUBSET Event] /\ \A u \in Tenant : IsFiniteSet(events'[u])
  <2> DEFINE kept == {e \in events[t] : e.stage \notin {REMINDER, GRACE}}
  <2>1. kept \in SUBSET events[t] /\ IsFiniteSet(kept)
    BY <1>2, FS_Subset DEF BillingTypeOK
  <2>2. events' = events \/ events' = [events EXCEPT ![t] = kept]
    BY DEF Mint
  <2> HIDE DEF kept, t
  <2>3. CASE events' = events
    BY <2>3 DEF BillingTypeOK
  <2>4. CASE events' = [events EXCEPT ![t] = kept]
    BY <1>2, <2>1, <2>4 DEF BillingTypeOK
  <2> QED BY <2>2, <2>3, <2>4
<1>8. envelope' \in [Tenant -> Envelope]
  <2>1. \A e \in Envelope : ToppedUp(e) \in Envelope
    BY DEF Envelope, ToppedUp, Units
  <2> QED BY <1>2, <2>1 DEF Mint, BillingTypeOK
<1>9. status' \in [Tenant -> StatusName] /\ issued' \in Nat /\ excused' \subseteq Tenant
  <2> HIDE DEF t, row
  <2>1. \/ UNCHANGED <<status, issued, excused>>
        \/ /\ issued' = issued + 1
           /\ \/ status' = [status EXCEPT ![t] = "ACTIVE"] /\ excused' = excused
              \/ status' = status /\ excused' = excused \cup {t}
    BY DEF Mint, t
  <2> QED BY <1>2, <2>1 DEF BillingTypeOK, StatusName, ByHand
<1>10. collided' \in BOOLEAN
  BY DEF Mint, BillingTypeOK
<1> QED BY <1>4, <1>6, <1>7, <1>8, <1>9, <1>10 DEF Mint, BillingTypeOK

LEMMA SellTypes ==
    ASSUME BillingTypeOK, NEW c \in Clerk, Sell(c) \/ Intervene(c)
    PROVE  BillingTypeOK'
<1>1. ASSUME NEW t \in Tenant, NEW k \in Kind, ReadTenant(c, t, k)
      PROVE  BillingTypeOK'
  <2>1. [pc |-> "lock", of |-> t, kind |-> k] \in Waiting
    BY DEF Waiting
  <2> QED BY <1>1, <2>1 DEF ReadTenant, Goes, BillingTypeOK
<1>2. CASE LockNumbers(c)
  <2>1. clerk[c] \in Waiting
    BY <1>2 DEF BillingTypeOK, LockNumbers, Idle, Waiting, Appointed, Minting
  <2>2. Cardinality(invoices) + 1 \in Nat
    BY FS_CardinalityType DEF BillingTypeOK
  <2>3. [of |-> clerk[c].of, kind |-> clerk[c].kind, pc |-> "mint",
         no |-> Cardinality(invoices) + 1] \in Minting
    BY <2>1, <2>2 DEF Waiting, Minting
  <2> QED BY <1>2, <2>3 DEF LockNumbers, Goes, BillingTypeOK
<1>3. CASE Mint(c)
  BY <1>3, MintTypes
<1>4. CASE Reactivate(c)
  BY <1>4 DEF Reactivate, Goes, BillingTypeOK, StatusName, ByHand
<1>5. ASSUME NEW t \in Tenant, NEW r \in BOOLEAN, RecordOverride(c, t, r)
      PROVE  BillingTypeOK'
  <2>1. Override \in Override .. CHURN_ALERT /\ Null \in Nat /\ day \in Nat
    BY DEF Override, CHURN_ALERT, Null, BillingTypeOK
  <2>2. events[t] \in SUBSET Event /\ IsFiniteSet(events[t])
    BY DEF BillingTypeOK
  <2>3. PICK e \in Event : Added(events[t], Override, day, Null) = events[t] \cup {e}
    BY <2>1, <2>2, AddedIs
  <2>4. events' = [events EXCEPT ![t] = events[t] \cup {e}]
    BY <1>5, <2>3 DEF RecordOverride
  <2>5. events' \in [Tenant -> SUBSET Event] /\ \A u \in Tenant : IsFiniteSet(events'[u])
    BY <2>2, <2>4, FS_AddElement DEF BillingTypeOK
  <2>6. [pc |-> "reactivate", of |-> t] \in Appointed
    BY DEF Appointed
  <2>7. clerk' \in [Clerk -> {Idle} \cup Waiting \cup Minting \cup Appointed]
    BY <1>5, <2>6 DEF RecordOverride, Goes, BillingTypeOK
  <2> QED BY <1>5, <2>5, <2>7 DEF RecordOverride, BillingTypeOK
<1>6. ASSUME NEW t \in Tenant, OpenHardDelete(c, t) PROVE BillingTypeOK'
  <2>1. [pc |-> "delete", of |-> t] \in Appointed
    BY DEF Appointed
  <2> QED BY <1>6, <2>1 DEF OpenHardDelete, Goes, BillingTypeOK
<1>7. CASE HangUp(c)
  BY <1>7 DEF HangUp, Goes, BillingTypeOK
<1> QED BY <1>1, <1>2, <1>3, <1>4, <1>5, <1>6, <1>7 DEF Sell, Intervene

LEMMA SendTypes == ASSUME BillingTypeOK, NEW d \in Drainer, Send(d) PROVE BillingTypeOK'
<1>1. ASSUME NEW t \in Tenant, Spend(d, t) PROVE BillingTypeOK'
  <2>1. [pc |-> "look", of |-> t] \in Sending
    BY DEF Sending
  <2>2. envelope[t] \in Envelope /\ envelope[t].balance >= 1
    BY <1>1 DEF Spend, BillingTypeOK
  <2>3. [envelope[t] EXCEPT !.balance = @ - 1] \in Envelope
    BY <2>2 DEF Envelope
  <2>4. envelope' \in [Tenant -> Envelope]
    BY <1>1, <2>3 DEF Spend, BillingTypeOK
  <2> QED BY <1>1, <2>1, <2>4 DEF Spend, Goes, BillingTypeOK
<1>2. CASE LookAtBalance(d)
  <2>1. drainer[d] \in Sending
    BY <1>2 DEF LookAtBalance, BillingTypeOK, Idle, Sending
  <2>2. [pc |-> "flag", of |-> drainer[d].of] \in Sending
    BY <2>1 DEF Sending
  <2> QED BY <1>2, <2>2 DEF LookAtBalance, Goes, BillingTypeOK
<1>3. CASE FlagLowBalance(d)
  <2>1. \A e \in Envelope : [e EXCEPT !.low = TRUE] \in Envelope
    BY DEF Envelope
  <2> QED BY <1>3, <2>1 DEF FlagLowBalance, Goes, BillingTypeOK
<1>4. CASE BreakOffSend(d)
  <2>1. drainer[d] \in Sending
    BY <1>4 DEF BreakOffSend, BillingTypeOK
  <2>2. drainer[d].of \in Tenant
    BY <2>1 DEF Sending
  <2> QED BY <1>4, <2>2 DEF BreakOffSend, Goes, BillingTypeOK
<1> QED BY <1>1, <1>2, <1>3, <1>4 DEF Send

\* Every stage has a number of days to wait.
LEMMA WaitsAreDays == \A s \in Stage : Wait[s] \in Nat
<1> SUFFICES ASSUME NEW s \in Stage PROVE Wait[s] \in Nat
  OBVIOUS
<1>1. Wait \in Seq(Nat) /\ Len(Wait) = 4
  BY BillingAssumption
<1>2. s \in 1 .. Len(Wait)
  BY <1>1 DEF Stage, REMINDER, CHURN_ALERT
<1> QED BY <1>1, <1>2

LEMMA DunTypes ==
    ASSUME BillingTypeOK, NEW w \in Worker, Dun(w)
    PROVE  BillingTypeOK'
<1>1. CASE StartPass(w)
  <2> DEFINE due == {u \in Tenant : status[u] = "ACTIVE" /\ Unpaid(u) # {}}
             todo == {[of |-> t, since |-> LatestDue(t)] : t \in due}
  <2>1. \A t \in due : [of |-> t, since |-> LatestDue(t)] \in Job
    BY LatestDueIs DEF Job
  <2>2. todo \in SUBSET Job
    BY <2>1
  <2> HIDE DEF due
  <2>3. worker' = [worker EXCEPT ![w] = [pc |-> "list", now |-> day, todo |-> todo]]
    BY <1>1 DEF StartPass, Goes, due
  <2> HIDE DEF todo
  <2>4. [pc |-> "list", now |-> day, todo |-> todo] \in Listing
    BY <2>2 DEF Listing, BillingTypeOK
  <2>5. worker' \in [Worker -> {Idle} \cup Listing \cup Climbing]
    BY <2>3, <2>4 DEF BillingTypeOK
  <2> QED BY <1>1, <2>5 DEF StartPass, BillingTypeOK
<1>2. ASSUME worker[w].pc = "list", NEW job \in worker[w].todo, Assess(w, job)
      PROVE  BillingTypeOK'
  <2> DEFINE due == DueStages(worker[w].now, job.since, events[job.of])
             rest == [pc |-> "list", now |-> worker[w].now, todo |-> worker[w].todo \ {job}]
             next == [pc |-> "notify", now |-> worker[w].now, todo |-> worker[w].todo \ {job},
                      of |-> job.of, stage |-> Max(due)]
  <2>1. worker[w] \in Listing
    BY <1>2 DEF BillingTypeOK, Idle, Listing, Climbing
  <2>2. job \in Job /\ worker[w].now \in Nat /\ worker[w].todo \ {job} \in SUBSET Job
    BY <1>2, <2>1 DEF Listing
  <2>3. rest \in Listing
    BY <2>2 DEF Listing
  <2>4. due # {} => Max(due) \in Stage
    BY HighestStage DEF DueStages
  <2> HIDE DEF due
  <2>5. due # {} => next \in Climbing
    BY <2>2, <2>4 DEF Climbing, Job
  <2>6. \/ worker' = [worker EXCEPT ![w] = rest]
        \/ due # {} /\ worker' = [worker EXCEPT ![w] = next]
    BY <1>2 DEF Assess, Goes, due
  <2> HIDE DEF rest, next
  <2>7. worker' \in [Worker -> {Idle} \cup Listing \cup Climbing]
    BY <2>3, <2>5, <2>6 DEF BillingTypeOK
  <2> QED BY <1>2, <2>7 DEF Assess, BillingTypeOK
<1>3. CASE Notify(w)
  <2> DEFINE t == worker[w].of
             s == worker[w].stage
             next == IF s = CHURN_ALERT THEN Null ELSE worker[w].now + Wait[s]
  <2>1. worker[w] \in Climbing
    BY <1>3 DEF Notify, BillingTypeOK, Idle, Listing, Climbing
  <2>2. t \in Tenant /\ s \in Stage /\ worker[w].now \in Nat /\ worker[w].todo \in SUBSET Job
    BY <2>1 DEF Climbing
  <2>3. next \in Nat /\ s \in Override .. CHURN_ALERT
    <3>1. s \in 1 .. 4
      BY <2>2 DEF Stage, REMINDER, CHURN_ALERT
    <3>2. Wait[s] \in Nat
      BY <2>2, WaitsAreDays
    <3> HIDE DEF s
    <3> QED BY <2>2, <3>1, <3>2 DEF CHURN_ALERT, Override, Null
  <2>4. Back(w) \in Listing /\ [worker[w] EXCEPT !.pc = "suspend"] \in Climbing
    BY <2>1, <2>2 DEF Back, Listing, Climbing
  <2>5. worker' \in [Worker -> {Idle} \cup Listing \cup Climbing]
    BY <1>3, <2>4 DEF Notify, Goes, BillingTypeOK
  <2>11. events[t] \in SUBSET Event /\ IsFiniteSet(events[t])
    BY <2>2 DEF BillingTypeOK
  <2>6. PICK e \in Event : Added(events[t], s, worker[w].now, next) = events[t] \cup {e}
    <3> HIDE DEF t, s, next
    <3> QED BY <2>2, <2>3, <2>11, AddedIs
  <2>7. \/ events' = events
        \/ events' = [events EXCEPT ![t] = Added(events[t], s, worker[w].now, next)]
    BY <1>3 DEF Notify
  <2>8. events' = events \/ events' = [events EXCEPT ![t] = events[t] \cup {e}]
    BY <2>6, <2>7
  <2>9. IsFiniteSet(events[t] \cup {e})
    BY <2>2, FS_AddElement DEF BillingTypeOK
  <2> HIDE DEF t, s, next
  <2>10. events' \in [Tenant -> SUBSET Event] /\ \A u \in Tenant : IsFiniteSet(events'[u])
    BY <2>2, <2>8, <2>9 DEF BillingTypeOK
  <2> QED BY <1>3, <2>5, <2>10 DEF Notify, BillingTypeOK
<1>4. CASE Suspend(w)
  <2>1. worker[w] \in Climbing
    BY <1>4 DEF Suspend, BillingTypeOK, Idle, Listing, Climbing
  <2>2. Back(w) \in Listing
    BY <2>1 DEF Back, Listing, Climbing
  <2> QED BY <1>4, <2>2 DEF Suspend, Goes, BillingTypeOK, StatusName, ByHand
<1>5. CASE EndPass(w)
  BY <1>5 DEF EndPass, Goes, BillingTypeOK
<1> QED BY <1>1, <1>2, <1>3, <1>4, <1>5 DEF Dun

LEMMA OtherTypes ==
    ASSUME BillingTypeOK, \/ \E i \in invoices : MarkPaid(i)
                          \/ \E t \in Tenant : DeleteTenant(t)
                          \/ \E t \in Tenant, s \in ByHand : WriteStatus(t, s)
                          \/ Tick
    PROVE  BillingTypeOK'
<1>1. ASSUME NEW i \in invoices, MarkPaid(i) PROVE BillingTypeOK'
  <2>1. [i EXCEPT !.paid = TRUE] \in Row
    BY DEF Row, BillingTypeOK
  <2>2. IsFiniteSet(invoices \ {i})
    BY FS_RemoveElement DEF BillingTypeOK
  <2>3. IsFiniteSet(invoices')
    BY <1>1, <2>2, FS_AddElement DEF MarkPaid
  <2>4. invoices' \subseteq Row
    BY <1>1, <2>1 DEF MarkPaid, BillingTypeOK
  <2> QED BY <1>1, <2>3, <2>4 DEF MarkPaid, BillingTypeOK
<1>2. ASSUME NEW t \in Tenant, DeleteTenant(t) PROVE BillingTypeOK'
  <2>1. invoices' \in SUBSET invoices
    BY <1>2 DEF DeleteTenant
  <2>2. IsFiniteSet(invoices') /\ invoices' \subseteq Row
    BY <2>1, FS_Subset DEF BillingTypeOK
  <2>3. NoEnvelope \in Envelope
    BY DEF NoEnvelope, Envelope
  <2>4. IsFiniteSet({})
    BY FS_EmptySet
  <2>5. events' \in [Tenant -> SUBSET Event] /\ \A u \in Tenant : IsFiniteSet(events'[u])
    BY <1>2, <2>4 DEF DeleteTenant, BillingTypeOK
  <2>6. envelope' \in [Tenant -> Envelope] /\ status' \in [Tenant -> StatusName]
    BY <1>2, <2>3 DEF DeleteTenant, BillingTypeOK, StatusName, ByHand
  <2>7. purged' \in BOOLEAN
    BY <1>2 DEF DeleteTenant, BillingTypeOK
  <2> QED BY <1>2, <2>2, <2>5, <2>6, <2>7 DEF DeleteTenant, BillingTypeOK
<1>3. CASE Tick
  BY <1>3 DEF Tick, BillingTypeOK
<1>4. ASSUME NEW t \in Tenant, NEW s \in ByHand, WriteStatus(t, s) PROVE BillingTypeOK'
  BY <1>4 DEF WriteStatus, BillingTypeOK, StatusName
<1> QED BY <1>1, <1>2, <1>3, <1>4

LEMMA TypesStep == BillingTypeOK /\ [Next]_vars => BillingTypeOK'
<1> SUFFICES ASSUME BillingTypeOK, [Next]_vars PROVE BillingTypeOK'
  OBVIOUS
<1>1. CASE UNCHANGED vars
  BY <1>1 DEF vars, BillingTypeOK
<1>2. CASE Next
  BY <1>2, SellTypes, SendTypes, DunTypes, OtherTypes DEF Next
<1> QED BY <1>1, <1>2

-----------------------------------------------------------------------------
(* Numbers and envelopes *)

\* The processes by what their states say.
LEMMA AtWork ==
    ASSUME BillingTypeOK
    PROVE  /\ \A c \in Clerk : clerk[c].pc = "mint" => clerk[c] \in Minting
           /\ \A c \in Clerk : clerk[c] = Idle => clerk[c].pc = "idle"
           /\ \A d \in Drainer : drainer[d] = Idle \/ drainer[d] \in Sending
           /\ \A w \in Worker : worker[w].pc = "list" => worker[w] \in Listing
           /\ \A w \in Worker : worker[w].pc \in {"notify", "suspend"} => worker[w] \in Climbing
           /\ \A w \in Worker : worker[w] # Idle =>
                 worker[w] \in Listing \/ worker[w] \in Climbing
BY DEF BillingTypeOK, Idle, Waiting, Minting, Appointed, Sending, Listing, Climbing

\* The row a sale adds, when it does.
LEMMA MintAdds ==
    ASSUME BillingTypeOK, NEW c \in Clerk, Mint(c), invoices' # invoices
    PROVE  \E r \in Row :
              /\ invoices' = invoices \cup {r}
              /\ \A i \in invoices : i.no # r.no
              /\ r.no = clerk[c].no /\ r.of = clerk[c].of /\ r.at = day /\ Exists(r.of)
              /\ \/ /\ clerk[c].kind = "convert" /\ r.units = 0
                    /\ status' = [status EXCEPT ![r.of] = "ACTIVE"]
                    /\ events' = [events EXCEPT ![r.of] =
                                    {e \in @ : e.stage \notin {REMINDER, GRACE}}]
                    /\ UNCHANGED <<envelope, excused>>
                 \/ /\ clerk[c].kind # "convert" /\ r.units = Units
                    /\ envelope' = [envelope EXCEPT ![r.of] = ToppedUp(@)]
                    /\ excused' = excused \cup {r.of}
                    /\ UNCHANGED <<status, events>>
<1> DEFINE n == IF clerk[c].kind = "convert" THEN 0 ELSE Units
           r == [no |-> clerk[c].no, of |-> clerk[c].of, at |-> day, paid |-> FALSE,
                 units |-> n]
<1>1. clerk[c] \in Minting
  BY AtWork DEF Mint
<1>2. r \in Row
  BY <1>1 DEF Minting, Row, Units, BillingTypeOK
<1>3. ~(\E i \in invoices : i.no = clerk[c].no) /\ Exists(clerk[c].of)
  BY DEF Mint
<1>4. invoices' = invoices \cup {r}
  BY <1>3 DEF Mint
<1> QED BY <1>2, <1>3, <1>4 DEF Mint

\* Without a row of its own a sale changes no more than its clerk.
LEMMA MintFails ==
    ASSUME BillingTypeOK, NEW c \in Clerk, Mint(c), invoices' = invoices
    PROVE  UNCHANGED <<status, envelope, events, excused>>
<1>1. CASE (\E i \in invoices : i.no = clerk[c].no) \/ ~Exists(clerk[c].of)
  BY <1>1 DEF Mint
<1>2. CASE ~(\E i \in invoices : i.no = clerk[c].no) /\ Exists(clerk[c].of)
  <2>1. \E r : r.no = clerk[c].no /\ invoices' = invoices \cup {r}
    BY <1>2 DEF Mint
  <2> QED BY <1>2, <2>1
<1> QED BY <1>1, <1>2

LEMMA NumbersStep ==
    ASSUME BillingTypeOK, BillingTypeOK', NumbersInv, Next
    PROVE  NumbersInv'
<1> DEFINE n == Cardinality(invoices)
           Minters == \A c \in Clerk : clerk[c].pc = "mint" =>
                         /\ ~purged => clerk[c].no = n + 1
                         /\ \A d \in Clerk : clerk[d].pc = "mint" => d = c
<1>0. n \in Nat
  BY FS_CardinalityType DEF BillingTypeOK
<1>1. ASSUME NEW c \in Clerk, LockNumbers(c)
      PROVE  NumbersInv'
  <2>1. clerk' = [clerk EXCEPT ![c] = [of |-> clerk[c].of, kind |-> clerk[c].kind,
                                       pc |-> "mint", no |-> n + 1]]
    BY <1>1 DEF LockNumbers, Goes
  <2>2. c \in DOMAIN clerk /\ DOMAIN clerk = Clerk
    BY DEF BillingTypeOK
  <2>3. clerk'[c].pc = "mint" /\ clerk'[c].no = n + 1
    BY <2>1, <2>2
  <2>4. \A d \in Clerk : d # c => clerk'[d] = clerk[d]
    BY <2>1, <2>2
  <2>5. \A d \in Clerk : clerk[d].pc # "mint"
    BY <1>1 DEF LockNumbers, LockIsFree
  <2>6. invoices' = invoices /\ purged' = purged /\ collided' = collided
    BY <1>1 DEF LockNumbers
  <2> HIDE DEF n
  <2> QED BY <2>3, <2>4, <2>5, <2>6 DEF NumbersInv, NumbersDense, n
<1>2. ASSUME NEW c \in Clerk, Mint(c)
      PROVE  NumbersInv'
  <2>1. clerk[c].pc = "mint" /\ purged' = purged /\ clerk' = [clerk EXCEPT ![c] = Idle]
    BY <1>2 DEF Mint, Goes
  <2>2. \A d \in Clerk : clerk'[d].pc # "mint"
    <3>1. \A d \in Clerk : clerk[d].pc = "mint" => d = c
      BY <2>1 DEF NumbersInv
    <3>2. clerk'[c] = Idle /\ \A d \in Clerk : d # c => clerk'[d] = clerk[d]
      BY <2>1 DEF BillingTypeOK
    <3> QED BY <3>1, <3>2 DEF Idle
  <2>3. ~purged => ~collided /\ {i.no : i \in invoices} = 1 .. n /\ clerk[c].no = n + 1
    BY <2>1 DEF NumbersInv, NumbersDense
  <2>4. ~purged => ~\E i \in invoices : i.no = clerk[c].no
    <3> SUFFICES ASSUME ~purged, NEW i \in invoices PROVE i.no # clerk[c].no
      OBVIOUS
    <3>1. i.no \in 1 .. n
      BY <2>3
    <3> HIDE DEF n
    <3> QED BY <1>0, <2>3, <3>1
  <2>5. ~purged => ~collided'
    BY <1>2, <2>3, <2>4 DEF Mint
  <2>6. CASE invoices' = invoices
    BY <2>1, <2>2, <2>5, <2>6 DEF NumbersInv, NumbersDense
  <2>7. CASE invoices' # invoices
    <3>1. PICK r \in Row : /\ invoices' = invoices \cup {r} /\ r.no = clerk[c].no
                           /\ \A i \in invoices : i.no # r.no
      BY <1>2, <2>7, MintAdds
    <3>2. \A i, j \in invoices' : i.no = j.no => i = j
      BY <3>1 DEF NumbersInv
    <3>3. Cardinality(invoices') = n + 1
      BY <3>1, FS_AddElement DEF BillingTypeOK
    <3>4. ~purged => {i.no : i \in invoices'} = 1 .. (n + 1)
      <4> SUFFICES ASSUME ~purged PROVE {i.no : i \in invoices'} = 1 .. (n + 1)
        OBVIOUS
      <4>1. {i.no : i \in invoices'} = {i.no : i \in invoices} \cup {n + 1}
        BY <2>3, <3>1
      <4>2. {i.no : i \in invoices'} = (1 .. n) \cup {n + 1}
        BY <2>3, <4>1
      <4> HIDE DEF n
      <4>3. (1 .. n) \cup {n + 1} = 1 .. (n + 1)
        BY <1>0
      <4> QED BY <4>2, <4>3
    <3> QED BY <2>1, <2>2, <2>5, <3>2, <3>3, <3>4 DEF NumbersInv, NumbersDense
  <2> QED BY <2>6, <2>7
<1>3. ASSUME NEW c \in Clerk, Intervene(c) \/ \E t \in Tenant, k \in Kind : ReadTenant(c, t, k)
      PROVE  NumbersInv'
  <2>1. PICK s \in {Idle} \cup Waiting \cup Appointed : clerk' = [clerk EXCEPT ![c] = s]
    <3>1. ASSUME NEW t \in Tenant, NEW k \in Kind, ReadTenant(c, t, k)
          PROVE  \E s \in {Idle} \cup Waiting \cup Appointed : clerk' = [clerk EXCEPT ![c] = s]
      <4>1. [pc |-> "lock", of |-> t, kind |-> k] \in Waiting
        BY DEF Waiting
      <4> QED BY <3>1, <4>1 DEF ReadTenant, Goes
    <3>2. ASSUME NEW t \in Tenant, NEW r \in BOOLEAN, RecordOverride(c, t, r)
          PROVE  \E s \in {Idle} \cup Waiting \cup Appointed : clerk' = [clerk EXCEPT ![c] = s]
      <4>1. [pc |-> "reactivate", of |-> t] \in Appointed
        BY DEF Appointed
      <4> QED BY <3>2, <4>1 DEF RecordOverride, Goes
    <3>3. CASE Reactivate(c) \/ HangUp(c)
      BY <3>3 DEF Reactivate, HangUp, Goes
    <3>4. ASSUME NEW t \in Tenant, OpenHardDelete(c, t)
          PROVE  \E s \in {Idle} \cup Waiting \cup Appointed : clerk' = [clerk EXCEPT ![c] = s]
      <4>1. [pc |-> "delete", of |-> t] \in Appointed
        BY DEF Appointed
      <4> QED BY <3>4, <4>1 DEF OpenHardDelete, Goes
    <3> QED BY <1>3, <3>1, <3>2, <3>3, <3>4 DEF Intervene
  <2>2. s.pc # "mint"
    BY DEF Idle, Waiting, Appointed
  <2>3. UNCHANGED <<invoices, purged, collided>>
    BY <1>3 DEF Intervene, ReadTenant, RecordOverride, Reactivate, HangUp, OpenHardDelete
  <2>4. \A d \in Clerk : clerk'[d].pc = "mint" => clerk'[d] = clerk[d]
    BY <2>1, <2>2 DEF BillingTypeOK
  <2> QED BY <2>3, <2>4 DEF NumbersInv, NumbersDense
<1>4. ASSUME NEW i \in invoices, MarkPaid(i)
      PROVE  NumbersInv'
  <2> DEFINE p == [i EXCEPT !.paid = TRUE]
  <2>1. p \in Row /\ p.no = i.no /\ invoices' = (invoices \ {i}) \cup {p}
    BY <1>4 DEF MarkPaid, Row, BillingTypeOK
  <2> HIDE DEF p
  <2>2. p \notin invoices \ {i}
    BY <2>1 DEF NumbersInv
  <2>3. IsFiniteSet(invoices \ {i}) /\ Cardinality(invoices \ {i}) = n - 1
    BY FS_RemoveElement DEF BillingTypeOK
  <2>4. Cardinality(invoices') = n
    <3>1. Cardinality(invoices') = Cardinality(invoices \ {i}) + 1
      BY <2>1, <2>2, <2>3, FS_AddElement
    <3> HIDE DEF n
    <3> QED BY <1>0, <2>3, <3>1
  <2>5. {j.no : j \in invoices'} = {j.no : j \in invoices}
    BY <2>1
  <2>6. \A j, k \in invoices' : j.no = k.no => j = k
    BY <2>1 DEF NumbersInv
  <2>7. UNCHANGED <<clerk, purged, collided>>
    BY <1>4 DEF MarkPaid
  <2> QED BY <2>4, <2>5, <2>6, <2>7 DEF NumbersInv, NumbersDense
<1>5. ASSUME NEW t \in Tenant, DeleteTenant(t)
      PROVE  NumbersInv'
  <2>1. UNCHANGED <<clerk, collided>> /\ invoices' = invoices \ InvoicesOf(t)
    BY <1>5 DEF DeleteTenant
  <2>2. ~purged' => ~purged /\ invoices' = invoices
    BY <1>5, <2>1 DEF DeleteTenant
  <2> QED BY <2>1, <2>2 DEF NumbersInv, NumbersDense
<1>6. ASSUME NEW d \in Drainer, Send(d)
      PROVE  NumbersInv'
  <2>1. UNCHANGED <<invoices, clerk, purged, collided>>
    BY <1>6 DEF Send, Spend, LookAtBalance, FlagLowBalance, BreakOffSend
  <2> QED BY <2>1 DEF NumbersInv, NumbersDense
<1>7. ASSUME NEW w \in Worker, Dun(w)
      PROVE  NumbersInv'
  <2>1. UNCHANGED <<invoices, clerk, purged, collided>>
    BY <1>7 DEF Dun, StartPass, Assess, Notify, Suspend, EndPass
  <2> QED BY <2>1 DEF NumbersInv, NumbersDense
<1>8. CASE Tick
  BY <1>8 DEF Tick, NumbersInv, NumbersDense
<1>9. ASSUME NEW t \in Tenant, NEW s \in ByHand, WriteStatus(t, s) PROVE NumbersInv'
  BY <1>9 DEF WriteStatus, NumbersInv, NumbersDense
<1> QED BY <1>1, <1>2, <1>3, <1>4, <1>5, <1>6, <1>7, <1>8, <1>9 DEF Next, Sell

\* What a tenant's invoices sold is a sum over its rows alone.
LEMMA SoldSame ==
    ASSUME BillingTypeOK, BillingTypeOK', NEW t \in Tenant, InvoicesOf(t)' = InvoicesOf(t)
    PROVE  Sold(t)' = Sold(t)
<1> DEFINE f == [i \in invoices |-> i.units]
           g == [i \in invoices' |-> i.units]
           S == InvoicesOf(t)
<1>1. IsFiniteSet(S)
  BY FS_Subset DEF InvoicesOf, BillingTypeOK
<1>2. S \subseteq invoices /\ S \subseteq invoices'
  BY DEF InvoicesOf
<1>3. \A i \in S : f[i] = g[i]
  BY <1>2
<1>4. Sold(t) = SumFunctionOnSet(f, S) /\ Sold(t)' = SumFunctionOnSet(g, S)
  BY DEF Sold
<1> HIDE DEF f, g, S
<1>5. SumFunctionOnSet(f, S) = SumFunctionOnSet(g, S)
  BY <1>1, <1>3, SumEqual
<1> QED BY <1>4, <1>5

\* A new row adds its units to what its tenant was sold.
LEMMA SoldMore ==
    ASSUME BillingTypeOK, BillingTypeOK', NEW r \in Row, r \notin invoices,
           invoices' = invoices \cup {r}
    PROVE  /\ Sold(r.of)' = Sold(r.of) + r.units
           /\ \A t \in Tenant : t # r.of => Sold(t)' = Sold(t)
<1> DEFINE f == [i \in invoices |-> i.units]
           g == [i \in invoices' |-> i.units]
           S == InvoicesOf(r.of)
           T == S \cup {r}
<1>1. IsFiniteSet(S) /\ S \subseteq invoices /\ r \notin S
  BY FS_Subset DEF InvoicesOf, BillingTypeOK
<1>2. InvoicesOf(r.of)' = T
  BY DEF InvoicesOf
<1>3. \A i \in T : g[i] \in Int /\ g[i] = i.units
  BY <1>1 DEF BillingTypeOK, Row
<1>4. \A i \in S : f[i] = g[i]
  BY <1>1
<1>5. Sold(r.of) = SumFunctionOnSet(f, S) /\ Sold(r.of)' = SumFunctionOnSet(g, T)
  BY <1>2 DEF Sold
<1>6. IsFiniteSet(T) /\ T \ {r} = S /\ r \in T
  BY <1>1, FS_AddElement
<1>7. r.units \in Nat
  BY DEF Row
<1>8. \A t \in Tenant : t # r.of => InvoicesOf(t)' = InvoicesOf(t)
  BY DEF InvoicesOf
<1> HIDE DEF f, g, S, T
<1>9. SumFunctionOnSet(g, T) = g[r] + SumFunctionOnSet(g, T \ {r})
  BY <1>3, <1>6, SumRemove
<1>10. SumFunctionOnSet(g, S) = SumFunctionOnSet(f, S)
  BY <1>1, <1>4, SumEqual
<1>11. SumFunctionOnSet(g, S) \in Int
  BY <1>1, <1>3, <1>6, SumType
<1>12. Sold(r.of)' = Sold(r.of) + r.units
  <2>1. g[r] = r.units
    BY <1>3, <1>6
  <2>2. SumFunctionOnSet(g, T) = r.units + SumFunctionOnSet(f, S)
    BY <2>1, <1>6, <1>9, <1>10
  <2>3. SumFunctionOnSet(f, S) \in Int
    BY <1>10, <1>11
  <2> QED BY <1>5, <1>7, <2>2, <2>3
<1> QED BY <1>12, <1>8, SoldSame

\* Paying for an invoice sells nothing.
LEMMA SoldPaid ==
    ASSUME BillingTypeOK, BillingTypeOK', NumbersInv, NEW i \in invoices, MarkPaid(i),
           NEW t \in Tenant
    PROVE  Sold(t)' = Sold(t)
<1> DEFINE p == [i EXCEPT !.paid = TRUE]
           f == [j \in invoices |-> j.units]
           g == [j \in invoices' |-> j.units]
           S == InvoicesOf(t)
           R == S \ {i}
           T == R \cup {p}
<1>1. p \in Row /\ p.no = i.no /\ p.of = i.of /\ p.units = i.units
  BY DEF Row, BillingTypeOK
<1>2. invoices' = (invoices \ {i}) \cup {p}
  BY DEF MarkPaid
<1>3. CASE i.of # t
  <2> HIDE DEF p
  <2>1. InvoicesOf(t)' = InvoicesOf(t)
    BY <1>1, <1>2, <1>3 DEF InvoicesOf
  <2> QED BY <2>1, SoldSame
<1>4. CASE i.of = t
  <2> HIDE DEF p
  <2>1. InvoicesOf(t)' = T /\ i \in S /\ S \subseteq invoices /\ T \subseteq invoices'
    BY <1>1, <1>2, <1>4 DEF InvoicesOf
  <2>2. p \notin R
    BY <1>1, <2>1 DEF NumbersInv
  <2>3. IsFiniteSet(S) /\ IsFiniteSet(R)
    BY FS_Subset DEF InvoicesOf, BillingTypeOK
  <2>4. IsFiniteSet(T) /\ T \ {p} = R /\ p \in T
    BY <2>2, <2>3, FS_AddElement
  <2>5. \A j \in S : f[j] \in Int /\ f[j] = j.units
    BY <2>1 DEF BillingTypeOK, Row
  <2>6. \A j \in T : g[j] \in Int /\ g[j] = j.units
    BY <2>1 DEF BillingTypeOK, Row
  <2>7. Sold(t) = SumFunctionOnSet(f, S) /\ Sold(t)' = SumFunctionOnSet(g, T)
    BY <2>1 DEF Sold
  <2>8. R \subseteq S /\ R \subseteq T
    OBVIOUS
  <2> HIDE DEF f, g, T
  <2>9. SumFunctionOnSet(g, T) = g[p] + SumFunctionOnSet(g, R)
    BY <2>4, <2>6, SumRemove
  <2>10. SumFunctionOnSet(f, S) = f[i] + SumFunctionOnSet(f, R)
    <3> HIDE DEF S
    <3> QED BY <2>1, <2>3, <2>5, SumRemove
  <2>11. \A j \in R : f[j] = g[j]
    BY <2>5, <2>6, <2>8
  <2> HIDE DEF R, S
  <2>12. SumFunctionOnSet(f, R) = SumFunctionOnSet(g, R)
    BY <2>3, <2>11, SumEqual
  <2> QED BY <1>1, <2>1, <2>4, <2>5, <2>6, <2>7, <2>9, <2>10, <2>12
<1> QED BY <1>3, <1>4

\* Steps that touch no envelope, no invoice and no dispatcher.
LEMMA EnvelopeSame ==
    ASSUME BillingTypeOK, EnvelopeInv, BillingTypeOK',
           UNCHANGED <<invoices, envelope, spent, excused, drainer>>,
           \A t \in Tenant : Exists(t)' => Exists(t)
    PROVE  EnvelopeInv'
<1> SUFFICES ASSUME NEW t \in Tenant, Exists(t)
             PROVE  /\ envelope[t].purchased = Sold(t)'
                    /\ envelope[t].balance + spent[t] = envelope[t].purchased
                    /\ envelope[t].balance <= LowMark /\ t \notin excused
                          => envelope[t].low \/ AtEnvelope(t)'
  BY DEF EnvelopeInv
<1>1. InvoicesOf(t)' = InvoicesOf(t) /\ AtEnvelope(t)' = AtEnvelope(t)
  BY DEF InvoicesOf, AtEnvelope
<1>2. Sold(t)' = Sold(t)
  BY <1>1, SoldSame
<1> QED BY <1>1, <1>2 DEF EnvelopeInv

LEMMA EnvelopeSale ==
    ASSUME SalesInv, BillingTypeOK', NEW c \in Clerk, Mint(c)
    PROVE  EnvelopeInv'
<1>1. UNCHANGED <<drainer, spent>>
  BY DEF Mint
<1>2. CASE invoices' = invoices
  <2>1. UNCHANGED <<status, envelope, excused>>
    BY <1>2, MintFails DEF SalesInv
  <2> QED BY <1>1, <1>2, <2>1, EnvelopeSame DEF SalesInv, Exists
<1>3. CASE invoices' # invoices
  <2>1. PICK r \in Row :
              /\ invoices' = invoices \cup {r}
              /\ r.of = clerk[c].of /\ Exists(r.of)
              /\ \/ /\ r.units = 0
                    /\ status' = [status EXCEPT ![r.of] = "ACTIVE"]
                    /\ UNCHANGED <<envelope, excused>>
                 \/ /\ r.units = Units
                    /\ envelope' = [envelope EXCEPT ![r.of] = ToppedUp(@)]
                    /\ excused' = excused \cup {r.of}
                    /\ UNCHANGED status
    BY <1>3, MintAdds DEF SalesInv
  <2>2. r.of \in Tenant /\ r \notin invoices
    BY <1>3, <2>1 DEF Row
  <2>3. Sold(r.of)' = Sold(r.of) + r.units /\ \A t \in Tenant : t # r.of => Sold(t)' = Sold(t)
    BY <2>1, <2>2, SoldMore DEF SalesInv
  <2>4. SUFFICES ASSUME NEW t \in Tenant, Exists(t)'
                 PROVE  /\ envelope'[t].purchased = Sold(t)'
                        /\ envelope'[t].balance + spent[t] = envelope'[t].purchased
                        /\ envelope'[t].balance <= LowMark /\ t \notin excused'
                              => envelope'[t].low \/ AtEnvelope(t)'
    BY <1>1 DEF EnvelopeInv
  <2>5. Exists(t)
    BY <2>1, <2>2, <2>4 DEF Exists, SalesInv, BillingTypeOK
  <2>6. AtEnvelope(t)' = AtEnvelope(t)
    BY <1>1 DEF AtEnvelope
  <2>7. /\ envelope[t].purchased = Sold(t)
        /\ envelope[t].balance + spent[t] = envelope[t].purchased
        /\ envelope[t].balance <= LowMark /\ t \notin excused
              => envelope[t].low \/ AtEnvelope(t)
    BY <2>5 DEF SalesInv, EnvelopeInv
  <2>8. envelope[t] \in Envelope /\ spent[t] \in Nat
    BY DEF SalesInv, BillingTypeOK
  <2>9. CASE t # r.of
    BY <2>1, <2>3, <2>6, <2>7, <2>9 DEF SalesInv, BillingTypeOK
  <2>10. CASE t = r.of /\ r.units = 0 /\ UNCHANGED <<envelope, excused>>
    <3>1. Sold(t)' = Sold(t)
      BY <2>3, <2>7, <2>8, <2>10 DEF Envelope
    <3> QED BY <2>6, <2>7, <2>10, <3>1
  <2>11. CASE /\ t = r.of /\ r.units = Units
              /\ envelope' = [envelope EXCEPT ![r.of] = ToppedUp(@)]
              /\ excused' = excused \cup {r.of}
    <3>1. envelope'[t] = ToppedUp(envelope[t])
      BY <2>8, <2>11 DEF SalesInv, BillingTypeOK
    <3>2. envelope'[t].purchased = envelope[t].purchased + Units
          /\ envelope'[t].balance = envelope[t].balance + Units
      BY <3>1 DEF ToppedUp
    <3>3. Sold(t)' = Sold(t) + Units
      BY <2>3, <2>11
    <3> QED BY <2>7, <2>8, <2>11, <3>2, <3>3 DEF Envelope, Units
  <2> QED BY <2>1, <2>9, <2>10, <2>11
<1> QED BY <1>2, <1>3

LEMMA EnvelopeSend ==
    ASSUME SalesInv, BillingTypeOK', NEW d \in Drainer, Send(d)
    PROVE  EnvelopeInv'
<1>1. UNCHANGED <<status, invoices>>
  BY DEF Send, Spend, LookAtBalance, FlagLowBalance, BreakOffSend
<1>2. SUFFICES ASSUME NEW t \in Tenant, Exists(t)
               PROVE  /\ envelope'[t].purchased = Sold(t)
                      /\ envelope'[t].balance + spent'[t] = envelope'[t].purchased
                      /\ envelope'[t].balance <= LowMark /\ t \notin excused'
                            => envelope'[t].low \/ AtEnvelope(t)'
  <2>1. \A t \in Tenant : InvoicesOf(t)' = InvoicesOf(t) /\ (Exists(t)' <=> Exists(t))
    BY <1>1 DEF InvoicesOf, Exists
  <2>2. \A t \in Tenant : Sold(t)' = Sold(t)
    BY <2>1, SoldSame DEF SalesInv
  <2> QED BY <1>2, <2>1, <2>2 DEF EnvelopeInv
<1>3. /\ envelope[t].purchased = Sold(t)
      /\ envelope[t].balance + spent[t] = envelope[t].purchased
      /\ envelope[t].balance <= LowMark /\ t \notin excused
            => envelope[t].low \/ AtEnvelope(t)
  BY <1>2 DEF SalesInv, EnvelopeInv
<1>4. /\ envelope[t] \in Envelope /\ spent[t] \in Nat
      /\ drainer[d] = Idle \/ drainer[d] \in Sending
  BY AtWork DEF SalesInv, BillingTypeOK
<1>5. ASSUME NEW u \in Tenant, Spend(d, u)
      PROVE  /\ envelope'[t].purchased = Sold(t)
             /\ envelope'[t].balance + spent'[t] = envelope'[t].purchased
             /\ envelope'[t].balance <= LowMark /\ t \notin excused'
                   => envelope'[t].low \/ AtEnvelope(t)'
  <2>1. /\ drainer' = [drainer EXCEPT ![d] = [pc |-> "look", of |-> u]]
        /\ drainer[d] = Idle /\ envelope[u].balance >= 1
        /\ envelope' = [envelope EXCEPT ![u].balance = @ - 1]
        /\ spent' = [spent EXCEPT ![u] = @ + 1] /\ excused' = excused \ {u}
    BY <1>5 DEF Spend, Goes
  <2>2. CASE t = u
    <3>1. AtEnvelope(t)'
      BY <2>1, <2>2 DEF AtEnvelope, SalesInv, BillingTypeOK
    <3>2. envelope'[t] = [envelope[t] EXCEPT !.balance = @ - 1] /\ spent'[t] = spent[t] + 1
      BY <2>1, <2>2 DEF SalesInv, BillingTypeOK
    <3> QED BY <1>3, <1>4, <3>1, <3>2 DEF Envelope
  <2>3. CASE t # u
    <3>1. envelope'[t] = envelope[t] /\ spent'[t] = spent[t]
      BY <2>1, <2>3 DEF SalesInv, BillingTypeOK
    <3>2. AtEnvelope(t) => AtEnvelope(t)'
      BY <2>1 DEF AtEnvelope, Idle, SalesInv, BillingTypeOK
    <3> QED BY <1>3, <2>1, <2>3, <3>1, <3>2
  <2> QED BY <2>2, <2>3
<1>6. CASE LookAtBalance(d)
  <2> DEFINE u == drainer[d].of
             flag == Exists(u) /\ envelope[u].balance <= LowMark /\ ~envelope[u].low
  <2>1. /\ drainer' = [drainer EXCEPT ![d] = IF flag THEN [pc |-> "flag", of |-> u] ELSE Idle]
        /\ UNCHANGED <<envelope, spent, excused>>
    BY <1>6 DEF LookAtBalance, Goes
  <2> HIDE DEF flag
  <2>2. \A e \in Drainer : e # d => drainer'[e] = drainer[e]
    BY <2>1 DEF SalesInv, BillingTypeOK
  <2>3. CASE t = u
    <3>1. CASE flag
      <4>1. drainer'[d] = [pc |-> "flag", of |-> t]
        BY <2>1, <2>3, <3>1 DEF SalesInv, BillingTypeOK
      <4>2. AtEnvelope(t)'
        BY <4>1 DEF AtEnvelope
      <4> QED BY <1>3, <2>1, <4>2
    <3>2. CASE ~flag
      <4>1. envelope[t].balance <= LowMark => envelope[t].low
        BY <1>2, <2>3, <3>2 DEF flag
      <4> QED BY <1>3, <2>1, <4>1
    <3> QED BY <3>1, <3>2
  <2>4. CASE t # u
    <3>1. AtEnvelope(t) => AtEnvelope(t)'
      BY <2>2, <2>4 DEF AtEnvelope
    <3> QED BY <1>3, <2>1, <3>1
  <2> QED BY <2>3, <2>4
<1>7. CASE FlagLowBalance(d)
  <2> DEFINE u == drainer[d].of
  <2>1. /\ drainer' = [drainer EXCEPT ![d] = Idle] /\ UNCHANGED <<spent, excused>>
        /\ envelope' = IF Exists(u) THEN [envelope EXCEPT ![u].low = TRUE] ELSE envelope
    BY <1>7 DEF FlagLowBalance, Goes
  <2>2. \A e \in Drainer : e # d => drainer'[e] = drainer[e]
    BY <2>1 DEF SalesInv, BillingTypeOK
  <2>3. CASE t = u
    <3>1. envelope'[t] = [envelope[t] EXCEPT !.low = TRUE]
      BY <1>2, <2>1, <2>3 DEF SalesInv, BillingTypeOK
    <3>2. /\ envelope'[t].low /\ envelope'[t].balance = envelope[t].balance
          /\ envelope'[t].purchased = envelope[t].purchased
      BY <1>4, <3>1 DEF Envelope
    <3> QED BY <1>3, <2>1, <3>2
  <2>4. CASE t # u
    <3>1. envelope'[t] = envelope[t]
      BY <2>1, <2>4 DEF SalesInv, BillingTypeOK
    <3>2. AtEnvelope(t) => AtEnvelope(t)'
      BY <2>2, <2>4 DEF AtEnvelope
    <3> QED BY <1>3, <2>1, <3>1, <3>2
  <2> QED BY <2>3, <2>4
<1>8. CASE BreakOffSend(d)
  <2>1. /\ drainer' = [drainer EXCEPT ![d] = Idle] /\ UNCHANGED <<envelope, spent>>
        /\ excused' = excused \cup {drainer[d].of}
    BY <1>8 DEF BreakOffSend, Goes
  <2>2. \A e \in Drainer : e # d => drainer'[e] = drainer[e]
    BY <2>1 DEF SalesInv, BillingTypeOK
  <2>3. t # drainer[d].of /\ AtEnvelope(t) => AtEnvelope(t)'
    BY <2>2 DEF AtEnvelope
  <2> QED BY <1>3, <2>1, <2>3
<1> QED BY <1>5, <1>6, <1>7, <1>8 DEF Send

LEMMA EnvelopeDelete ==
    ASSUME SalesInv, BillingTypeOK', NEW u \in Tenant, DeleteTenant(u)
    PROVE  EnvelopeInv'
<1>1. /\ status' = [status EXCEPT ![u] = "DELETED"] /\ invoices' = invoices \ InvoicesOf(u)
      /\ envelope' = [envelope EXCEPT ![u] = NoEnvelope]
      /\ UNCHANGED <<spent, excused, drainer>>
  BY DEF DeleteTenant
<1>2. SUFFICES ASSUME NEW t \in Tenant, Exists(t)'
               PROVE  /\ envelope'[t].purchased = Sold(t)'
                      /\ envelope'[t].balance + spent[t] = envelope'[t].purchased
                      /\ envelope'[t].balance <= LowMark /\ t \notin excused
                            => envelope'[t].low \/ AtEnvelope(t)'
  BY <1>1 DEF EnvelopeInv
<1>3. t # u /\ Exists(t)
  BY <1>1, <1>2 DEF Exists, SalesInv, BillingTypeOK
<1>4. envelope'[t] = envelope[t]
  BY <1>1, <1>3 DEF SalesInv, BillingTypeOK
<1>5. InvoicesOf(t)' = InvoicesOf(t) /\ AtEnvelope(t)' = AtEnvelope(t)
  BY <1>1, <1>3 DEF InvoicesOf, AtEnvelope
<1>6. Sold(t)' = Sold(t)
  BY <1>5, SoldSame DEF SalesInv
<1> QED BY <1>3, <1>4, <1>5, <1>6 DEF SalesInv, EnvelopeInv

LEMMA EnvelopeStep ==
    ASSUME SalesInv, BillingTypeOK', Next
    PROVE  EnvelopeInv'
<1>0. BillingTypeOK /\ NumbersInv /\ EnvelopeInv
  BY DEF SalesInv
<1>1. ASSUME NEW i \in invoices, MarkPaid(i) PROVE EnvelopeInv'
  <2>1. \A t \in Tenant : Sold(t)' = Sold(t)
    BY <1>0, <1>1, SoldPaid
  <2>2. UNCHANGED <<status, envelope, spent, excused, drainer>>
    BY <1>1 DEF MarkPaid
  <2>3. \A t \in Tenant : AtEnvelope(t)' = AtEnvelope(t) /\ (Exists(t)' <=> Exists(t))
    BY <2>2 DEF AtEnvelope, Exists
  <2> QED BY <1>0, <2>1, <2>2, <2>3 DEF EnvelopeInv
<1>2. ASSUME NEW c \in Clerk, LockNumbers(c) \/ Intervene(c) \/
                              \E t \in Tenant, k \in Kind : ReadTenant(c, t, k)
      PROVE  EnvelopeInv'
  <2>1. UNCHANGED <<invoices, envelope, spent, excused, drainer>>
    BY <1>2 DEF LockNumbers, ReadTenant, Intervene, RecordOverride, Reactivate, HangUp,
                OpenHardDelete
  <2>2. \A t \in Tenant : Exists(t)' => Exists(t)
    <3>1. status' = status \/ \E u : status' = IF Exists(u) THEN [status EXCEPT ![u] = "ACTIVE"]
                                                            ELSE status
      BY <1>2 DEF LockNumbers, ReadTenant, Intervene, RecordOverride, Reactivate, HangUp,
                  OpenHardDelete
    <3> QED BY <1>0, <3>1 DEF Exists, BillingTypeOK
  <2> QED BY <1>0, <2>1, <2>2, EnvelopeSame
<1>3. ASSUME NEW w \in Worker, Dun(w) PROVE EnvelopeInv'
  <2>1. UNCHANGED <<invoices, envelope, spent, excused, drainer>>
    BY <1>3 DEF Dun, StartPass, Assess, Notify, Suspend, EndPass
  <2>2. \A t \in Tenant : Exists(t)' => Exists(t)
    <3>1. status' = status \/ \E u : Exists(u) /\ status' = [status EXCEPT ![u] = "SUSPENDED"]
      BY <1>3 DEF Dun, StartPass, Assess, Notify, Suspend, EndPass
    <3> QED BY <1>0, <3>1 DEF Exists, BillingTypeOK
  <2> QED BY <1>0, <2>1, <2>2, EnvelopeSame
<1>4. CASE Tick
  BY <1>0, <1>4, EnvelopeSame DEF Tick, Exists
<1>5. ASSUME NEW u \in Tenant, NEW s \in ByHand, WriteStatus(u, s) PROVE EnvelopeInv'
  <2>1. UNCHANGED <<invoices, envelope, spent, excused, drainer>>
    BY <1>5 DEF WriteStatus
  <2>2. Exists(u) /\ status' = [status EXCEPT ![u] = s]
    BY <1>5 DEF WriteStatus
  <2>3. \A t \in Tenant : Exists(t)' => Exists(t)
    BY <1>0, <2>2 DEF Exists, BillingTypeOK
  <2> QED BY <1>0, <2>1, <2>3, EnvelopeSame
<1> QED BY <1>1, <1>2, <1>3, <1>4, <1>5, EnvelopeSale, EnvelopeSend, EnvelopeDelete
        DEF Next, Sell

LEMMA SalesInit == Init => SalesInv
<1> SUFFICES ASSUME Init PROVE SalesInv
  OBVIOUS
<1>1. IsFiniteSet({}) /\ Cardinality({}) = 0
  BY FS_EmptySet
<1>2. NoEnvelope \in Envelope
  BY DEF NoEnvelope, Envelope
<1>3. BillingTypeOK
  BY <1>1, <1>2 DEF Init, BillingTypeOK, StatusName, ByHand
<1>4. NumbersInv
  BY <1>1 DEF Init, NumbersInv, NumbersDense, Idle
<1>5. \A t \in Tenant : Sold(t) = 0
  <2>1. \A t \in Tenant : InvoicesOf(t) = {}
    BY DEF Init, InvoicesOf
  <2> QED BY <2>1, SumEmpty DEF Sold
<1>6. EnvelopeInv
  BY <1>5 DEF Init, EnvelopeInv, NoEnvelope
<1> QED BY <1>3, <1>4, <1>6 DEF SalesInv

LEMMA SalesStep == SalesInv /\ [Next]_vars => SalesInv'
<1> SUFFICES ASSUME SalesInv, [Next]_vars PROVE SalesInv'
  OBVIOUS
<1>1. BillingTypeOK'
  BY TypesStep DEF SalesInv
<1>2. CASE Next
  BY <1>1, <1>2, NumbersStep, EnvelopeStep DEF SalesInv
<1>3. CASE UNCHANGED vars
  <2>1. NumbersInv'
    BY <1>3 DEF vars, SalesInv, NumbersInv, NumbersDense
  <2>2. \A t \in Tenant : Exists(t)' => Exists(t)
    BY <1>3 DEF vars, Exists
  <2>3. EnvelopeInv'
    BY <1>1, <1>3, <2>2, EnvelopeSame DEF vars, SalesInv
  <2> QED BY <1>1, <2>1, <2>3 DEF SalesInv
<1> QED BY <1>2, <1>3

\* The numbers of the invoices have no gap while none has gone away, however
\* many sales run at once, and every envelope holds what was sold to its tenant
\* less what was sent (billing.ts:145-245, credits.ts:55-85).
THEOREM SalesAddUpHolds == Spec => []SalesAddUp
<1>1. SalesInv => SalesAddUp
  <2> SUFFICES ASSUME SalesInv PROVE SalesAddUp
    OBVIOUS
  <2>1. EnvelopeTells
    <3> SUFFICES ASSUME NEW t \in Tenant, Exists(t)
                 PROVE  /\ envelope[t].purchased = Sold(t)
                        /\ envelope[t].balance \in Nat
                        /\ envelope[t].balance + spent[t] = envelope[t].purchased
                        /\ envelope[t].balance <= LowMark /\ t \notin excused
                              => \/ envelope[t].low
                                 \/ \E d \in Drainer : drainer[d] # Idle /\ drainer[d].of = t
      BY DEF EnvelopeTells, Sold
    <3>1. AtEnvelope(t) => \E d \in Drainer : drainer[d] # Idle /\ drainer[d].of = t
      BY DEF AtEnvelope, Idle
    <3>2. envelope[t].balance \in Nat
      BY DEF SalesInv, BillingTypeOK, Envelope
    <3> QED BY <3>1, <3>2 DEF SalesInv, EnvelopeInv
  <2> QED BY <2>1 DEF SalesAddUp, SalesInv, NumbersInv
<1> QED BY <1>1, SalesInit, SalesStep, PTL DEF Spec

-----------------------------------------------------------------------------
(* The trail of events *)

OneWorker == \A v, w \in Worker : v = w

\* A step keeps a tenant's invoices, paid or not.
RowsKept(t) == \A i \in InvoicesOf(t) : \E j \in InvoicesOf(t)' : j.units = i.units /\ j.at = i.at

LEMMA ConvertedKept ==
    ASSUME NEW t, RowsKept(t), NEW e, Converted(t, e)
    PROVE  Converted(t, e)'
BY DEF RowsKept, Converted

LEMMA OrderedKept ==
    ASSUME NEW t, RowsKept(t), NEW log, Ordered(t, log)
    PROVE  Ordered(t, log)'
<1>1. \A e, s : MayFollow(t, e, s) => MayFollow(t, e, s)'
  BY ConvertedKept DEF MayFollow
<1> QED BY <1>1 DEF Ordered, NoOverrideBetween

LEMMA EventTypes ==
    ASSUME BillingTypeOK, NEW t \in Tenant
    PROVE  /\ events[t] \in SUBSET Event /\ IsFiniteSet(events[t])
           /\ \A e \in events[t] : e.no \in Nat /\ e.at \in Nat /\ e.next \in Nat
BY DEF BillingTypeOK, Event

\* What a pass is about to record, when the tenant's events stay.
LEMMA PendingKept ==
    ASSUME NEW w, NEW t, RowsKept(t), Pending(w, t), events'[t] = events[t],
           worker'[w].now = worker[w].now, worker'[w].stage = worker[w].stage
    PROVE  Pending(w, t)'
<1>1. \A e, s : MayFollow(t, e, s) => MayFollow(t, e, s)'
  BY ConvertedKept DEF MayFollow
<1> QED BY <1>1 DEF Pending, NoOverrideFrom

\* Steps that touch neither events nor passes.
LEMMA EventsSame ==
    ASSUME BillingTypeOK, TrailInv, UNCHANGED <<events, worker>>, day' \in Nat, day' >= day,
           \A t \in Tenant : RowsKept(t)
    PROVE  TrailInv'
<1>1. ASSUME NEW t \in Tenant PROVE Ordered(t, events[t])'
  <2>1. Ordered(t, events[t])
    BY DEF TrailInv
  <2>2. PICK log : log = events[t]
    OBVIOUS
  <2>3. Ordered(t, log)'
    BY <2>1, <2>2, OrderedKept
  <2>4. events'[t] = log
    BY <2>2
  <2> QED BY <2>3, <2>4 DEF Ordered, NoOverrideBetween, MayFollow, Converted
<1>2. \A t \in Tenant : \A e \in events'[t] : e.at <= day'
  <2> SUFFICES ASSUME NEW t \in Tenant, NEW e \in events[t] PROVE e.at <= day'
    OBVIOUS
  <2>1. e.at \in Nat /\ e.at <= day /\ day \in Nat
    BY EventTypes DEF TrailInv, BillingTypeOK
  <2> QED BY <2>1
<1>3. \A w \in Worker : worker'[w] # Idle =>
         /\ worker'[w].now <= day'
         /\ \A t \in Tenant : \A e \in events'[t] :
               e.stage # Override => e.at <= worker'[w].now
  <2> SUFFICES ASSUME NEW w \in Worker, worker[w] # Idle PROVE worker[w].now <= day'
    BY DEF TrailInv
  <2>1. worker[w].now \in Nat
    BY AtWork DEF Listing, Climbing
  <2> QED BY <2>1 DEF TrailInv, BillingTypeOK
<1>4. ASSUME NEW w \in Worker, worker'[w].pc = "notify" PROVE Pending(w, worker[w].of)'
  <2>1. worker[w].of \in Tenant /\ Pending(w, worker[w].of)
    BY <1>4, AtWork DEF TrailInv, Climbing
  <2>2. PICK t \in Tenant : t = worker[w].of
    BY <2>1
  <2>3. Pending(w, t)'
    BY <2>1, <2>2, PendingKept
  <2>4. worker'[w].of = t
    BY <2>2
  <2> QED BY <2>3, <2>4 DEF Pending, MayFollow, Converted, NoOverrideFrom
<1> QED BY <1>1, <1>2, <1>3, <1>4 DEF TrailInv

\* The trails of the other tenants, when a step changes those of one.
LEMMA OthersOrdered ==
    ASSUME BillingTypeOK, TrailInv, NEW u \in Tenant, NEW log, DOMAIN events = Tenant,
           events' = [events EXCEPT ![u] = log], \A t \in Tenant \ {u} : RowsKept(t)
    PROVE  \A t \in Tenant \ {u} : events'[t] = events[t] /\ Ordered(t, events[t])'
<1> SUFFICES ASSUME NEW t \in Tenant \ {u}
             PROVE  events'[t] = events[t] /\ Ordered(t, events[t])'
  OBVIOUS
<1>1. events'[t] = events[t] /\ Ordered(t, events[t])
  BY DEF TrailInv
<1>2. PICK old : old = events[t]
  OBVIOUS
<1>3. Ordered(t, old)'
  BY <1>1, <1>2, OrderedKept
<1>4. events'[t] = old
  BY <1>1, <1>2
<1> QED BY <1>1, <1>3, <1>4 DEF Ordered, NoOverrideBetween, MayFollow, Converted

\* A step of clerks that gives a tenant the trail log.
LEMMA TrailOf ==
    ASSUME BillingTypeOK, TrailInv, NEW u \in Tenant, NEW log \in SUBSET Event,
           events' = [events EXCEPT ![u] = log], UNCHANGED <<day, worker>>,
           \A t \in Tenant \ {u} : RowsKept(t),
           Ordered(u, log)', \A e \in log : e.at <= day,
           \A e \in log : e.stage # Override => e \in events[u],
           \A w \in Worker : worker[w].pc = "notify" /\ worker[w].of = u => Pending(w, u)'
    PROVE  TrailInv'
<1>0. DOMAIN events = Tenant /\ events'[u] = log
  BY DEF BillingTypeOK
<1>1. \A t \in Tenant \ {u} : events'[t] = events[t] /\ Ordered(t, events[t])'
  BY <1>0, OthersOrdered
<1>2. Ordered(u, events[u])'
  BY <1>0 DEF Ordered, NoOverrideBetween, MayFollow, Converted
<1>3. \A t \in Tenant : Ordered(t, events[t])'
  BY <1>1, <1>2
<1>4. \A t \in Tenant : \A e \in events'[t] : e.at <= day
  BY <1>0, <1>1 DEF TrailInv
<1>5. \A w \in Worker : worker[w] # Idle =>
         /\ worker[w].now <= day
         /\ \A t \in Tenant : \A e \in events'[t] :
               e.stage # Override => e.at <= worker[w].now
  BY <1>0, <1>1 DEF TrailInv
<1>6. ASSUME NEW w \in Worker, worker'[w].pc = "notify" PROVE Pending(w, worker[w].of)'
  <2>1. worker[w].of \in Tenant /\ Pending(w, worker[w].of) /\ worker[w].pc = "notify"
    BY <1>6, AtWork DEF TrailInv, Climbing
  <2>2. PICK t \in Tenant : t = worker[w].of
    BY <2>1
  <2>3. Pending(w, t)'
    <3>1. CASE t = u
      BY <2>1, <2>2, <3>1
    <3>2. CASE t # u
      BY <1>1, <2>1, <2>2, <3>2, PendingKept
    <3> QED BY <3>1, <3>2
  <2>4. worker'[w].of = t
    BY <2>2
  <2> QED BY <2>3, <2>4 DEF Pending, MayFollow, Converted, NoOverrideFrom
<1> QED BY <1>3, <1>4, <1>5, <1>6 DEF TrailInv

\* A conversion wipes the reminders and explains every stage that came before.
LEMMA ConvertTrail ==
    ASSUME BillingTypeOK, TrailInv, NEW r \in Row, r.of \in Tenant, r.units = 0, r.at = day,
           invoices' = invoices \cup {r}, UNCHANGED <<day, worker>>,
           events' = [events EXCEPT ![r.of] = {e \in @ : e.stage \notin {REMINDER, GRACE}}]
    PROVE  TrailInv'
<1> DEFINE u == r.of
<1>0. PICK old : old = events[u]
  OBVIOUS
<1>1. PICK log : log = {e \in old : e.stage \notin {REMINDER, GRACE}}
  OBVIOUS
<1>2. events' = [events EXCEPT ![u] = log] /\ log \subseteq old
  BY <1>0, <1>1 DEF BillingTypeOK
<1>3. \A e \in old : /\ e \in Event /\ e.no \in Nat /\ e.at \in Nat /\ e.next \in Nat
                     /\ e.at <= day
  BY <1>0, EventTypes DEF TrailInv
<1>4. Ordered(u, old) /\ day \in Nat
  BY <1>0 DEF TrailInv, BillingTypeOK
<1>5. \A e \in old : e.next <= day => Converted(u, e)'
  <2> SUFFICES ASSUME NEW e \in old, e.next <= day PROVE Converted(u, e)'
    OBVIOUS
  <2>1. r \in InvoicesOf(u)'
    BY DEF InvoicesOf
  <2> QED BY <1>3, <2>1 DEF Converted
<1>6. \A e \in old : e.stage = Override => e \in log
  BY <1>1 DEF Override, REMINDER, GRACE
<1>7. Ordered(u, log)'
  <2> SUFFICES ASSUME NEW e \in log, NEW f \in log, e.no < f.no, NoOverrideBetween(log, e, f)
               PROVE  e.at <= f.at /\ e.next <= f.at /\ MayFollow(u, e, f.stage)'
    BY <1>2, <1>4 DEF Ordered, NoOverrideBetween
  <2>1. NoOverrideBetween(old, e, f)
    BY <1>6 DEF NoOverrideBetween
  <2>2. e.at <= f.at /\ e.next <= f.at
    BY <1>2, <1>4, <2>1 DEF Ordered
  <2>3. e.next <= day
    BY <1>2, <1>3, <1>4, <2>2
  <2>4. Converted(u, e)'
    BY <1>2, <1>5, <2>3
  <2>5. f.stage \notin {REMINDER, GRACE}
    BY <1>1
  <2>6. MayFollow(u, e, f.stage)'
    BY <2>4, <2>5 DEF MayFollow
  <2> QED BY <2>2, <2>6
<1>8. ASSUME NEW w \in Worker, worker[w].pc = "notify", worker[w].of = u
      PROVE  Pending(w, u)'
  <2>1. worker[w].now \in Nat /\ worker[w].now <= day /\ Pending(w, u)
    BY <1>8, AtWork DEF TrailInv, Climbing, Idle
  <2>2. PICK now, s : now = worker[w].now /\ s = worker[w].stage
    OBVIOUS
  <2>3. ASSUME NEW e \in log, NoOverrideFrom(log, e)
        PROVE  e.next <= now /\ MayFollow(u, e, s)'
    <3>1. NoOverrideFrom(old, e)
      BY <1>6, <2>3 DEF NoOverrideFrom
    <3>2. e.next <= now
      BY <1>0, <1>2, <2>1, <2>2, <3>1 DEF Pending
    <3>3. e.next <= day
      BY <1>2, <1>3, <1>4, <2>1, <2>2, <3>2
    <3>4. Converted(u, e)'
      BY <1>2, <1>5, <3>3
    <3>5. e.stage \notin {REMINDER, GRACE}
      BY <1>1
    <3>6. MayFollow(u, e, s)'
      BY <3>4, <3>5 DEF MayFollow
    <3> QED BY <3>2, <3>6
  <2>4. events'[u] = log /\ worker'[w].now = now /\ worker'[w].stage = s
    BY <1>2, <2>2 DEF BillingTypeOK
  <2> QED BY <2>3, <2>4 DEF Pending, NoOverrideFrom
<1>9. \A t \in Tenant : RowsKept(t)
  BY DEF RowsKept, InvoicesOf
<1>10. \A e \in log : e.at <= day /\ e \in events[u] /\ e \in Event
  BY <1>0, <1>2, <1>3
<1> HIDE DEF u
<1>11. u \in Tenant
  BY DEF u
<1> QED BY <1>2, <1>7, <1>8, <1>9, <1>10, <1>11, TrailOf

\* An override ends the run of events it follows.
LEMMA OverrideTrail ==
    ASSUME BillingTypeOK, TrailInv, NEW u \in Tenant, NEW s, NEW at \in Nat, at <= day,
           s = Override, UNCHANGED <<invoices, day, worker>>,
           events' = [events EXCEPT ![u] = Added(@, s, at, Null)]
    PROVE  TrailInv'
<1>1. PICK old : old = events[u]
  OBVIOUS
<1>2. old \in SUBSET Event /\ IsFiniteSet(old) /\ \A e \in old : e.no \in Nat
  BY <1>1, EventTypes
<1>3. s \in Override .. CHURN_ALERT /\ Null \in Nat
  BY DEF Override, CHURN_ALERT, Null
<1>4. PICK e0 \in Event : /\ Added(old, s, at, Null) = old \cup {e0}
                          /\ e0.stage = s /\ e0.at = at
                          /\ \A f \in old : f.no < e0.no
  BY <1>2, <1>3, AddedIs
<1>5. PICK log \in SUBSET Event : log = old \cup {e0}
  BY <1>2
<1>6. events' = [events EXCEPT ![u] = log]
  BY <1>1, <1>4, <1>5 DEF BillingTypeOK
<1>7. \A t \in Tenant : RowsKept(t)
  BY DEF RowsKept, InvoicesOf
<1>8. e0.no \in Nat
  BY DEF Event
<1>9. Ordered(u, log)'
  <2>1. Ordered(u, old)'
    BY <1>1, <1>7, OrderedKept DEF TrailInv
  <2>2. \A e, f \in log : e.no = f.no => e = f
    BY <1>2, <1>4, <1>5, <1>8, <2>1 DEF Ordered
  <2>3. ASSUME NEW e \in log, NEW f \in log, e.no < f.no, NoOverrideBetween(log, e, f)
        PROVE  e \in old /\ f \in old /\ NoOverrideBetween(old, e, f)
    <3>1. f # e0
      <4>1. SUFFICES ASSUME f = e0 PROVE FALSE
        OBVIOUS
      <4>2. e0 \in log /\ e0.no >= e.no /\ e0.no <= f.no
        BY <1>2, <1>5, <1>8, <2>3, <4>1
      <4> QED BY <1>4, <2>3, <4>2 DEF NoOverrideBetween
    <3>2. e # e0
      BY <1>2, <1>4, <1>5, <1>8, <2>3, <3>1
    <3> QED BY <1>5, <2>3, <3>1, <3>2 DEF NoOverrideBetween
  <2>4. old \subseteq log
    BY <1>5
  <2> QED BY <2>1, <2>2, <2>3, <2>4 DEF Ordered, NoOverrideBetween
<1>10. \A e \in log : e.at <= day
  BY <1>1, <1>4, <1>5 DEF TrailInv
<1>11. \A e \in log : e.stage # Override => e \in events[u]
  BY <1>1, <1>4, <1>5
<1>12. ASSUME NEW w \in Worker PROVE Pending(w, u)'
  <2>1. \A e \in log : e0.no >= e.no
    BY <1>2, <1>4, <1>5, <1>8
  <2>2. \A e \in log : ~NoOverrideFrom(log, e)
    BY <1>4, <1>5, <2>1 DEF NoOverrideFrom
  <2>3. events'[u] = log
    BY <1>6 DEF BillingTypeOK
  <2> QED BY <2>2, <2>3 DEF Pending, NoOverrideFrom
<1> QED BY <1>6, <1>7, <1>9, <1>10, <1>11, <1>12, TrailOf

\* A tenant's trail goes with it.
LEMMA DeleteTrail ==
    ASSUME BillingTypeOK, TrailInv, NEW u \in Tenant, DeleteTenant(u)
    PROVE  TrailInv'
<1>1. PICK log \in SUBSET Event : log = {}
  OBVIOUS
<1>2. /\ events' = [events EXCEPT ![u] = log] /\ UNCHANGED <<day, worker>>
      /\ invoices' = invoices \ InvoicesOf(u)
  BY <1>1 DEF DeleteTenant
<1>3. \A t \in Tenant \ {u} : RowsKept(t)
  BY <1>2 DEF RowsKept, InvoicesOf
<1>4. Ordered(u, log)'
  BY <1>1 DEF Ordered
<1>5. \A w \in Worker : Pending(w, u)'
  BY <1>1, <1>2 DEF Pending, BillingTypeOK
<1> QED BY <1>1, <1>2, <1>3, <1>4, <1>5, TrailOf

\* A pass that goes on without recording anything.
LEMMA PassGoesOn ==
    ASSUME BillingTypeOK, TrailInv, NEW w \in Worker, NEW s,
           UNCHANGED <<invoices, events, day>>, worker' = [worker EXCEPT ![w] = s],
           s = Idle \/ (s.now = day \/ (worker[w] # Idle /\ s.now = worker[w].now)),
           s.pc = "notify" => \E t \in Tenant : s.of = t /\ Pending(w, t)'
    PROVE  TrailInv'
<1>0. w \in DOMAIN worker /\ worker'[w] = s /\ \A v \in Worker : v # w => worker'[v] = worker[v]
  BY DEF BillingTypeOK
<1>1. \A t \in Tenant : RowsKept(t)
  BY DEF RowsKept, InvoicesOf
<1>2. ASSUME NEW t \in Tenant PROVE Ordered(t, events[t])'
  <2>1. PICK log : log = events[t]
    OBVIOUS
  <2>2. Ordered(t, log)'
    BY <1>1, <2>1, OrderedKept DEF TrailInv
  <2>3. events'[t] = log
    BY <2>1
  <2> QED BY <2>2, <2>3 DEF Ordered, NoOverrideBetween, MayFollow, Converted
<1>3. \A t \in Tenant : \A e \in events'[t] : e.at <= day'
  BY DEF TrailInv
<1>4. ASSUME NEW v \in Worker, worker'[v] # Idle
      PROVE  /\ worker'[v].now <= day'
             /\ \A t \in Tenant : \A e \in events'[t] :
                   e.stage # Override => e.at <= worker'[v].now
  <2>1. CASE v # w
    BY <1>0, <1>4, <2>1 DEF TrailInv
  <2>2. CASE v = w
    <3>1. s.now = day \/ (worker[w] # Idle /\ s.now = worker[w].now)
      BY <1>0, <1>4, <2>2
    <3>2. day <= day
      BY DEF BillingTypeOK
    <3> QED BY <1>0, <2>2, <3>1, <3>2 DEF TrailInv
  <2> QED BY <2>1, <2>2
<1>5. ASSUME NEW v \in Worker, worker'[v].pc = "notify" PROVE Pending(v, worker[v].of)'
  <2>1. CASE v # w
    <3>1. worker'[v] = worker[v] /\ worker[v].of \in Tenant /\ Pending(v, worker[v].of)
      BY <1>0, <1>5, <2>1, AtWork DEF TrailInv, Climbing
    <3>2. PICK t \in Tenant : t = worker[v].of
      BY <3>1
    <3>3. Pending(v, t)'
      BY <1>1, <3>1, <3>2, PendingKept
    <3>4. worker'[v].of = t
      BY <3>1, <3>2
    <3> QED BY <3>3, <3>4 DEF Pending, MayFollow, Converted, NoOverrideFrom
  <2>2. CASE v = w
    <3>1. PICK t \in Tenant : s.of = t /\ Pending(w, t)'
      BY <1>0, <1>5, <2>2
    <3>2. worker'[v].of = t
      BY <1>0, <2>2, <3>1
    <3> QED BY <2>2, <3>1, <3>2 DEF Pending, MayFollow, Converted, NoOverrideFrom
  <2> QED BY <2>1, <2>2
<1> QED BY <1>2, <1>3, <1>4, <1>5 DEF TrailInv

\* The stage a pass decides on may follow the tenant's last event.
LEMMA AssessTrail ==
    ASSUME BillingTypeOK, TrailInv, NEW w \in Worker, worker[w].pc = "list",
           NEW job \in worker[w].todo, Assess(w, job)
    PROVE  TrailInv'
<1> DEFINE due == DueStages(worker[w].now, job.since, events[job.of])
           rest == [pc |-> "list", now |-> worker[w].now, todo |-> worker[w].todo \ {job}]
           step == [pc |-> "notify", now |-> worker[w].now, todo |-> worker[w].todo \ {job},
                    of |-> job.of, stage |-> Max(due)]
<1>1. worker[w] # Idle /\ worker[w].now \in Nat /\ job.of \in Tenant
  BY AtWork DEF Listing, Job, Idle
<1>2. UNCHANGED <<invoices, events, day>>
  BY DEF Assess
<1>0. PICK t \in Tenant : t = job.of
  BY <1>1
<1>3. PICK log : t = job.of /\ log = events[t]
  BY <1>0
<1>4. \/ worker' = [worker EXCEPT ![w] = rest]
      \/ /\ worker' = [worker EXCEPT ![w] = step]
         /\ due # {} /\ ~(log # {} /\ Latest(log).stage = Max(due))
  BY <1>3 DEF Assess, Goes
<1>5. CASE worker' = [worker EXCEPT ![w] = rest]
  <2> HIDE DEF due
  <2>1. rest.now = worker[w].now /\ rest.pc # "notify"
    OBVIOUS
  <2> HIDE DEF rest, step
  <2> QED BY <1>1, <1>2, <1>5, <2>1, PassGoesOn
<1>6. CASE /\ worker' = [worker EXCEPT ![w] = step]
           /\ due # {} /\ ~(log # {} /\ Latest(log).stage = Max(due))
  <2>1. PICK now, s : now = worker[w].now /\ s = Max(due)
    OBVIOUS
  <2>2. log # {} => Latest(log).next = Null \/ Latest(log).next <= now
    BY <1>3, <1>6, <2>1 DEF DueStages
  <2> HIDE DEF due
  <2>3. step.now = now /\ step.pc = "notify" /\ step.of = t /\ step.stage = s
    BY <1>3, <2>1
  <2> HIDE DEF rest, step
  <2>4. worker'[w] = step
    BY <1>6 DEF BillingTypeOK
  <2>5. ASSUME NEW e \in log, NoOverrideFrom(log, e)
        PROVE  e.next <= now /\ ((\E g \in log : g.no > e.no) \/ MayFollow(t, e, s))
    <3>1. log \in SUBSET Event /\ IsFiniteSet(log)
          /\ \A g \in log : g.no \in Nat /\ g.at \in Nat /\ g.next \in Nat
      BY <1>3, EventTypes
    <3>2. PICK l \in log : l = Latest(log) /\ \A g \in log : g.no <= l.no
      BY <2>5, <3>1, LatestIs
    <3>3. l.next <= now
      BY <1>1, <2>1, <2>2, <2>5, <3>1, <3>2 DEF Null
    <3>4. Ordered(t, log)
      BY <1>3 DEF TrailInv
    <3>5. CASE e.no = l.no
      <4>1. e = l
        BY <3>4, <3>5 DEF Ordered
      <4>2. e.stage # s
        BY <1>6, <2>1, <2>5, <3>2, <4>1
      <4> QED BY <3>3, <4>1, <4>2 DEF MayFollow
    <3>6. CASE e.no # l.no
      <4>1. e.no < l.no
        BY <2>5, <3>1, <3>2, <3>6
      <4>2. NoOverrideBetween(log, e, l) /\ l.stage # Override
        BY <2>5, <3>1, <3>2, <4>1 DEF NoOverrideBetween, NoOverrideFrom
      <4>3. e.next <= l.at
        BY <2>5, <3>4, <4>1, <4>2 DEF Ordered
      <4>4. l.at <= now
        BY <1>1, <1>3, <2>1, <4>2 DEF TrailInv
      <4>5. e.next <= now
        BY <1>1, <2>1, <2>5, <3>1, <4>3, <4>4
      <4> QED BY <3>1, <3>2, <4>1, <4>5, <2>5
    <3> QED BY <3>5, <3>6
  <2>6. RowsKept(t)
    BY <1>2 DEF RowsKept, InvoicesOf
  <2>7. \A e : MayFollow(t, e, s) => MayFollow(t, e, s)'
    BY <2>6, ConvertedKept DEF MayFollow
  <2>8. Pending(w, t)'
    <3>1. events'[t] = log /\ worker'[w].now = now /\ worker'[w].stage = s
      BY <1>2, <1>3, <2>3, <2>4
    <3> QED BY <2>5, <2>7, <3>1 DEF Pending, NoOverrideFrom
  <2> QED BY <1>1, <1>2, <1>6, <2>1, <2>3, <2>8, PassGoesOn
<1> QED BY <1>4, <1>5, <1>6

\* The event a pass records was pending, and no other pass is under way.
LEMMA NotifyTrail ==
    ASSUME BillingTypeOK, TrailInv, OneWorker, NEW w \in Worker, Notify(w)
    PROVE  TrailInv'
<1>0. worker[w] \in Climbing /\ worker[w].pc = "notify" /\ worker[w] # Idle
  BY AtWork DEF Notify, Idle
<1>1. PICK t \in Tenant, s \in Stage, now \in Nat :
          t = worker[w].of /\ s = worker[w].stage /\ now = worker[w].now
  BY <1>0 DEF Climbing
<1>2. UNCHANGED <<invoices, day>>
  BY DEF Notify
<1>3. now <= day /\ Pending(w, t) /\ day \in Nat
  BY <1>0, <1>1 DEF TrailInv, BillingTypeOK
<1>4. PICK x : worker' = [worker EXCEPT ![w] = x] /\ (x = Idle \/ x.now = now) /\ x.pc # "notify"
  <2>1. Back(w).now = now /\ Back(w).pc # "notify"
    BY <1>1 DEF Back
  <2>2. [worker[w] EXCEPT !.pc = "suspend"].now = now
        /\ [worker[w] EXCEPT !.pc = "suspend"].pc # "notify"
    BY <1>0, <1>1 DEF Climbing
  <2>3. \E x \in {Idle, Back(w), [worker[w] EXCEPT !.pc = "suspend"]} :
           worker' = [worker EXCEPT ![w] = x]
    BY DEF Notify, Goes
  <2>4. Idle.pc # "notify"
    BY DEF Idle
  <2> QED BY <2>1, <2>2, <2>3, <2>4
<1>5. CASE ~Exists(t)
  <2>1. UNCHANGED events
    BY <1>1, <1>5 DEF Notify
  <2> QED BY <1>0, <1>1, <1>2, <1>4, <2>1, PassGoesOn
<1>6. CASE Exists(t)
  <2>1. PICK next : /\ next \in Nat
                    /\ events' = [events EXCEPT ![t] = Added(@, s, now, next)]
    <3>1. (IF s = CHURN_ALERT THEN Null ELSE now + Wait[s]) \in Nat
      BY WaitsAreDays DEF Null
    <3> QED BY <1>1, <1>6, <3>1 DEF Notify
  <2>2. PICK old : old = events[t]
    OBVIOUS
  <2>3. old \in SUBSET Event /\ IsFiniteSet(old) /\ Ordered(t, old)
        /\ \A e \in old : e.no \in Nat /\ e.at \in Nat /\ e.next \in Nat
    BY <2>2, EventTypes DEF TrailInv
  <2>4. s \in Override .. CHURN_ALERT /\ s # Override
    BY DEF Stage, Override, REMINDER, CHURN_ALERT
  <2>5. PICK e0 \in Event : /\ Added(old, s, now, next) = old \cup {e0}
                            /\ e0.stage = s /\ e0.at = now
                            /\ \A f \in old : f.no < e0.no
    BY <2>1, <2>3, <2>4, AddedIs
  <2>6. PICK log \in SUBSET Event : log = old \cup {e0}
    BY <2>3
  <2>7. events' = [events EXCEPT ![t] = log] /\ e0.no \in Nat
    BY <2>1, <2>2, <2>5, <2>6 DEF BillingTypeOK, Event
  <2>8. \A u \in Tenant : RowsKept(u)
    BY <1>2 DEF RowsKept, InvoicesOf
  <2>9. \A e \in old : e.stage # Override => e.at <= now
    BY <1>0, <1>1, <2>2 DEF TrailInv
  <2>10. Ordered(t, log)'
    <3>1. Ordered(t, old)'
      BY <2>3, <2>8, OrderedKept
    <3>2. \A e, f \in log : e.no = f.no => e = f
      BY <2>3, <2>5, <2>6, <2>7 DEF Ordered
    <3>3. ASSUME NEW e \in log, NEW f \in log, e.no < f.no, NoOverrideBetween(log, e, f)
          PROVE  /\ e.at <= f.at /\ e.next <= f.at
                 /\ (\E g \in log : e.no < g.no /\ g.no < f.no) \/ MayFollow(t, e, f.stage)'
      <4>1. e # e0
        BY <2>3, <2>5, <2>6, <2>7, <3>3
      <4>2. e \in old
        BY <2>6, <4>1
      <4>3. CASE f # e0
        <5>1. f \in old /\ NoOverrideBetween(old, e, f)
          BY <2>6, <3>3, <4>3 DEF NoOverrideBetween
        <5> QED BY <2>6, <3>1, <3>3, <4>2, <5>1 DEF Ordered, NoOverrideBetween
      <4>4. CASE f = e0
        <5>1. NoOverrideFrom(old, e) /\ e.stage # Override
          BY <2>3, <2>5, <2>6, <3>3, <4>2, <4>4, <2>7 DEF NoOverrideBetween, NoOverrideFrom
        <5>2. e.next <= now /\ ((\E g \in old : g.no > e.no) \/ MayFollow(t, e, s))
          BY <1>1, <1>3, <2>2, <4>2, <5>1 DEF Pending
        <5>3. (\E g \in old : g.no > e.no) => \E g \in log : e.no < g.no /\ g.no < f.no
          BY <2>3, <2>5, <2>6, <4>2, <4>4
        <5>4. MayFollow(t, e, s) => MayFollow(t, e, f.stage)'
          BY <2>5, <2>8, <4>4, ConvertedKept DEF MayFollow
        <5>5. e.at <= f.at /\ e.next <= f.at
          BY <2>5, <2>9, <4>2, <4>4, <5>1, <5>2
        <5> QED BY <5>2, <5>3, <5>4, <5>5
      <4> QED BY <4>3, <4>4
    <3> QED BY <3>2, <3>3 DEF Ordered, NoOverrideBetween
  <2>11. DOMAIN events = Tenant /\ events'[t] = log
    BY <2>7 DEF BillingTypeOK
  <2>12. \A u \in Tenant \ {t} : events'[u] = events[u] /\ Ordered(u, events[u])'
    BY <2>7, <2>8, <2>11, OthersOrdered
  <2>13. Ordered(t, events[t])'
    BY <2>10, <2>11 DEF Ordered, NoOverrideBetween, MayFollow, Converted
  <2>14. \A u \in Tenant : Ordered(u, events[u])'
    BY <2>12, <2>13
  <2>15. \A e \in log : e.at <= day /\ (e.stage # Override => e.at <= now)
    BY <1>3, <2>2, <2>5, <2>6, <2>9 DEF TrailInv
  <2>16. \A u \in Tenant : \A e \in events'[u] : e.at <= day'
    BY <1>2, <2>11, <2>12, <2>15 DEF TrailInv
  <2>17. \A v \in Worker : v = w /\ worker'[v].pc # "notify"
                           /\ (worker'[v] # Idle => worker'[v].now = now)
    BY <1>4 DEF OneWorker, BillingTypeOK
  <2>18. \A u \in Tenant : \A e \in events'[u] : e.stage # Override => e.at <= now
    BY <1>0, <1>1, <2>11, <2>12, <2>15 DEF TrailInv
  <2> QED BY <1>2, <1>3, <2>14, <2>16, <2>17, <2>18 DEF TrailInv
<1> QED BY <1>5, <1>6

LEMMA TrailStep ==
    ASSUME BillingTypeOK, BillingTypeOK', NumbersInv, TrailInv, OneWorker, Next
    PROVE  TrailInv'
<1>0. day \in Nat /\ day' \in Nat /\ day <= day
  BY DEF BillingTypeOK
<1>1. ASSUME NEW c \in Clerk, Mint(c) PROVE TrailInv'
  <2>1. UNCHANGED <<day, worker>>
    BY <1>1 DEF Mint
  <2>2. CASE invoices' = invoices
    <3>1. \A t \in Tenant : RowsKept(t)
      BY <2>2 DEF RowsKept, InvoicesOf
    <3>2. UNCHANGED events
      BY <1>1, <2>2, MintFails
    <3> QED BY <1>0, <2>1, <3>1, <3>2, EventsSame
  <2>3. CASE invoices' # invoices
    <3>1. PICK r \in Row :
             /\ invoices' = invoices \cup {r} /\ r.at = day
             /\ \/ /\ r.units = 0
                   /\ events' = [events EXCEPT ![r.of] =
                                    {e \in @ : e.stage \notin {REMINDER, GRACE}}]
                \/ UNCHANGED events
      BY <1>1, <2>3, MintAdds
    <3>2. \A t \in Tenant : RowsKept(t)
      BY <3>1 DEF RowsKept, InvoicesOf
    <3>3. r.of \in Tenant
      BY DEF Row
    <3>4. CASE UNCHANGED events
      BY <1>0, <2>1, <3>2, <3>4, EventsSame
    <3>5. CASE /\ r.units = 0
               /\ events' = [events EXCEPT ![r.of] =
                                {e \in @ : e.stage \notin {REMINDER, GRACE}}]
      BY <2>1, <3>1, <3>3, <3>5, ConvertTrail
    <3> QED BY <3>1, <3>4, <3>5
  <2> QED BY <2>2, <2>3
<1>2. ASSUME NEW c \in Clerk, NEW t \in Tenant, NEW r \in BOOLEAN, RecordOverride(c, t, r)
      PROVE  TrailInv'
  <2>1. PICK s, at : s = Override /\ at = day
    OBVIOUS
  <2>2. /\ events' = [events EXCEPT ![t] = Added(@, s, at, Null)]
        /\ UNCHANGED <<invoices, day, worker>>
    BY <1>2, <2>1 DEF RecordOverride
  <2> QED BY <1>0, <2>1, <2>2, OverrideTrail
<1>3. ASSUME NEW i \in invoices, MarkPaid(i) PROVE TrailInv'
  <2>1. [i EXCEPT !.paid = TRUE].of = i.of /\ [i EXCEPT !.paid = TRUE].units = i.units
        /\ [i EXCEPT !.paid = TRUE].at = i.at
    BY DEF BillingTypeOK, Row
  <2>2. PICK p : /\ p.of = i.of /\ p.units = i.units /\ p.at = i.at
                 /\ invoices' = (invoices \ {i}) \cup {p}
    BY <1>3, <2>1 DEF MarkPaid
  <2>3. \A t \in Tenant : RowsKept(t)
    BY <2>2 DEF RowsKept, InvoicesOf
  <2> QED BY <1>0, <1>3, <2>3, EventsSame DEF MarkPaid
<1>4. ASSUME NEW c \in Clerk, \/ LockNumbers(c) \/ Reactivate(c) \/ HangUp(c)
                              \/ \E t \in Tenant, k \in Kind : ReadTenant(c, t, k)
                              \/ \E t \in Tenant : OpenHardDelete(c, t)
      PROVE  TrailInv'
  <2>1. UNCHANGED <<invoices, events, day, worker>>
    BY <1>4 DEF LockNumbers, Reactivate, ReadTenant, HangUp, OpenHardDelete
  <2>2. \A t \in Tenant : RowsKept(t)
    BY <2>1 DEF RowsKept, InvoicesOf
  <2> QED BY <1>0, <2>1, <2>2, EventsSame
<1>5. ASSUME NEW d \in Drainer, Send(d) PROVE TrailInv'
  <2>1. UNCHANGED <<invoices, events, day, worker>>
    BY <1>5 DEF Send, Spend, LookAtBalance, FlagLowBalance, BreakOffSend
  <2>2. \A t \in Tenant : RowsKept(t)
    BY <2>1 DEF RowsKept, InvoicesOf
  <2> QED BY <1>0, <2>1, <2>2, EventsSame
<1>6. CASE Tick
  <2>1. \A t \in Tenant : RowsKept(t)
    BY <1>6 DEF Tick, RowsKept, InvoicesOf
  <2> QED BY <1>0, <1>6, <2>1, EventsSame DEF Tick
<1>7. ASSUME NEW w \in Worker, StartPass(w) PROVE TrailInv'
  <2>1. PICK todo : worker' = [worker EXCEPT ![w] = [pc |-> "list", now |-> day, todo |-> todo]]
    BY <1>7 DEF StartPass, Goes
  <2>2. UNCHANGED <<invoices, events, day>>
    BY <1>7 DEF StartPass
  <2> QED BY <2>1, <2>2, PassGoesOn
<1>8. ASSUME NEW w \in Worker, Suspend(w) \/ EndPass(w) PROVE TrailInv'
  <2>1. worker[w] # Idle
    BY <1>8 DEF Suspend, EndPass, Idle
  <2>2. \E s \in {Idle, Back(w)} : worker' = [worker EXCEPT ![w] = s]
    BY <1>8 DEF Suspend, EndPass, Goes
  <2>3. Back(w).now = worker[w].now /\ Back(w).pc # "notify" /\ Idle.pc # "notify"
    BY DEF Back, Idle
  <2>4. UNCHANGED <<invoices, events, day>>
    BY <1>8 DEF Suspend, EndPass
  <2> QED BY <2>1, <2>2, <2>3, <2>4, PassGoesOn
<1>9. ASSUME NEW t \in Tenant, NEW s \in ByHand, WriteStatus(t, s) PROVE TrailInv'
  <2>1. UNCHANGED <<invoices, events, day, worker>>
    BY <1>9 DEF WriteStatus
  <2>2. \A u \in Tenant : RowsKept(u)
    BY <2>1 DEF RowsKept, InvoicesOf
  <2> QED BY <1>0, <2>1, <2>2, EventsSame
<1> QED BY <1>1, <1>2, <1>3, <1>4, <1>5, <1>6, <1>7, <1>8, <1>9, AssessTrail, NotifyTrail,
           DeleteTrail DEF Next, Sell, Intervene, Dun

LEMMA SuspensionStep ==
    ASSUME BillingTypeOK, SuspensionInv, Next
    PROVE  SuspensionInv'
<1> DEFINE Told(t) == \E e \in events[t] : e.stage = SUSPENDED
<1>0. /\ DOMAIN status = Tenant /\ DOMAIN events = Tenant /\ DOMAIN worker = Worker
      /\ \A w \in Worker : worker[w].pc = "suspend" => worker[w].of \in Tenant
  BY AtWork DEF BillingTypeOK, Climbing
<1>1. ASSUME \A t \in Tenant : /\ Exists(t)' => Exists(t)
                               /\ Exists(t)' /\ Told(t) => Told(t)'
                               /\ status'[t] = "SUSPENDED" => status[t] = "SUSPENDED",
             \A w \in Worker : worker'[w].pc = "suspend" => worker'[w] = worker[w]
      PROVE  SuspensionInv'
  <2>1. \A t \in Tenant : status'[t] = "SUSPENDED" => Exists(t)'
    BY DEF Exists
  <2> QED BY <1>0, <1>1, <2>1 DEF SuspensionInv
<1>2. ASSUME NEW c \in Clerk, Mint(c) PROVE SuspensionInv'
  <2>1. \/ status' = status /\ events' = events
        \/ \E u \in Tenant : /\ Exists(u) /\ status' = [status EXCEPT ![u] = "ACTIVE"]
                             /\ events' = [events EXCEPT ![u] =
                                             {e \in @ : e.stage \notin {REMINDER, GRACE}}]
    <3>1. CASE invoices' = invoices
      BY <1>2, <3>1, MintFails
    <3>2. CASE invoices' # invoices
      <4>1. \A r \in Row : r.of \in Tenant
        BY DEF Row
      <4> QED BY <1>2, <3>2, <4>1, MintAdds
    <3> QED BY <3>1, <3>2
  <2>2. UNCHANGED worker
    BY <1>2 DEF Mint
  <2>3. CASE status' = status /\ events' = events
    BY <1>1, <2>2, <2>3 DEF Exists
  <2>4. ASSUME NEW u \in Tenant, Exists(u), status' = [status EXCEPT ![u] = "ACTIVE"],
               events' = [events EXCEPT ![u] = {e \in @ : e.stage \notin {REMINDER, GRACE}}]
        PROVE  SuspensionInv'
    <3>1. \A t \in Tenant : Told(t) => Told(t)'
      BY <1>0, <2>4 DEF SUSPENDED, REMINDER, GRACE
    <3>2. \A t \in Tenant : /\ Exists(t)' => Exists(t)
                            /\ status'[t] = "SUSPENDED" => status[t] = "SUSPENDED"
      BY <1>0, <2>4 DEF Exists
    <3> QED BY <1>1, <2>2, <3>1, <3>2
  <2> QED BY <2>1, <2>3, <2>4
<1>3. ASSUME NEW c \in Clerk, NEW u \in Tenant, NEW r \in BOOLEAN, RecordOverride(c, u, r)
      PROVE  SuspensionInv'
  <2>1. events' = [events EXCEPT ![u] = Added(@, Override, day, Null)]
        /\ UNCHANGED <<status, worker>>
    BY <1>3 DEF RecordOverride
  <2>2. \A log, s, at, next : log \subseteq Added(log, s, at, next)
    BY DEF Added
  <2>3. \A t \in Tenant : Told(t) => Told(t)'
    BY <1>0, <2>1, <2>2
  <2> QED BY <1>1, <2>1, <2>3 DEF Exists
<1>4. ASSUME NEW c \in Clerk, Reactivate(c) PROVE SuspensionInv'
  <2>1. UNCHANGED <<events, worker>>
        /\ (status' = status \/ \E u : Exists(u) /\ status' = [status EXCEPT ![u] = "ACTIVE"])
    BY <1>4 DEF Reactivate
  <2>2. \A t \in Tenant : /\ Exists(t)' => Exists(t)
                          /\ status'[t] = "SUSPENDED" => status[t] = "SUSPENDED"
    BY <1>0, <2>1 DEF Exists
  <2> QED BY <1>1, <2>1, <2>2
<1>5. ASSUME NEW u \in Tenant, DeleteTenant(u) PROVE SuspensionInv'
  <2>1. /\ status' = [status EXCEPT ![u] = "DELETED"] /\ UNCHANGED worker
        /\ events' = [events EXCEPT ![u] = {}]
    BY <1>5 DEF DeleteTenant
  <2>2. \A t \in Tenant : /\ Exists(t)' => Exists(t) /\ t # u
                          /\ status'[t] = "SUSPENDED" => status[t] = "SUSPENDED"
    BY <1>0, <2>1 DEF Exists
  <2>3. \A t \in Tenant : t # u => events'[t] = events[t]
    BY <1>0, <2>1
  <2> QED BY <1>1, <2>1, <2>2, <2>3
<1>6. ASSUME NEW w \in Worker, StartPass(w) \/ EndPass(w) \/
                               (worker[w].pc = "list" /\ \E job \in worker[w].todo : Assess(w, job))
      PROVE  SuspensionInv'
  <2>1. UNCHANGED <<status, events>>
    BY <1>6 DEF StartPass, EndPass, Assess
  <2>2. PICK s : worker' = [worker EXCEPT ![w] = s] /\ s.pc # "suspend"
    <3>0. \A s : worker' = [worker EXCEPT ![w] = s] /\ s.pc # "suspend"
                   => \E x : worker' = [worker EXCEPT ![w] = x] /\ x.pc # "suspend"
      OBVIOUS
    <3>1. CASE StartPass(w)
      <4>1. PICK todo : worker' = [worker EXCEPT ![w] = [pc |-> "list", now |-> day, todo |-> todo]]
        BY <3>1 DEF StartPass, Goes
      <4>2. [pc |-> "list", now |-> day, todo |-> todo].pc # "suspend"
        OBVIOUS
      <4> QED BY <3>0, <4>1, <4>2
    <3>2. CASE EndPass(w)
      <4>1. worker' = [worker EXCEPT ![w] = Idle] /\ Idle.pc # "suspend"
        BY <3>2 DEF EndPass, Goes, Idle
      <4> QED BY <3>0, <4>1
    <3>3. ASSUME NEW job \in worker[w].todo, Assess(w, job)
          PROVE  \E s : worker' = [worker EXCEPT ![w] = s] /\ s.pc # "suspend"
      <4> DEFINE rest == [pc |-> "list", now |-> worker[w].now, todo |-> worker[w].todo \ {job}]
                 step == [pc |-> "notify", now |-> worker[w].now,
                          todo |-> worker[w].todo \ {job}, of |-> job.of,
                          stage |-> Max(DueStages(worker[w].now, job.since, events[job.of]))]
      <4>1. \/ worker' = [worker EXCEPT ![w] = rest]
            \/ worker' = [worker EXCEPT ![w] = step]
        BY <3>3 DEF Assess, Goes
      <4>2. rest.pc # "suspend" /\ step.pc # "suspend"
        OBVIOUS
      <4> HIDE DEF rest, step
      <4> QED BY <3>0, <4>1, <4>2
    <3> QED BY <1>6, <3>1, <3>2, <3>3
  <2>3. \A v \in Worker : worker'[v].pc = "suspend" => worker'[v] = worker[v]
    BY <1>0, <2>2
  <2> QED BY <1>1, <2>1, <2>3 DEF Exists
<1>7. ASSUME NEW w \in Worker, Notify(w) PROVE SuspensionInv'
  <2>0. worker[w] \in Climbing /\ UNCHANGED status
    BY <1>7, AtWork DEF Notify
  <2>1. PICK t \in Tenant : t = worker[w].of
    BY <2>0 DEF Climbing
  <2>2. CASE ~Exists(t)
    <3>1. worker' = [worker EXCEPT ![w] = Idle] /\ UNCHANGED events
      BY <1>7, <2>1, <2>2 DEF Notify, Goes
    <3>2. \A v \in Worker : worker'[v].pc = "suspend" => worker'[v] = worker[v]
      BY <1>0, <3>1 DEF Idle
    <3> QED BY <1>1, <2>0, <3>1, <3>2 DEF Exists
  <2>3. CASE Exists(t)
    <3>1. PICK at, next : events' = [events EXCEPT ![t] = Added(@, worker[w].stage, at, next)]
      BY <1>7, <2>1, <2>3 DEF Notify
    <3>2. ASSUME NEW log, NEW s, NEW x, NEW y
          PROVE  /\ log \subseteq Added(log, s, x, y)
                 /\ \E e \in Added(log, s, x, y) : e.stage = s
      <4> DEFINE row == [no |-> IF log = {} THEN 1 ELSE Latest(log).no + 1,
                         stage |-> s, at |-> x, next |-> y]
      <4>1. Added(log, s, x, y) = log \cup {row} /\ row.stage = s
        BY DEF Added
      <4> HIDE DEF row
      <4> QED BY <4>1
    <3>3. \A u \in Tenant : Told(u) => Told(u)'
      BY <1>0, <3>1, <3>2
    <3>4. worker[w].stage = SUSPENDED => Told(t)'
      BY <1>0, <3>1, <3>2
    <3>5. CASE worker[w].stage # SUSPENDED
      <4>1. worker' = [worker EXCEPT ![w] = Back(w)]
        BY <1>7, <2>1, <2>3, <3>5 DEF Notify, Goes
      <4>2. \A v \in Worker : worker'[v].pc = "suspend" => worker'[v] = worker[v]
        BY <1>0, <4>1 DEF Back
      <4> QED BY <1>1, <2>0, <3>3, <4>2 DEF Exists
    <3>6. CASE worker[w].stage = SUSPENDED
      <4>1. worker' = [worker EXCEPT ![w] = [worker[w] EXCEPT !.pc = "suspend"]]
        BY <1>7, <2>1, <2>3, <3>6 DEF Notify, Goes
      <4>2. worker'[w].of = t /\ worker'[w].stage = SUSPENDED
        BY <1>0, <2>0, <2>1, <3>6, <4>1 DEF Climbing
      <4>3. \A v \in Worker : v # w => worker'[v] = worker[v]
        BY <4>1, <1>0
      <4> QED BY <1>0, <2>0, <3>3, <3>4, <3>6, <4>2, <4>3 DEF SuspensionInv, Exists
    <3> QED BY <3>5, <3>6
  <2> QED BY <2>2, <2>3
<1>8. ASSUME NEW w \in Worker, Suspend(w) PROVE SuspensionInv'
  <2>1. PICK t \in Tenant : t = worker[w].of
    BY <1>0, <1>8 DEF Suspend
  <2>2. Exists(t) => Told(t)
    BY <1>8, <2>1 DEF Suspend, SuspensionInv
  <2>3. UNCHANGED events /\ (\/ ~Exists(t) /\ UNCHANGED status
                             \/ Exists(t) /\ status' = [status EXCEPT ![t] = "SUSPENDED"])
    BY <1>8, <2>1 DEF Suspend
  <2>4. \E s \in {Idle, Back(w)} : worker' = [worker EXCEPT ![w] = s]
    BY <1>8 DEF Suspend, Goes
  <2>5. \A v \in Worker : worker'[v].pc = "suspend" => worker'[v] = worker[v]
    BY <1>0, <2>4 DEF Idle, Back
  <2>6. \A u \in Tenant : (Exists(u)' => Exists(u)) /\ (u # t => status'[u] = status[u])
    BY <1>0, <2>3 DEF Exists
  <2> QED BY <1>0, <2>2, <2>3, <2>5, <2>6 DEF SuspensionInv, Exists
<1>9. ASSUME \/ \E c \in Clerk : \/ LockNumbers(c) \/ HangUp(c)
                                 \/ \E u \in Tenant, k \in Kind : ReadTenant(c, u, k)
                                 \/ \E u \in Tenant : OpenHardDelete(c, u)
             \/ \E d \in Drainer : Send(d)
             \/ \E i \in invoices : MarkPaid(i)
             \/ Tick
      PROVE  SuspensionInv'
  <2>1. UNCHANGED <<status, events, worker>>
    BY <1>9 DEF LockNumbers, ReadTenant, HangUp, OpenHardDelete, Send, Spend, LookAtBalance,
                FlagLowBalance, BreakOffSend, MarkPaid, Tick
  <2> QED BY <1>1, <2>1 DEF Exists
<1>10. ASSUME NEW u \in Tenant, NEW s \in ByHand, WriteStatus(u, s) PROVE SuspensionInv'
  <2>1. /\ status' = [status EXCEPT ![u] = s] /\ Exists(u) /\ s # "SUSPENDED"
        /\ UNCHANGED <<events, worker>>
    BY <1>10 DEF WriteStatus, ByHand
  <2>2. \A t \in Tenant : /\ Exists(t)' => Exists(t)
                          /\ Exists(t)' /\ Told(t) => Told(t)'
                          /\ status'[t] = "SUSPENDED" => status[t] = "SUSPENDED"
    BY <1>0, <2>1 DEF Exists
  <2> QED BY <1>1, <2>1, <2>2
<1> QED BY <1>2, <1>3, <1>4, <1>5, <1>6, <1>7, <1>8, <1>9, <1>10 DEF Next, Sell, Intervene, Dun

LEMMA TrailInit == Init => TrailInv /\ SuspensionInv
BY DEF Init, TrailInv, SuspensionInv, Ordered, Idle

LEMMA BillingStep == OneWorker /\ BillingInv /\ [Next]_vars => BillingInv'
<1> SUFFICES ASSUME OneWorker, BillingInv, [Next]_vars PROVE BillingInv'
  OBVIOUS
<1>1. SalesInv /\ SalesInv'
  BY SalesStep DEF BillingInv
<1>2. BillingTypeOK /\ BillingTypeOK' /\ NumbersInv
  BY <1>1 DEF SalesInv
<1>3. CASE Next
  BY <1>1, <1>2, <1>3, TrailStep, SuspensionStep DEF BillingInv
<1>4. CASE UNCHANGED vars
  <2>1. UNCHANGED <<events, worker, day, status, invoices>>
    BY <1>4 DEF vars
  <2>2. \A t \in Tenant : RowsKept(t)
    BY <2>1 DEF RowsKept, InvoicesOf
  <2>3. day' \in Nat /\ day' >= day
    BY <1>2, <2>1 DEF BillingTypeOK
  <2>4. TrailInv'
    BY <1>2, <2>1, <2>2, <2>3, EventsSame DEF BillingInv
  <2>5. SuspensionInv'
    BY <2>1 DEF BillingInv, SuspensionInv, Exists
  <2> QED BY <1>1, <2>4, <2>5 DEF BillingInv
<1> QED BY <1>3, <1>4

\* With one dunning pass at a time, whatever pass dies where and whoever converts,
\* pays or overrides meanwhile, a suspended tenant was told so, no event comes
\* before the date its predecessor set, and a stage comes twice in a row only
\* after a conversion (billing.ts:430-457).
THEOREM TrailExplainsHolds == OneWorker => (Spec => []TrailExplains)
<1> SUFFICES ASSUME OneWorker PROVE Spec => []TrailExplains
  OBVIOUS
<1>1. BillingInv => TrailExplains
  <2> SUFFICES ASSUME BillingInv, NEW t \in Tenant
               PROVE  /\ status[t] = "SUSPENDED" => \E e \in events[t] : e.stage = SUSPENDED
                      /\ \A e, f \in events[t] :
                            /\ Override \notin {e.stage, f.stage} /\ e.no < f.no
                            /\ \A g \in events[t] : g.no <= e.no \/ g.no >= f.no
                            => /\ e.next <= f.at
                               /\ e.stage = f.stage => /\ e.stage \notin {REMINDER, GRACE}
                                                       /\ Converted(t, e)
    BY DEF TrailExplains, Converted
  <2>1. Ordered(t, events[t]) /\ \A e \in events[t] : e.no \in Nat
    BY EventTypes DEF BillingInv, TrailInv, SalesInv
  <2>2. ASSUME NEW e \in events[t], NEW f \in events[t], Override \notin {e.stage, f.stage},
               e.no < f.no, \A g \in events[t] : g.no <= e.no \/ g.no >= f.no
        PROVE  e.next <= f.at /\ MayFollow(t, e, f.stage)
    <3>1. \A g \in events[t] : g.no >= e.no /\ g.no <= f.no => g = e \/ g = f
      <4>1. \A g \in events[t] : g.no >= e.no /\ g.no <= f.no => g.no = e.no \/ g.no = f.no
        BY <2>1, <2>2
      <4> QED BY <2>1, <4>1 DEF Ordered
    <3>2. NoOverrideBetween(events[t], e, f)
      BY <2>2, <3>1 DEF NoOverrideBetween
    <3>3. ~\E g \in events[t] : e.no < g.no /\ g.no < f.no
      BY <2>1, <2>2
    <3> QED BY <2>1, <2>2, <3>2, <3>3 DEF Ordered
  <2> QED BY <2>2 DEF MayFollow, BillingInv, SuspensionInv
<1>2. Init => BillingInv
  BY SalesInit, TrailInit DEF BillingInv
<1>3. BillingInv /\ [Next]_vars => BillingInv'
  BY BillingStep
<1> QED BY <1>1, <1>2, <1>3, PTL DEF Spec

-----------------------------------------------------------------------------
(* Provisioning: what holds of the slug between any two steps *)

\* The undo chains a provisioning can hold, whole or partly rolled back.
Chains ==
    {<<>>, <<"tenant">>, <<"database">>, <<"tenant", "database">>,
     <<"database", "datastore">>, <<"tenant", "database", "datastore">>}

BuildCall ==
    [pc : {"create", "database", "fill", "record", "complete", "undo"},
     id : Nat, undo : Chains]
DeleteCall == [pc : {"drop", "unlink", "delete"}, id : Nat]
FleetCall == [pc : {"migrate", "stamp"}, id : Nat \ {0}, target : Nat]

Call == {NoCall} \cup BuildCall \cup DeleteCall \cup FleetCall

\* The chain each step of a provisioning has built.
ChainAt(c) ==
    /\ c.pc = "create" => c.undo = <<>>
    /\ c.pc = "database" => c.undo \in {<<>>, <<"tenant">>}
    /\ c.pc \in {"fill", "record"} =>
          c.undo \in {<<"database">>, <<"tenant", "database">>}
    /\ c.pc = "complete" =>
          c.undo \in {<<"database", "datastore">>, <<"tenant", "database", "datastore">>}

SlugTypes ==
    /\ tenant \in [id : Nat, status : Status]
    /\ datastore \in [id : Nat, version : Nat]
    /\ db \in [exists : BOOLEAN, version : Nat, data : SUBSET Nat]
    /\ release \in Nat \ {0}
    /\ op \in [Operator -> Call]
    /\ \A o \in Operator : ChainAt(op[o])
    /\ created \in Nat /\ faults \in Nat /\ dropped \subseteq Nat /\ clean \in BOOLEAN
    /\ \A o \in Operator : op[o].pc \in {"migrate", "stamp"} => op[o].target <= release

ChainBuilt(c) ==
    /\ c.pc \in {"database", "undo"} /\ c.undo = <<"tenant">> => ~db.exists
    /\ c.pc = "undo" /\ datastore.id # NoId =>
          c.undo \in {<<"database", "datastore">>, <<"tenant", "database", "datastore">>}
    /\ c.pc = "undo" /\ c.undo # <<>> => c.id = tenant.id

StageHolds(c) ==
    /\ c.pc = "create" => tenant.id = NoId
    /\ c.pc \in {"database", "fill", "record", "complete"} =>
          c.id = tenant.id /\ tenant.id # NoId
    /\ c.pc \in {"create", "database", "fill", "record"} => datastore.id = NoId
    /\ c.pc \in {"fill", "record", "complete"} => db.exists
    /\ c.pc = "record" => db.version >= 1
    /\ c.pc = "drop" => c.id = tenant.id
    /\ c.pc \in {"unlink", "delete"} => ~db.exists

MigratedAsListed(c) ==
    c.pc = "stamp" /\ db.exists
      /\ (datastore.id = c.id \/ \E b \in Operator : op[b].pc = "record")
        => c.target <= db.version

Tidy ==
    /\ \A a, b \in Building : a = b
    /\ tenant.id = NoId => ~db.exists
    /\ ~db.exists => db.data = {}
    /\ db.data \subseteq {tenant.id}
    /\ \A o \in Operator : ChainBuilt(op[o])
    /\ \A o \in Operator : StageHolds(op[o])
    /\ \A o \in Operator : MigratedAsListed(op[o])
    /\ datastore.id # NoId =>
          /\ db.exists \/ datastore.id \in dropped
          /\ db.exists => datastore.version <= db.version
SlugInv == SlugTypes /\ datastore.id \in {NoId, tenant.id} /\ (clean => Tidy)

LEMMA OneMore ==
    ASSUME NEW S, NEW s \in Seq(S), NEW t \in Seq(S),
           Len(t) = Len(s) + 1, \A i \in 1 .. Len(s) : t[i] = s[i]
    PROVE  Last(t) = t[Len(t)] /\ Front(t) = s /\ Append(s, t[Len(t)]) = t
  <1>1. Len(s) \in Nat /\ Len(t) \in Nat
    BY LenProperties
  <1>2. \A i \in 1 .. Len(t) : t[i] \in S
    BY LenProperties
  <1>3. Front(t) = s
    <2>1. /\ SubSeq(t, 1, Len(s)) \in Seq(S)
          /\ Len(SubSeq(t, 1, Len(s))) = Len(s)
          /\ \A i \in 1 .. Len(s) : SubSeq(t, 1, Len(s))[i] = t[i]
      BY <1>1, <1>2, SubSeqProperties
    <2>2. SubSeq(t, 1, Len(s)) = s
      BY <2>1, SeqEqual
    <2> QED BY <2>2, <1>1 DEF Front
  <1>4. Append(s, t[Len(t)]) = t
    <2>1. t[Len(t)] \in S
      BY <1>1, <1>2
    <2>2. /\ Append(s, t[Len(t)]) \in Seq(S)
          /\ Len(Append(s, t[Len(t)])) = Len(s) + 1
          /\ \A i \in 1 .. Len(s) : Append(s, t[Len(t)])[i] = s[i]
          /\ Append(s, t[Len(t)])[Len(s) + 1] = t[Len(t)]
      BY <2>1, AppendProperties
    <2>3. \A i \in 1 .. Len(t) : Append(s, t[Len(t)])[i] = t[i]
      BY <2>2, <1>1
    <2> QED BY <2>2, <2>3, SeqEqual
  <1> QED BY <1>3, <1>4 DEF Last


LEMMA ChainSteps ==
    /\ Append(<<>>, "database") = <<"database">>
    /\ Append(<<"tenant">>, "database") = <<"tenant", "database">>
    /\ Append(<<"database">>, "datastore") = <<"database", "datastore">>
    /\ Append(<<"tenant", "database">>, "datastore") =
          <<"tenant", "database", "datastore">>
    /\ Last(<<"tenant">>) = "tenant" /\ Front(<<"tenant">>) = <<>>
    /\ Last(<<"database">>) = "database" /\ Front(<<"database">>) = <<>>
    /\ Last(<<"tenant", "database">>) = "database"
    /\ Front(<<"tenant", "database">>) = <<"tenant">>
    /\ Last(<<"database", "datastore">>) = "datastore"
    /\ Front(<<"database", "datastore">>) = <<"database">>
    /\ Last(<<"tenant", "database", "datastore">>) = "datastore"
    /\ Front(<<"tenant", "database", "datastore">>) = <<"tenant", "database">>
  <1>1. /\ Last(<<"tenant">>) = "tenant" /\ Front(<<"tenant">>) = <<>>
        /\ Append(<<>>, "tenant") = <<"tenant">>
    <2> DEFINE s == <<>>
               t == <<"tenant">>
    <2>1. s \in Seq(Undo) /\ t \in Seq(Undo) /\ Len(t) = Len(s) + 1
      BY DEF Undo
    <2>2. \A i \in 1 .. Len(s) : t[i] = s[i]
      OBVIOUS
    <2>3. t[Len(t)] = "tenant"
      OBVIOUS
    <2> HIDE DEF s, t
    <2>4. Last(t) = t[Len(t)] /\ Front(t) = s /\ Append(s, t[Len(t)]) = t
      BY <2>1, <2>2, OneMore
    <2> QED BY <2>3, <2>4 DEF s, t
  <1>2. /\ Last(<<"database">>) = "database" /\ Front(<<"database">>) = <<>>
        /\ Append(<<>>, "database") = <<"database">>
    <2> DEFINE s == <<>>
               t == <<"database">>
    <2>1. s \in Seq(Undo) /\ t \in Seq(Undo) /\ Len(t) = Len(s) + 1
      BY DEF Undo
    <2>2. \A i \in 1 .. Len(s) : t[i] = s[i]
      OBVIOUS
    <2>3. t[Len(t)] = "database"
      OBVIOUS
    <2> HIDE DEF s, t
    <2>4. Last(t) = t[Len(t)] /\ Front(t) = s /\ Append(s, t[Len(t)]) = t
      BY <2>1, <2>2, OneMore
    <2> QED BY <2>3, <2>4 DEF s, t
  <1>3. /\ Last(<<"tenant", "database">>) = "database" /\ Front(<<"tenant", "database">>) = <<"tenant">>
        /\ Append(<<"tenant">>, "database") = <<"tenant", "database">>
    <2> DEFINE s == <<"tenant">>
               t == <<"tenant", "database">>
    <2>1. s \in Seq(Undo) /\ t \in Seq(Undo) /\ Len(t) = Len(s) + 1
      BY DEF Undo
    <2>2. \A i \in 1 .. Len(s) : t[i] = s[i]
      OBVIOUS
    <2>3. t[Len(t)] = "database"
      OBVIOUS
    <2> HIDE DEF s, t
    <2>4. Last(t) = t[Len(t)] /\ Front(t) = s /\ Append(s, t[Len(t)]) = t
      BY <2>1, <2>2, OneMore
    <2> QED BY <2>3, <2>4 DEF s, t
  <1>4. /\ Last(<<"database", "datastore">>) = "datastore" /\ Front(<<"database", "datastore">>) = <<"database">>
        /\ Append(<<"database">>, "datastore") = <<"database", "datastore">>
    <2> DEFINE s == <<"database">>
               t == <<"database", "datastore">>
    <2>1. s \in Seq(Undo) /\ t \in Seq(Undo) /\ Len(t) = Len(s) + 1
      BY DEF Undo
    <2>2. \A i \in 1 .. Len(s) : t[i] = s[i]
      OBVIOUS
    <2>3. t[Len(t)] = "datastore"
      OBVIOUS
    <2> HIDE DEF s, t
    <2>4. Last(t) = t[Len(t)] /\ Front(t) = s /\ Append(s, t[Len(t)]) = t
      BY <2>1, <2>2, OneMore
    <2> QED BY <2>3, <2>4 DEF s, t
  <1>5. /\ Last(<<"tenant", "database", "datastore">>) = "datastore" /\ Front(<<"tenant", "database", "datastore">>) = <<"tenant", "database">>
        /\ Append(<<"tenant", "database">>, "datastore") = <<"tenant", "database", "datastore">>
    <2> DEFINE s == <<"tenant", "database">>
               t == <<"tenant", "database", "datastore">>
    <2>1. s \in Seq(Undo) /\ t \in Seq(Undo) /\ Len(t) = Len(s) + 1
      BY DEF Undo
    <2>2. \A i \in 1 .. Len(s) : t[i] = s[i]
      OBVIOUS
    <2>3. t[Len(t)] = "datastore"
      OBVIOUS
    <2> HIDE DEF s, t
    <2>4. Last(t) = t[Len(t)] /\ Front(t) = s /\ Append(s, t[Len(t)]) = t
      BY <2>1, <2>2, OneMore
    <2> QED BY <2>3, <2>4 DEF s, t
  <1> QED BY <1>1, <1>2, <1>3, <1>4, <1>5

LEMMA ChainsDiffer ==
    /\ <<>> # <<"tenant">> /\ <<>> # <<"database">>
    /\ <<"tenant">> # <<"database">>
    /\ <<"tenant">> # <<"tenant", "database">>
    /\ <<"tenant">> # <<"database", "datastore">>
    /\ <<"tenant">> # <<"tenant", "database", "datastore">>
    /\ <<"database">> # <<"tenant", "database">>
    /\ <<"database">> # <<"database", "datastore">>
    /\ <<"database">> # <<"tenant", "database", "datastore">>
    /\ <<"tenant", "database">> # <<"database", "datastore">>
    /\ <<"tenant", "database">> # <<"tenant", "database", "datastore">>
    /\ <<"database", "datastore">> # <<"tenant", "database", "datastore">>
  OBVIOUS

LEMMA CallKinds ==
    ASSUME NEW c \in Call
    PROVE  /\ c.pc = "idle" => c = NoCall
           /\ c.pc \in {"create", "database", "fill", "record", "complete", "undo"} =>
                 c \in BuildCall
           /\ c.pc \in {"drop", "unlink", "delete"} => c \in DeleteCall
           /\ c.pc \in {"migrate", "stamp"} => c \in FleetCall
           /\ c.pc \in {"idle", "create", "database", "fill", "record", "complete",
                        "undo", "drop", "unlink", "delete", "migrate", "stamp"}
  <1>1. CASE c = NoCall
    BY <1>1 DEF NoCall
  <1>2. CASE c \in BuildCall
    BY <1>2 DEF BuildCall
  <1>3. CASE c \in DeleteCall
    BY <1>3 DEF DeleteCall
  <1>4. CASE c \in FleetCall
    BY <1>4 DEF FleetCall
  <1> QED BY <1>1, <1>2, <1>3, <1>4 DEF Call

\* What one operator's step does to the calls under way.
LEMMA CallStep ==
    ASSUME op \in [Operator -> Call], NEW o \in Operator, NEW s \in Call, Becomes(o, s)
    PROVE  /\ op' \in [Operator -> Call] /\ op'[o] = s
           /\ \A p \in Operator \ {o} : op'[p] = op[p]
  BY DEF Becomes

LEMMA BuildMoves ==
    ASSUME NEW c \in BuildCall,
           NEW pc \in {"create", "database", "fill", "record", "complete", "undo"}
    PROVE  \E s \in BuildCall :
              /\ s = [c EXCEPT !.pc = pc]
              /\ s.pc = pc /\ s.id = c.id /\ s.undo = c.undo
  <1> DEFINE s == [c EXCEPT !.pc = pc]
  <1>1. s \in BuildCall
    BY DEF BuildCall
  <1>2. s.pc = pc /\ s.id = c.id
    BY DEF BuildCall
  <1>3. s.undo = c.undo
    BY DEF BuildCall
  <1> QED BY <1>1, <1>2, <1>3

LEMMA BuildShrinks ==
    ASSUME NEW c \in BuildCall,
           NEW u \in Chains
    PROVE  \E s \in BuildCall :
              /\ s = [c EXCEPT !.undo = u]
              /\ s.pc = c.pc /\ s.id = c.id /\ s.undo = u
  <1> DEFINE s == [c EXCEPT !.undo = u]
  <1>1. s \in BuildCall
    BY DEF BuildCall
  <1>2. s.pc = c.pc /\ s.id = c.id
    BY DEF BuildCall
  <1>3. s.undo = u
    BY DEF BuildCall
  <1> QED BY <1>1, <1>2, <1>3

LEMMA CallsKept ==
    ASSUME SlugTypes, NEW o \in Operator, NEW s \in Call, Becomes(o, s),
           ChainAt(s), s.pc \in {"migrate", "stamp"} => s.target <= release,
           release' = release
    PROVE  /\ (op \in [Operator -> Call])'
           /\ (\A p \in Operator : ChainAt(op[p]))'
           /\ (\A p \in Operator :
                  op[p].pc \in {"migrate", "stamp"} => op[p].target <= release)'
           /\ op'[o] = s
           /\ \A p \in Operator \ {o} : op'[p] = op[p]
  <1>1. /\ op' \in [Operator -> Call] /\ op'[o] = s
        /\ \A p \in Operator \ {o} : op'[p] = op[p]
    BY CallStep DEF SlugTypes
  <1>2. ASSUME NEW p \in Operator PROVE ChainAt(op[p])'
    BY <1>1 DEF SlugTypes, ChainAt
  <1>3. ASSUME NEW p \in Operator
        PROVE  (op[p].pc \in {"migrate", "stamp"} => op[p].target <= release)'
    BY <1>1 DEF SlugTypes
  <1> QED BY <1>1, <1>2, <1>3

\* The one call that builds or deletes decides what Tidy says of every call.
LEMMA OnlyOne ==
    ASSUME op \in [Operator -> Call], NEW o \in Operator, NEW s \in Call, Becomes(o, s),
           \A p \in Operator \ {o} : op[p].pc \in {"idle", "migrate", "stamp"},
           ChainBuilt(s)', StageHolds(s)'
    PROVE  /\ (\A a, b \in Building : a = b)'
           /\ (\A p \in Operator : ChainBuilt(op[p]))'
           /\ (\A p \in Operator : StageHolds(op[p]))'
  <1>1. op'[o] = s /\ \A p \in Operator \ {o} : op'[p] = op[p]
    BY CallStep
  <1>2. \A p \in Operator \ {o} : op'[p].pc \in {"idle", "migrate", "stamp"}
    BY <1>1
  <1>3. (\A a, b \in Building : a = b)'
    BY <1>2 DEF Building
  <1>4. ASSUME NEW p \in Operator PROVE ChainBuilt(op[p])'
    BY <1>1, <1>2 DEF ChainBuilt
  <1>5. ASSUME NEW p \in Operator PROVE StageHolds(op[p])'
    BY <1>1, <1>2 DEF StageHolds
  <1> QED BY <1>3, <1>4, <1>5

LEMMA NoCallKept ==
    NoCall \in Call /\ ChainAt(NoCall) /\ NoCall.pc = "idle"
  BY DEF NoCall, Call, ChainAt

LEMMA OthersWait ==
    ASSUME SlugTypes, Tidy, NEW o \in Building
    PROVE  \A p \in Operator \ {o} : op[p].pc \in {"idle", "migrate", "stamp"}
  BY DEF Tidy, Building

LEMMA NobodyBuilds ==
    ASSUME Building = {}
    PROVE  \A p \in Operator : op[p].pc \in {"idle", "migrate", "stamp"}
  BY DEF Building

LEMMA StartProvisionKeeps ==
    ASSUME SlugInv, NEW o \in Operator, StartProvision(o)
    PROVE  SlugInv'
  <1>1. PICK s \in BuildCall :
          /\ s.pc = (IF tenant.id = NoId THEN "create" ELSE "database")
          /\ s.id = tenant.id /\ s.undo = <<>> /\ Becomes(o, s)
    <2> DEFINE s == [pc |-> IF tenant.id = NoId THEN "create" ELSE "database",
                     id |-> tenant.id, undo |-> <<>>]
    <2>1. s \in BuildCall
      BY DEF BuildCall, SlugInv, SlugTypes, Chains
    <2>2. Becomes(o, s)
      BY DEF StartProvision
    <2> QED BY <2>1, <2>2
  <1>2. /\ tenant' = tenant /\ datastore' = datastore /\ db' = db /\ release' = release
        /\ created' = created /\ faults' = faults /\ dropped' = dropped
        /\ clean' = (clean /\ Building = {})
        /\ tenant.id = NoId \/ datastore.id = NoId
    BY DEF StartProvision
  <1>3. op \in [Operator -> Call] /\ s \in Call
    BY DEF SlugInv, SlugTypes, Call
  <1>4. /\ (op \in [Operator -> Call])'
        /\ (\A p \in Operator : ChainAt(op[p]))'
        /\ (\A p \in Operator :
               op[p].pc \in {"migrate", "stamp"} => op[p].target <= release)'
        /\ op'[o] = s /\ \A p \in Operator \ {o} : op'[p] = op[p]
    <2>1. ChainAt(s) /\ s.pc \notin {"migrate", "stamp"}
      BY <1>1 DEF ChainAt
    <2> QED BY <1>1, <1>2, <1>3, <2>1, CallsKept DEF SlugInv
  <1>5. SlugTypes'
    BY <1>2, <1>4 DEF SlugInv, SlugTypes
  <1>6. (datastore.id \in {NoId, tenant.id})'
    BY <1>2 DEF SlugInv
  <1>7. ASSUME clean' PROVE Tidy'
    <2>1. clean /\ Building = {} /\ Tidy
      BY <1>7, <1>2 DEF SlugInv, SlugTypes
    <2>2. \A p \in Operator : op[p].pc \in {"idle", "migrate", "stamp"}
      BY <2>1, NobodyBuilds
    <2>3. datastore.id = NoId
      BY <1>2 DEF SlugInv
    <2>4. ChainBuilt(s)'
      BY <1>1, ChainsDiffer DEF ChainBuilt
    <2>5. StageHolds(s)'
      BY <1>1, <1>2, <2>3 DEF StageHolds
    <2>6. /\ (\A a, b \in Building : a = b)'
          /\ (\A p \in Operator : ChainBuilt(op[p]))'
          /\ (\A p \in Operator : StageHolds(op[p]))'
      BY <1>1, <1>3, <2>2, <2>4, <2>5, OnlyOne
    <2>7. (\A p \in Operator : MigratedAsListed(op[p]))'
      BY <1>1, <1>2, <1>4, <2>1, <2>2 DEF MigratedAsListed, Tidy
    <2> QED BY <1>2, <2>1, <2>6, <2>7 DEF Tidy
  <1> QED BY <1>5, <1>6, <1>7 DEF SlugInv

LEMMA CreateTenantKeeps ==
    ASSUME SlugInv, NEW o \in Operator, CreateTenant(o)
    PROVE  SlugInv'
  <1>1. /\ datastore' = datastore /\ db' = db /\ release' = release
        /\ faults' = faults /\ dropped' = dropped /\ clean' = clean
        /\ op[o].pc = "create"
    BY DEF CreateTenant, At
  <1>2. op \in [Operator -> Call] /\ o \in Building
    BY <1>1 DEF SlugInv, SlugTypes, Building
  <1>3. CASE tenant.id = NoId
    <2>1. PICK s \in BuildCall :
            /\ s.pc = "database" /\ s.undo = <<"tenant">> /\ s.id = created + 1
            /\ Becomes(o, s)
      <3> DEFINE s == [pc |-> "database", id |-> created + 1, undo |-> <<"tenant">>]
      <3>1. s \in BuildCall
        BY DEF BuildCall, SlugInv, SlugTypes, Chains
      <3>2. Becomes(o, s)
        BY <1>3 DEF CreateTenant
      <3> QED BY <3>1, <3>2
    <2>2. tenant' = [id |-> created + 1, status |-> "TRIAL"] /\ created' = created + 1
      BY <1>3 DEF CreateTenant
    <2>3. s \in Call
      BY DEF Call
    <2>4. /\ (op \in [Operator -> Call])'
          /\ (\A p \in Operator : ChainAt(op[p]))'
          /\ (\A p \in Operator :
                 op[p].pc \in {"migrate", "stamp"} => op[p].target <= release)'
          /\ op'[o] = s /\ \A p \in Operator \ {o} : op'[p] = op[p]
      <3>1. ChainAt(s) /\ s.pc \notin {"migrate", "stamp"}
        BY <2>1 DEF ChainAt
      <3> QED BY <1>1, <2>1, <2>3, <3>1, CallsKept DEF SlugInv
    <2>5. created \in Nat
      BY DEF SlugInv, SlugTypes
    <2>6. SlugTypes'
      <3>1. tenant' \in [id : Nat, status : Status]
        BY <2>2, <2>5 DEF Status
      <3> QED BY <1>1, <2>2, <2>4, <2>5, <3>1 DEF SlugInv, SlugTypes
    <2>7. datastore.id = NoId
      BY <1>3 DEF SlugInv
    <2>8. ASSUME clean' PROVE Tidy'
      <3>1. clean /\ Tidy
        BY <1>1, <2>8 DEF SlugInv
      <3>2. \A p \in Operator \ {o} : op[p].pc \in {"idle", "migrate", "stamp"}
        BY <1>2, <3>1, OthersWait DEF SlugInv
      <3>3. ~db.exists /\ db.data = {}
        BY <1>3, <3>1 DEF Tidy
      <3>4. ChainBuilt(s)'
        BY <1>1, <2>1, <3>3 DEF ChainBuilt
      <3>5. StageHolds(s)'
        BY <1>1, <2>1, <2>2, <2>5, <2>7 DEF StageHolds, NoId
      <3>6. /\ (\A a, b \in Building : a = b)'
            /\ (\A p \in Operator : ChainBuilt(op[p]))'
            /\ (\A p \in Operator : StageHolds(op[p]))'
        BY <1>2, <2>1, <2>3, <3>2, <3>4, <3>5, OnlyOne
      <3>7. (\A p \in Operator : MigratedAsListed(op[p]))'
        BY <1>1, <3>3 DEF MigratedAsListed
      <3> QED BY <1>1, <2>7, <3>3, <3>6, <3>7 DEF Tidy
    <2> QED BY <1>1, <2>6, <2>7, <2>8 DEF SlugInv
  <1>4. CASE tenant.id # NoId
    <2>1. Becomes(o, NoCall) /\ tenant' = tenant /\ created' = created
      BY <1>4 DEF CreateTenant
    <2>2. /\ (op \in [Operator -> Call])'
          /\ (\A p \in Operator : ChainAt(op[p]))'
          /\ (\A p \in Operator :
                 op[p].pc \in {"migrate", "stamp"} => op[p].target <= release)'
          /\ op'[o] = NoCall /\ \A p \in Operator \ {o} : op'[p] = op[p]
      BY <1>1, <2>1, NoCallKept, CallsKept DEF SlugInv
    <2>3. SlugTypes'
      BY <1>1, <2>1, <2>2 DEF SlugInv, SlugTypes
    <2>4. ~clean
      BY <1>1, <1>4 DEF SlugInv, Tidy, StageHolds
    <2> QED BY <1>1, <2>1, <2>3, <2>4 DEF SlugInv
  <1> QED BY <1>3, <1>4

LEMMA CreateDatabaseKeeps ==
    ASSUME SlugInv, NEW o \in Operator, CreateDatabase(o)
    PROVE  SlugInv'
  <1>1. /\ tenant' = tenant /\ datastore' = datastore /\ release' = release /\ created' = created
        /\ faults' = faults /\ dropped' = dropped /\ clean' = clean
        /\ db' = [db EXCEPT !.exists = TRUE]
        /\ op[o].pc = "database"
    BY DEF CreateDatabase, At, ghosts
  <1>2. op[o] \in BuildCall /\ o \in Building /\ ChainAt(op[o])
    <2>1. op[o] \in Call /\ ChainAt(op[o])
      BY DEF SlugInv, SlugTypes
    <2>2. op[o] \in BuildCall
      BY <1>1, <2>1, CallKinds
    <2> QED BY <1>1, <2>1, <2>2 DEF Building
  <1>3. PICK s \in BuildCall :
          /\ s.pc = "fill" /\ s.id = op[o].id /\ s.undo = Append(op[o].undo, "database")
          /\ Becomes(o, s)
    <2>1. PICK u \in Chains : u = Append(op[o].undo, "database")
      BY <1>1, <1>2, ChainSteps DEF ChainAt, Chains
    <2>2. Becomes(o, [op[o] EXCEPT !.pc = "fill", !.undo = u])
      BY <2>1 DEF CreateDatabase
    <2>3. PICK c \in BuildCall : c = op[o]
      BY <1>2
    <2> DEFINE s == [c EXCEPT !.pc = "fill", !.undo = u]
    <2>4. s \in BuildCall
      BY DEF BuildCall
    <2>5. s.pc = "fill" /\ s.id = c.id /\ s.undo = u
      BY DEF BuildCall
    <2>6. Becomes(o, s)
      BY <2>2, <2>3
    <2> HIDE DEF s
    <2> QED BY <2>1, <2>3, <2>4, <2>5, <2>6
  <1>4. /\ (op \in [Operator -> Call])'
        /\ (\A p \in Operator : ChainAt(op[p]))'
        /\ (\A p \in Operator :
               op[p].pc \in {"migrate", "stamp"} => op[p].target <= release)'
        /\ op'[o] = s /\ \A p \in Operator \ {o} : op'[p] = op[p]
    <2>1. ChainAt(s) /\ s.pc \notin {"migrate", "stamp"} /\ s \in Call
      BY <1>1, <1>2, <1>3, ChainSteps DEF ChainAt, Call
    <2> QED BY <1>1, <1>3, <2>1, CallsKept DEF SlugInv
  <1>8. /\ db' \in [exists : BOOLEAN, version : Nat, data : SUBSET Nat]
        /\ db'.exists /\ db'.version = db.version /\ db'.data = db.data
    BY <1>1 DEF SlugInv, SlugTypes
  <1>5. SlugTypes'
    BY <1>1, <1>4, <1>8 DEF SlugInv, SlugTypes
  <1>6. (datastore.id \in {NoId, tenant.id})'
    BY <1>1 DEF SlugInv
  <1>7. ASSUME clean' PROVE Tidy'
    <2>1. clean /\ Tidy
      BY <1>1, <1>7 DEF SlugInv
    <2>2. \A p \in Operator \ {o} : op[p].pc \in {"idle", "migrate", "stamp"}
      BY <1>2, <2>1, OthersWait DEF SlugInv
    <2>3. ChainBuilt(op[o]) /\ StageHolds(op[o])
      BY <2>1 DEF Tidy
    <2>4. s \in Call /\ op \in [Operator -> Call]
      BY <1>3 DEF Call, SlugInv, SlugTypes
    <2>5. datastore.id = NoId /\ op[o].id = tenant.id /\ tenant.id # NoId
      BY <1>1, <2>3 DEF StageHolds
    <2>6. ChainBuilt(s)'
      BY <1>3 DEF ChainBuilt
    <2>7. StageHolds(s)'
      BY <1>1, <1>3, <1>8, <2>5 DEF StageHolds
    <2>8. /\ (\A a, b \in Building : a = b)'
          /\ (\A p \in Operator : ChainBuilt(op[p]))'
          /\ (\A p \in Operator : StageHolds(op[p]))'
      BY <1>3, <2>2, <2>4, <2>6, <2>7, OnlyOne
    <2>9. (\A p \in Operator : MigratedAsListed(op[p]))'
      <3>1. \A p \in Operator : op'[p].pc # "record"
        BY <1>3, <1>4, <2>2
      <3>2. ASSUME NEW p \in Operator, op'[p].pc = "stamp" PROVE op'[p].id # NoId
        BY <1>4, <3>2, CallKinds DEF FleetCall, NoId
      <3> QED BY <1>1, <2>5, <3>1, <3>2 DEF MigratedAsListed
    <2> QED BY <1>1, <1>8, <2>1, <2>5, <2>8, <2>9 DEF Tidy
  <1> QED BY <1>5, <1>6, <1>7 DEF SlugInv

LEMMA FillDatabaseKeeps ==
    ASSUME SlugInv, NEW o \in Operator, FillDatabase(o)
    PROVE  SlugInv'
  <1>1. /\ tenant' = tenant /\ datastore' = datastore /\ release' = release /\ created' = created
        /\ faults' = faults /\ dropped' = dropped /\ clean' = clean
        /\ db' = [db EXCEPT !.version = release, !.data = @ \cup {op[o].id}]
        /\ db.exists /\ tenant.id = op[o].id
        /\ op[o].pc = "fill"
    BY DEF FillDatabase, At, ghosts
  <1>2. op[o] \in BuildCall /\ o \in Building /\ ChainAt(op[o])
    <2>1. op[o] \in Call /\ ChainAt(op[o])
      BY DEF SlugInv, SlugTypes
    <2>2. op[o] \in BuildCall
      BY <1>1, <2>1, CallKinds
    <2> QED BY <1>1, <2>1, <2>2 DEF Building
  <1>3. PICK s \in BuildCall :
          /\ s.pc = "record" /\ s.id = op[o].id /\ s.undo = op[o].undo
          /\ Becomes(o, s)
    <2>1. Becomes(o, [op[o] EXCEPT !.pc = "record"])
      BY DEF FillDatabase, Moves
    <2>2. PICK s \in BuildCall :
            /\ s = [op[o] EXCEPT !.pc = "record"]
            /\ s.pc = "record" /\ s.id = op[o].id /\ s.undo = op[o].undo
      BY <1>2, BuildMoves
    <2> QED BY <2>1, <2>2
  <1>4. /\ (op \in [Operator -> Call])'
        /\ (\A p \in Operator : ChainAt(op[p]))'
        /\ (\A p \in Operator :
               op[p].pc \in {"migrate", "stamp"} => op[p].target <= release)'
        /\ op'[o] = s /\ \A p \in Operator \ {o} : op'[p] = op[p]
    <2>1. ChainAt(s) /\ s.pc \notin {"migrate", "stamp"} /\ s \in Call
      BY <1>1, <1>2, <1>3, ChainSteps DEF ChainAt, Call
    <2> QED BY <1>1, <1>3, <2>1, CallsKept DEF SlugInv
  <1>8. /\ db' \in [exists : BOOLEAN, version : Nat, data : SUBSET Nat]
        /\ db'.exists /\ db'.version = release
        /\ db'.data = db.data \cup {op[o].id}
    <2>1. op[o].id \in Nat
      BY <1>2 DEF BuildCall
    <2>2. db' \in [exists : BOOLEAN, version : Nat, data : SUBSET Nat]
      BY <1>1, <2>1 DEF SlugInv, SlugTypes
    <2>3. db'.exists /\ db'.version = release
      BY <1>1 DEF SlugInv, SlugTypes
    <2>4. db'.data = db.data \cup {op[o].id}
      BY <1>1 DEF SlugInv, SlugTypes
    <2> QED BY <2>2, <2>3, <2>4
  <1>5. SlugTypes'
    BY <1>1, <1>4, <1>8 DEF SlugInv, SlugTypes
  <1>6. (datastore.id \in {NoId, tenant.id})'
    BY <1>1 DEF SlugInv
  <1>7. ASSUME clean' PROVE Tidy'
    <2>1. clean /\ Tidy
      BY <1>1, <1>7 DEF SlugInv
    <2>2. \A p \in Operator \ {o} : op[p].pc \in {"idle", "migrate", "stamp"}
      BY <1>2, <2>1, OthersWait DEF SlugInv
    <2>3. ChainBuilt(op[o]) /\ StageHolds(op[o])
      BY <2>1 DEF Tidy
    <2>4. s \in Call /\ op \in [Operator -> Call]
      BY <1>3 DEF Call, SlugInv, SlugTypes
    <2>5. datastore.id = NoId /\ op[o].id = tenant.id /\ tenant.id # NoId
      BY <1>1, <2>3 DEF StageHolds
    <2>6. ChainBuilt(s)'
      BY <1>1, <1>3, <1>8 DEF ChainBuilt
    <2>7. StageHolds(s)'
      BY <1>1, <1>3, <1>8, <2>5 DEF StageHolds, SlugInv, SlugTypes
    <2>8. /\ (\A a, b \in Building : a = b)'
          /\ (\A p \in Operator : ChainBuilt(op[p]))'
          /\ (\A p \in Operator : StageHolds(op[p]))'
      BY <1>3, <2>2, <2>4, <2>6, <2>7, OnlyOne
    <2>9. (\A p \in Operator : MigratedAsListed(op[p]))'
      BY <1>1, <1>4, <1>8 DEF MigratedAsListed
    <2> QED BY <1>1, <1>8, <2>1, <2>5, <2>8, <2>9 DEF Tidy
  <1> QED BY <1>5, <1>6, <1>7 DEF SlugInv

LEMMA RecordDatastoreKeeps ==
    ASSUME SlugInv, NEW o \in Operator, RecordDatastore(o)
    PROVE  SlugInv'
  <1>1. /\ tenant' = tenant /\ db' = db /\ release' = release /\ created' = created
        /\ faults' = faults /\ dropped' = dropped /\ clean' = clean
        /\ datastore' = [id |-> op[o].id, version |-> 1]
        /\ tenant.id = op[o].id /\ datastore.id = NoId
        /\ op[o].pc = "record"
    BY DEF RecordDatastore, At, ghosts
  <1>2. op[o] \in BuildCall /\ o \in Building /\ ChainAt(op[o])
    <2>1. op[o] \in Call /\ ChainAt(op[o])
      BY DEF SlugInv, SlugTypes
    <2>2. op[o] \in BuildCall
      BY <1>1, <2>1, CallKinds
    <2> QED BY <1>1, <2>1, <2>2 DEF Building
  <1>3. PICK s \in BuildCall :
          /\ s.pc = "complete" /\ s.id = op[o].id /\ s.undo = Append(op[o].undo, "datastore")
          /\ Becomes(o, s)
    <2>1. PICK u \in Chains : u = Append(op[o].undo, "datastore")
      BY <1>1, <1>2, ChainSteps DEF ChainAt, Chains
    <2>2. Becomes(o, [op[o] EXCEPT !.pc = "complete", !.undo = u])
      BY <2>1 DEF RecordDatastore
    <2>3. PICK c \in BuildCall : c = op[o]
      BY <1>2
    <2> DEFINE s == [c EXCEPT !.pc = "complete", !.undo = u]
    <2>4. s \in BuildCall
      BY DEF BuildCall
    <2>5. s.pc = "complete" /\ s.id = c.id /\ s.undo = u
      BY DEF BuildCall
    <2>6. Becomes(o, s)
      BY <2>2, <2>3
    <2> HIDE DEF s
    <2> QED BY <2>1, <2>3, <2>4, <2>5, <2>6
  <1>4. /\ (op \in [Operator -> Call])'
        /\ (\A p \in Operator : ChainAt(op[p]))'
        /\ (\A p \in Operator :
               op[p].pc \in {"migrate", "stamp"} => op[p].target <= release)'
        /\ op'[o] = s /\ \A p \in Operator \ {o} : op'[p] = op[p]
    <2>1. ChainAt(s) /\ s.pc \notin {"migrate", "stamp"} /\ s \in Call
      BY <1>1, <1>2, <1>3, ChainSteps DEF ChainAt, Call
    <2> QED BY <1>1, <1>3, <2>1, CallsKept DEF SlugInv
  <1>8. datastore' \in [id : Nat, version : Nat]
    <2>1. op[o].id \in Nat
      BY <1>2 DEF BuildCall
    <2> QED BY <1>1, <2>1
  <1>5. SlugTypes'
    BY <1>1, <1>4, <1>8 DEF SlugInv, SlugTypes
  <1>6. (datastore.id \in {NoId, tenant.id})'
    BY <1>1 DEF SlugInv
  <1>7. ASSUME clean' PROVE Tidy'
    <2>1. clean /\ Tidy
      BY <1>1, <1>7 DEF SlugInv
    <2>2. \A p \in Operator \ {o} : op[p].pc \in {"idle", "migrate", "stamp"}
      BY <1>2, <2>1, OthersWait DEF SlugInv
    <2>3. ChainBuilt(op[o]) /\ StageHolds(op[o])
      BY <2>1 DEF Tidy
    <2>4. s \in Call /\ op \in [Operator -> Call]
      BY <1>3 DEF Call, SlugInv, SlugTypes
    <2>5. db.exists /\ db.version >= 1 /\ op[o].id = tenant.id /\ tenant.id # NoId
      BY <1>1, <2>3 DEF StageHolds
    <2>6. ChainBuilt(s)'
      BY <1>3 DEF ChainBuilt
    <2>7. StageHolds(s)'
      BY <1>1, <1>3, <2>5 DEF StageHolds
    <2>8. /\ (\A a, b \in Building : a = b)'
          /\ (\A p \in Operator : ChainBuilt(op[p]))'
          /\ (\A p \in Operator : StageHolds(op[p]))'
      BY <1>3, <2>2, <2>4, <2>6, <2>7, OnlyOne
    <2>9. (\A p \in Operator : MigratedAsListed(op[p]))'
      <3>1. ASSUME NEW p \in Operator, op'[p].pc = "stamp" PROVE op'[p].target <= db'.version
        <4>1. p # o /\ op'[p] = op[p]
          BY <1>3, <1>4, <3>1
        <4> QED BY <1>1, <2>1, <2>5, <3>1, <4>1 DEF Tidy, MigratedAsListed
      <3> QED BY <3>1 DEF MigratedAsListed
    <2> QED BY <1>1, <2>1, <2>5, <2>8, <2>9 DEF Tidy, SlugInv, SlugTypes
  <1> QED BY <1>5, <1>6, <1>7 DEF SlugInv

LEMMA CompleteKeeps ==
    ASSUME SlugInv, NEW o \in Operator, Complete(o)
    PROVE  SlugInv'
  <1>1. /\ tenant' = tenant /\ datastore' = datastore /\ db' = db /\ release' = release
        /\ created' = created /\ faults' = faults /\ dropped' = dropped /\ clean' = clean
        /\ op[o].pc = "complete"
    BY DEF Complete, At, ghosts
  <1>2. op[o] \in BuildCall /\ o \in Building /\ ChainAt(op[o])
    <2>1. op[o] \in Call /\ ChainAt(op[o])
      BY DEF SlugInv, SlugTypes
    <2>2. op[o] \in BuildCall
      BY <1>1, <2>1, CallKinds
    <2> QED BY <1>1, <2>1, <2>2 DEF Building
  <1>3. PICK s \in Call :
          /\ s = NoCall /\ s.pc = "idle" /\ Becomes(o, s)
    BY NoCallKept DEF Complete
  <1>4. /\ (op \in [Operator -> Call])'
        /\ (\A p \in Operator : ChainAt(op[p]))'
        /\ (\A p \in Operator :
               op[p].pc \in {"migrate", "stamp"} => op[p].target <= release)'
        /\ op'[o] = s /\ \A p \in Operator \ {o} : op'[p] = op[p]
    <2>1. ChainAt(s) /\ s.pc \notin {"migrate", "stamp"} /\ s \in Call
      BY <1>1, <1>2, <1>3, ChainSteps DEF ChainAt, Call
    <2> QED BY <1>1, <1>3, <2>1, CallsKept DEF SlugInv
  <1>5. SlugTypes'
    BY <1>1, <1>4 DEF SlugInv, SlugTypes
  <1>6. (datastore.id \in {NoId, tenant.id})'
    BY <1>1 DEF SlugInv
  <1>7. ASSUME clean' PROVE Tidy'
    <2>1. clean /\ Tidy
      BY <1>1, <1>7 DEF SlugInv
    <2>2. \A p \in Operator \ {o} : op[p].pc \in {"idle", "migrate", "stamp"}
      BY <1>2, <2>1, OthersWait DEF SlugInv
    <2>3. ChainBuilt(op[o]) /\ StageHolds(op[o])
      BY <2>1 DEF Tidy
    <2>4. s \in Call /\ op \in [Operator -> Call]
      BY <1>3 DEF Call, SlugInv, SlugTypes
    <2>6. ChainBuilt(s)'
      BY <1>3 DEF ChainBuilt
    <2>7. StageHolds(s)'
      BY <1>3 DEF StageHolds
    <2>8. /\ (\A a, b \in Building : a = b)'
          /\ (\A p \in Operator : ChainBuilt(op[p]))'
          /\ (\A p \in Operator : StageHolds(op[p]))'
      BY <1>3, <2>2, <2>4, <2>6, <2>7, OnlyOne
    <2>9. (\A p \in Operator : MigratedAsListed(op[p]))'
      BY <1>1, <1>3, <1>4, <2>1 DEF Tidy, MigratedAsListed
    <2> QED BY <1>1, <2>1, <2>8, <2>9 DEF Tidy
  <1> QED BY <1>5, <1>6, <1>7 DEF SlugInv

LEMMA ThrowKeeps ==
    ASSUME SlugInv, NEW o \in Operator, Throw(o)
    PROVE  SlugInv'
  <1>1. /\ tenant' = tenant /\ datastore' = datastore /\ db' = db /\ release' = release
        /\ created' = created /\ dropped' = dropped /\ clean' = clean
        /\ faults' \in Nat
        /\ op[o].pc \in {"database", "fill", "record", "complete"}
    BY DEF Throw, At, SlugInv, SlugTypes, Fault
  <1>2. op[o] \in BuildCall /\ o \in Building /\ ChainAt(op[o])
    <2>1. op[o] \in Call /\ ChainAt(op[o])
      BY DEF SlugInv, SlugTypes
    <2>2. op[o] \in BuildCall
      BY <1>1, <2>1, CallKinds
    <2> QED BY <1>1, <2>1, <2>2 DEF Building
  <1>3. PICK s \in BuildCall :
          /\ s.pc = "undo" /\ s.id = op[o].id /\ s.undo = op[o].undo
          /\ Becomes(o, s)
    <2>1. Becomes(o, [op[o] EXCEPT !.pc = "undo"])
      BY DEF Throw, Moves
    <2>2. PICK s \in BuildCall :
            /\ s = [op[o] EXCEPT !.pc = "undo"]
            /\ s.pc = "undo" /\ s.id = op[o].id /\ s.undo = op[o].undo
      BY <1>2, BuildMoves
    <2> QED BY <2>1, <2>2
  <1>4. /\ (op \in [Operator -> Call])'
        /\ (\A p \in Operator : ChainAt(op[p]))'
        /\ (\A p \in Operator :
               op[p].pc \in {"migrate", "stamp"} => op[p].target <= release)'
        /\ op'[o] = s /\ \A p \in Operator \ {o} : op'[p] = op[p]
    <2>1. ChainAt(s) /\ s.pc \notin {"migrate", "stamp"} /\ s \in Call
      BY <1>1, <1>2, <1>3, ChainSteps DEF ChainAt, Call
    <2> QED BY <1>1, <1>3, <2>1, CallsKept DEF SlugInv
  <1>5. SlugTypes'
    BY <1>1, <1>4 DEF SlugInv, SlugTypes
  <1>6. (datastore.id \in {NoId, tenant.id})'
    BY <1>1 DEF SlugInv
  <1>7. ASSUME clean' PROVE Tidy'
    <2>1. clean /\ Tidy
      BY <1>1, <1>7 DEF SlugInv
    <2>2. \A p \in Operator \ {o} : op[p].pc \in {"idle", "migrate", "stamp"}
      BY <1>2, <2>1, OthersWait DEF SlugInv
    <2>3. ChainBuilt(op[o]) /\ StageHolds(op[o])
      BY <2>1 DEF Tidy
    <2>4. s \in Call /\ op \in [Operator -> Call]
      BY <1>3 DEF Call, SlugInv, SlugTypes
    <2>6. ChainBuilt(s)'
      BY <1>1, <1>2, <1>3, <2>3, ChainsDiffer DEF ChainBuilt, StageHolds, ChainAt
    <2>7. StageHolds(s)'
      BY <1>3 DEF StageHolds
    <2>8. /\ (\A a, b \in Building : a = b)'
          /\ (\A p \in Operator : ChainBuilt(op[p]))'
          /\ (\A p \in Operator : StageHolds(op[p]))'
      BY <1>3, <2>2, <2>4, <2>6, <2>7, OnlyOne
    <2>9. (\A p \in Operator : MigratedAsListed(op[p]))'
      BY <1>1, <1>3, <1>4, <2>1 DEF Tidy, MigratedAsListed
    <2> QED BY <1>1, <2>1, <2>8, <2>9 DEF Tidy
  <1> QED BY <1>5, <1>6, <1>7 DEF SlugInv

LEMMA RolledBackKeeps ==
    ASSUME SlugInv, NEW o \in Operator, RolledBack(o)
    PROVE  SlugInv'
  <1>1. /\ tenant' = tenant /\ datastore' = datastore /\ db' = db /\ release' = release
        /\ created' = created /\ faults' = faults /\ dropped' = dropped /\ clean' = clean
        /\ op[o].pc = "undo"
    BY DEF RolledBack, At, ghosts
  <1>2. op[o] \in BuildCall /\ o \in Building /\ ChainAt(op[o])
    <2>1. op[o] \in Call /\ ChainAt(op[o])
      BY DEF SlugInv, SlugTypes
    <2>2. op[o] \in BuildCall
      BY <1>1, <2>1, CallKinds
    <2> QED BY <1>1, <2>1, <2>2 DEF Building
  <1>3. PICK s \in Call :
          /\ s = NoCall /\ s.pc = "idle" /\ Becomes(o, s)
    BY NoCallKept DEF RolledBack
  <1>4. /\ (op \in [Operator -> Call])'
        /\ (\A p \in Operator : ChainAt(op[p]))'
        /\ (\A p \in Operator :
               op[p].pc \in {"migrate", "stamp"} => op[p].target <= release)'
        /\ op'[o] = s /\ \A p \in Operator \ {o} : op'[p] = op[p]
    <2>1. ChainAt(s) /\ s.pc \notin {"migrate", "stamp"} /\ s \in Call
      BY <1>1, <1>2, <1>3, ChainSteps DEF ChainAt, Call
    <2> QED BY <1>1, <1>3, <2>1, CallsKept DEF SlugInv
  <1>5. SlugTypes'
    BY <1>1, <1>4 DEF SlugInv, SlugTypes
  <1>6. (datastore.id \in {NoId, tenant.id})'
    BY <1>1 DEF SlugInv
  <1>7. ASSUME clean' PROVE Tidy'
    <2>1. clean /\ Tidy
      BY <1>1, <1>7 DEF SlugInv
    <2>2. \A p \in Operator \ {o} : op[p].pc \in {"idle", "migrate", "stamp"}
      BY <1>2, <2>1, OthersWait DEF SlugInv
    <2>3. ChainBuilt(op[o]) /\ StageHolds(op[o])
      BY <2>1 DEF Tidy
    <2>4. s \in Call /\ op \in [Operator -> Call]
      BY <1>3 DEF Call, SlugInv, SlugTypes
    <2>6. ChainBuilt(s)'
      BY <1>3 DEF ChainBuilt
    <2>7. StageHolds(s)'
      BY <1>3 DEF StageHolds
    <2>8. /\ (\A a, b \in Building : a = b)'
          /\ (\A p \in Operator : ChainBuilt(op[p]))'
          /\ (\A p \in Operator : StageHolds(op[p]))'
      BY <1>3, <2>2, <2>4, <2>6, <2>7, OnlyOne
    <2>9. (\A p \in Operator : MigratedAsListed(op[p]))'
      BY <1>1, <1>3, <1>4, <2>1 DEF Tidy, MigratedAsListed
    <2> QED BY <1>1, <2>1, <2>8, <2>9 DEF Tidy
  <1> QED BY <1>5, <1>6, <1>7 DEF SlugInv

\* A rollback step takes away the last thing built.
LEMMA RollBackKeeps ==
    ASSUME SlugInv, NEW o \in Operator, RollBack(o)
    PROVE  SlugInv'
  <1>1. /\ release' = release /\ created' = created /\ dropped' = dropped
        /\ op[o].pc = "undo" /\ op[o].undo # <<>>
        /\ \/ Undone(Last(op[o].undo), op[o].id) /\ faults' = faults /\ clean' = clean
           \/ /\ faults' = faults + 1 /\ clean' = FALSE
              /\ tenant' = tenant /\ datastore' = datastore /\ db' = db
    BY DEF RollBack, At, Fault
  <1>2. op[o] \in BuildCall /\ o \in Building /\ op[o].undo \in Chains
    <2>1. op[o] \in Call
      BY DEF SlugInv, SlugTypes
    <2>2. op[o] \in BuildCall
      BY <1>1, <2>1, CallKinds
    <2> QED BY <1>1, <2>1, <2>2 DEF Building, BuildCall
  <1>3. PICK s \in BuildCall :
          /\ s.pc = "undo" /\ s.id = op[o].id /\ s.undo = Front(op[o].undo)
          /\ Becomes(o, s)
    <2>1. PICK u \in Chains : u = Front(op[o].undo)
      BY <1>1, <1>2, ChainSteps DEF Chains
    <2>2. Becomes(o, [op[o] EXCEPT !.undo = u])
      BY <2>1 DEF RollBack
    <2>3. PICK s \in BuildCall :
            /\ s = [op[o] EXCEPT !.undo = u]
            /\ s.pc = op[o].pc /\ s.id = op[o].id /\ s.undo = u
      BY <1>2, BuildShrinks
    <2> QED BY <1>1, <2>1, <2>2, <2>3
  <1>4. /\ (op \in [Operator -> Call])'
        /\ (\A p \in Operator : ChainAt(op[p]))'
        /\ (\A p \in Operator :
               op[p].pc \in {"migrate", "stamp"} => op[p].target <= release)'
        /\ op'[o] = s /\ \A p \in Operator \ {o} : op'[p] = op[p]
    <2>1. ChainAt(s) /\ s.pc \notin {"migrate", "stamp"} /\ s \in Call
      BY <1>3 DEF ChainAt, Call
    <2> QED BY <1>1, <1>3, <2>1, CallsKept DEF SlugInv
  <1>9. NoTenant \in [id : Nat, status : Status] /\ NoStore \in [id : Nat, version : Nat]
        /\ NoDatabase \in [exists : BOOLEAN, version : Nat, data : SUBSET Nat]
        /\ NoTenant.id = NoId /\ NoStore.id = NoId
        /\ ~NoDatabase.exists /\ NoDatabase.data = {}
    BY DEF NoTenant, NoStore, NoDatabase, NoId, Status
  <1>5. SlugTypes'
    <2>1. /\ tenant' \in {NoTenant, tenant} /\ datastore' \in {NoStore, datastore}
          /\ db' \in {NoDatabase, db}
      BY <1>1 DEF Undone
    <2>2. faults' \in Nat
      <3>1. faults' = faults \/ faults' = faults + 1
        BY <1>1
      <3> QED BY <3>1 DEF SlugInv, SlugTypes
    <2>3. clean' \in BOOLEAN
      <3>1. clean' = clean \/ clean' = FALSE
        BY <1>1
      <3> QED BY <3>1 DEF SlugInv, SlugTypes
    <2> QED BY <1>1, <1>4, <1>9, <2>1, <2>2, <2>3 DEF SlugInv, SlugTypes
  <1>6. (datastore.id \in {NoId, tenant.id})'
    <2>1. CASE Undone(Last(op[o].undo), op[o].id)
      <3>1. Last(op[o].undo) \in {"tenant", "database", "datastore"}
        BY <1>1, <1>2, ChainSteps DEF Chains
      <3> QED BY <1>9, <2>1, <3>1 DEF Undone, SlugInv
    <2> QED BY <1>1, <2>1 DEF SlugInv
  <1>7. ASSUME clean' PROVE Tidy'
    <2>1. clean /\ Tidy /\ Undone(Last(op[o].undo), op[o].id)
      BY <1>1, <1>7 DEF SlugInv
    <2>2. \A p \in Operator \ {o} : op[p].pc \in {"idle", "migrate", "stamp"}
      BY <1>2, <2>1, OthersWait DEF SlugInv
    <2>3. ChainBuilt(op[o]) /\ op[o].id = tenant.id
      BY <1>1, <2>1 DEF Tidy, ChainBuilt
    <2>4. s \in Call /\ op \in [Operator -> Call]
      BY <1>3 DEF Call, SlugInv, SlugTypes
    <2>5. /\ datastore'.id = NoId
          /\ db'.data \subseteq {tenant'.id} /\ (~db'.exists => db'.data = {})
          /\ tenant'.id = NoId => ~db'.exists
          /\ ChainBuilt(s)'
      <3>1. CASE op[o].undo = <<"tenant">>
        <4>1. ~db.exists /\ db.data = {} /\ datastore.id = NoId
          BY <1>1, <2>1, <2>3, <3>1, ChainsDiffer DEF Tidy, ChainBuilt
        <4>2. s.undo = <<>> /\ db' = db /\ tenant' = NoTenant
          BY <1>3, <2>1, <2>3, <3>1, ChainSteps DEF Undone
        <4>3. datastore'.id = NoId
          BY <1>9, <2>1, <4>1 DEF Undone
        <4> QED BY <4>1, <4>2, <4>3, ChainsDiffer DEF ChainBuilt
      <3>2. CASE op[o].undo \in {<<"database">>, <<"tenant", "database">>}
        <4>1. datastore.id = NoId
          BY <1>1, <2>3, <3>2, ChainsDiffer DEF ChainBuilt
        <4>2. /\ s.undo \in {<<>>, <<"tenant">>} /\ db' = NoDatabase
              /\ tenant' = tenant /\ datastore' = datastore
          BY <1>3, <2>1, <3>2, ChainSteps DEF Undone
        <4> QED BY <1>3, <1>9, <2>3, <4>1, <4>2, ChainsDiffer DEF ChainBuilt
      <3>3. CASE op[o].undo \in
                    {<<"database", "datastore">>, <<"tenant", "database", "datastore">>}
        <4>1. /\ s.undo \in {<<"database">>, <<"tenant", "database">>} /\ db' = db
              /\ tenant' = tenant
              /\ datastore' = IF datastore.id = op[o].id THEN NoStore ELSE datastore
          BY <1>3, <2>1, <3>3, ChainSteps DEF Undone
        <4>2. datastore'.id = NoId
          BY <1>9, <2>3, <4>1 DEF SlugInv
        <4> QED BY <1>3, <2>1, <2>3, <4>1, <4>2, ChainsDiffer DEF ChainBuilt, Tidy
      <3> QED BY <1>1, <1>2, <3>1, <3>2, <3>3 DEF Chains
    <2>7. StageHolds(s)'
      BY <1>3 DEF StageHolds
    <2>8. /\ (\A a, b \in Building : a = b)'
          /\ (\A p \in Operator : ChainBuilt(op[p]))'
          /\ (\A p \in Operator : StageHolds(op[p]))'
      BY <1>3, <2>2, <2>4, <2>5, <2>7, OnlyOne
    <2>9. (\A p \in Operator : MigratedAsListed(op[p]))'
      <3>1. \A p \in Operator : op'[p].pc # "record"
        BY <1>3, <1>4, <2>2
      <3>2. ASSUME NEW p \in Operator, op'[p].pc = "stamp" PROVE op'[p].id # NoId
        BY <1>4, <3>2, CallKinds DEF FleetCall, NoId
      <3> QED BY <2>5, <3>1, <3>2 DEF MigratedAsListed
    <2> QED BY <2>5, <2>8, <2>9 DEF Tidy
  <1> QED BY <1>5, <1>6, <1>7 DEF SlugInv

LEMMA DropDatabaseKeeps ==
    ASSUME SlugInv, NEW o \in Operator, DropDatabase(o)
    PROVE  SlugInv'
  <1>1. /\ tenant' = tenant /\ datastore' = datastore /\ release' = release /\ created' = created
        /\ faults' = faults /\ clean' = clean
        /\ db' = NoDatabase /\ dropped' = dropped \cup {op[o].id}
        /\ op[o].pc = "drop"
    BY DEF DropDatabase, At
  <1>2. op[o] \in DeleteCall /\ o \in Building
    <2>1. op[o] \in Call
      BY DEF SlugInv, SlugTypes
    <2>2. op[o] \in DeleteCall
      BY <1>1, <2>1, CallKinds
    <2> QED BY <1>1, <2>1, <2>2 DEF Building
  <1>3. PICK s \in DeleteCall :
          /\ s.pc = "unlink" /\ s.id = op[o].id
          /\ Becomes(o, s)
    <2>1. Becomes(o, [op[o] EXCEPT !.pc = "unlink"])
      BY DEF DropDatabase, Moves
    <2> DEFINE s == [op[o] EXCEPT !.pc = "unlink"]
    <2>2. s \in DeleteCall
      BY <1>2 DEF DeleteCall
    <2>3. s.pc = "unlink" /\ s.id = op[o].id
      BY <1>2 DEF DeleteCall
    <2> QED BY <2>1, <2>2, <2>3
  <1>4. /\ (op \in [Operator -> Call])'
        /\ (\A p \in Operator : ChainAt(op[p]))'
        /\ (\A p \in Operator :
               op[p].pc \in {"migrate", "stamp"} => op[p].target <= release)'
        /\ op'[o] = s /\ \A p \in Operator \ {o} : op'[p] = op[p]
    <2>1. ChainAt(s) /\ s.pc \notin {"migrate", "stamp"} /\ s \in Call
      BY <1>3, NoCallKept DEF ChainAt, Call
    <2> QED BY <1>1, <1>3, <2>1, CallsKept DEF SlugInv
  <1>8. /\ NoDatabase \in [exists : BOOLEAN, version : Nat, data : SUBSET Nat]
        /\ ~NoDatabase.exists /\ NoDatabase.data = {}
    BY DEF NoDatabase
  <1>5. SlugTypes'
    <2>1. op[o].id \in Nat
      BY <1>2 DEF DeleteCall
    <2> QED BY <1>1, <1>4, <1>8, <2>1 DEF SlugInv, SlugTypes
  <1>6. (datastore.id \in {NoId, tenant.id})'
    BY <1>1 DEF SlugInv
  <1>7. ASSUME clean' PROVE Tidy'
    <2>1. clean /\ Tidy
      BY <1>1, <1>7 DEF SlugInv
    <2>2. \A p \in Operator \ {o} : op[p].pc \in {"idle", "migrate", "stamp"}
      BY <1>2, <2>1, OthersWait DEF SlugInv
    <2>3. ChainBuilt(op[o]) /\ StageHolds(op[o])
      BY <2>1 DEF Tidy
    <2>4. s \in Call /\ op \in [Operator -> Call]
      BY <1>3 DEF Call, SlugInv, SlugTypes
    <2>5. op[o].id = tenant.id
      BY <1>1, <2>3 DEF StageHolds
    <2>6. ChainBuilt(s)'
      BY <1>3 DEF ChainBuilt
    <2>7. StageHolds(s)'
      BY <1>1, <1>3, <1>8 DEF StageHolds
    <2>8. /\ (\A a, b \in Building : a = b)'
          /\ (\A p \in Operator : ChainBuilt(op[p]))'
          /\ (\A p \in Operator : StageHolds(op[p]))'
      BY <1>3, <2>2, <2>4, <2>6, <2>7, OnlyOne
    <2>9. (\A p \in Operator : MigratedAsListed(op[p]))'
      BY <1>1, <1>8 DEF MigratedAsListed
    <2> QED BY <1>1, <1>6, <1>8, <2>5, <2>8, <2>9 DEF Tidy, SlugInv
  <1> QED BY <1>5, <1>6, <1>7 DEF SlugInv

LEMMA DeleteDatastoreKeeps ==
    ASSUME SlugInv, NEW o \in Operator, DeleteDatastore(o)
    PROVE  SlugInv'
  <1>1. /\ tenant' = tenant /\ db' = db /\ release' = release /\ created' = created
        /\ faults' = faults /\ dropped' = dropped /\ clean' = clean
        /\ datastore' \in {NoStore, datastore}
        /\ op[o].pc = "unlink"
    BY DEF DeleteDatastore, At, ghosts
  <1>2. op[o] \in DeleteCall /\ o \in Building
    <2>1. op[o] \in Call
      BY DEF SlugInv, SlugTypes
    <2>2. op[o] \in DeleteCall
      BY <1>1, <2>1, CallKinds
    <2> QED BY <1>1, <2>1, <2>2 DEF Building
  <1>3. PICK s \in Call :
          /\ s.pc \in {"delete", "idle"}
          /\ Becomes(o, s)
    <2>1. CASE datastore.id = op[o].id
      <3>1. Becomes(o, [op[o] EXCEPT !.pc = "delete"])
        BY <2>1 DEF DeleteDatastore, Moves
      <3> DEFINE s == [op[o] EXCEPT !.pc = "delete"]
      <3>2. s \in DeleteCall /\ s.pc = "delete"
        BY <1>2 DEF DeleteCall
      <3> QED BY <3>1, <3>2 DEF Call
    <2>2. CASE datastore.id # op[o].id
      <3>1. Becomes(o, NoCall)
        BY <2>2 DEF DeleteDatastore
      <3> QED BY <3>1, NoCallKept
    <2> QED BY <2>1, <2>2
  <1>4. /\ (op \in [Operator -> Call])'
        /\ (\A p \in Operator : ChainAt(op[p]))'
        /\ (\A p \in Operator :
               op[p].pc \in {"migrate", "stamp"} => op[p].target <= release)'
        /\ op'[o] = s /\ \A p \in Operator \ {o} : op'[p] = op[p]
    <2>1. ChainAt(s) /\ s.pc \notin {"migrate", "stamp"} /\ s \in Call
      BY <1>3, NoCallKept DEF ChainAt, Call
    <2> QED BY <1>1, <1>3, <2>1, CallsKept DEF SlugInv
  <1>8. NoStore \in [id : Nat, version : Nat] /\ NoStore.id = NoId
    BY DEF NoStore, NoId
  <1>5. SlugTypes'
    BY <1>1, <1>4, <1>8 DEF SlugInv, SlugTypes
  <1>6. (datastore.id \in {NoId, tenant.id})'
    BY <1>1, <1>8 DEF SlugInv
  <1>7. ASSUME clean' PROVE Tidy'
    <2>1. clean /\ Tidy
      BY <1>1, <1>7 DEF SlugInv
    <2>2. \A p \in Operator \ {o} : op[p].pc \in {"idle", "migrate", "stamp"}
      BY <1>2, <2>1, OthersWait DEF SlugInv
    <2>3. ChainBuilt(op[o]) /\ StageHolds(op[o])
      BY <2>1 DEF Tidy
    <2>4. s \in Call /\ op \in [Operator -> Call]
      BY <1>3 DEF Call, SlugInv, SlugTypes
    <2>5. ~db.exists
      BY <1>1, <2>3 DEF StageHolds
    <2>6. ChainBuilt(s)'
      BY <1>3 DEF ChainBuilt
    <2>7. StageHolds(s)'
      BY <1>1, <1>3, <2>5 DEF StageHolds
    <2>8. /\ (\A a, b \in Building : a = b)'
          /\ (\A p \in Operator : ChainBuilt(op[p]))'
          /\ (\A p \in Operator : StageHolds(op[p]))'
      BY <1>3, <2>2, <2>4, <2>6, <2>7, OnlyOne
    <2>9. (\A p \in Operator : MigratedAsListed(op[p]))'
      BY <1>1, <2>5 DEF MigratedAsListed
    <2> QED BY <1>1, <1>8, <2>1, <2>5, <2>8, <2>9 DEF Tidy
  <1> QED BY <1>5, <1>6, <1>7 DEF SlugInv

LEMMA DeleteTenantRowKeeps ==
    ASSUME SlugInv, NEW o \in Operator, DeleteTenantRow(o)
    PROVE  SlugInv'
  <1>1. /\ release' = release /\ created' = created /\ faults' = faults /\ dropped' = dropped
        /\ clean' = clean
        /\ db' = db
        /\ tenant' = IF tenant.id = op[o].id THEN NoTenant ELSE tenant
        /\ datastore' = IF datastore.id = op[o].id THEN NoStore ELSE datastore
        /\ op[o].pc = "delete"
    BY DEF DeleteTenantRow, At, Undone, ghosts
  <1>2. op[o] \in DeleteCall /\ o \in Building
    <2>1. op[o] \in Call
      BY DEF SlugInv, SlugTypes
    <2>2. op[o] \in DeleteCall
      BY <1>1, <2>1, CallKinds
    <2> QED BY <1>1, <2>1, <2>2 DEF Building
  <1>3. PICK s \in Call :
          /\ s = NoCall /\ s.pc = "idle" /\ Becomes(o, s)
    BY NoCallKept DEF DeleteTenantRow
  <1>4. /\ (op \in [Operator -> Call])'
        /\ (\A p \in Operator : ChainAt(op[p]))'
        /\ (\A p \in Operator :
               op[p].pc \in {"migrate", "stamp"} => op[p].target <= release)'
        /\ op'[o] = s /\ \A p \in Operator \ {o} : op'[p] = op[p]
    <2>1. ChainAt(s) /\ s.pc \notin {"migrate", "stamp"} /\ s \in Call
      BY <1>3, NoCallKept DEF ChainAt, Call
    <2> QED BY <1>1, <1>3, <2>1, CallsKept DEF SlugInv
  <1>8. /\ NoStore \in [id : Nat, version : Nat] /\ NoStore.id = NoId
        /\ NoTenant \in [id : Nat, status : Status] /\ NoTenant.id = NoId
    BY DEF NoStore, NoTenant, NoId, Status
  <1>5. SlugTypes'
    BY <1>1, <1>4, <1>8 DEF SlugInv, SlugTypes
  <1>6. (datastore.id \in {NoId, tenant.id})'
    BY <1>1, <1>8 DEF SlugInv
  <1>7. ASSUME clean' PROVE Tidy'
    <2>1. clean /\ Tidy
      BY <1>1, <1>7 DEF SlugInv
    <2>2. \A p \in Operator \ {o} : op[p].pc \in {"idle", "migrate", "stamp"}
      BY <1>2, <2>1, OthersWait DEF SlugInv
    <2>3. ChainBuilt(op[o]) /\ StageHolds(op[o])
      BY <2>1 DEF Tidy
    <2>4. s \in Call /\ op \in [Operator -> Call]
      BY <1>3 DEF Call, SlugInv, SlugTypes
    <2>5. ~db.exists
      BY <1>1, <2>3 DEF StageHolds
    <2>6. ChainBuilt(s)'
      BY <1>3 DEF ChainBuilt
    <2>7. StageHolds(s)'
      BY <1>3 DEF StageHolds
    <2>8. /\ (\A a, b \in Building : a = b)'
          /\ (\A p \in Operator : ChainBuilt(op[p]))'
          /\ (\A p \in Operator : StageHolds(op[p]))'
      BY <1>3, <2>2, <2>4, <2>6, <2>7, OnlyOne
    <2>9. (\A p \in Operator : MigratedAsListed(op[p]))'
      BY <1>1, <2>5 DEF MigratedAsListed
    <2> QED BY <1>1, <1>8, <2>1, <2>5, <2>8, <2>9 DEF Tidy
  <1> QED BY <1>5, <1>6, <1>7 DEF SlugInv

LEMMA StartHardDeleteKeeps ==
    ASSUME SlugInv, NEW o \in Operator, StartHardDelete(o)
    PROVE  SlugInv'
  <1>1. /\ tenant' = tenant /\ datastore' = datastore /\ db' = db /\ release' = release
        /\ created' = created /\ faults' = faults /\ dropped' = dropped
        /\ clean' = (clean /\ Building = {} /\ (datastore.id # NoId \/ ~db.exists))
        /\ tenant.id # NoId
    BY DEF StartHardDelete, At
  <1>3. PICK s \in DeleteCall :
          /\ s.pc = (IF datastore.id = NoId THEN "delete" ELSE "drop")
          /\ s.id = tenant.id /\ Becomes(o, s)
    <2> DEFINE s == [pc |-> IF datastore.id = NoId THEN "delete" ELSE "drop",
                     id |-> tenant.id]
    <2>1. s \in DeleteCall
      BY DEF DeleteCall, SlugInv, SlugTypes
    <2>2. Becomes(o, s)
      BY DEF StartHardDelete
    <2> QED BY <2>1, <2>2
  <1>4. /\ (op \in [Operator -> Call])'
        /\ (\A p \in Operator : ChainAt(op[p]))'
        /\ (\A p \in Operator :
               op[p].pc \in {"migrate", "stamp"} => op[p].target <= release)'
        /\ op'[o] = s /\ \A p \in Operator \ {o} : op'[p] = op[p]
    <2>1. ChainAt(s) /\ s \in Call
      BY <1>3, NoCallKept DEF ChainAt, Call
    <2>2. s.pc \in {"migrate", "stamp"} => s.target <= release
      BY <1>1, <1>3, NoCallKept DEF SlugInv, SlugTypes
    <2> QED BY <1>1, <1>3, <2>1, <2>2, CallsKept DEF SlugInv
  <1>5. SlugTypes'
    BY <1>1, <1>4 DEF SlugInv, SlugTypes
  <1>6. (datastore.id \in {NoId, tenant.id})'
    BY <1>1 DEF SlugInv
  <1>7. ASSUME clean' PROVE Tidy'
    <2>1. clean /\ Building = {} /\ (datastore.id # NoId \/ ~db.exists) /\ Tidy
      BY <1>7, <1>1 DEF SlugInv, SlugTypes
    <2>2. \A p \in Operator : op[p].pc \in {"idle", "migrate", "stamp"}
      BY <2>1, NobodyBuilds
    <2>3. s \in Call /\ op \in [Operator -> Call]
      BY <1>3 DEF Call, SlugInv, SlugTypes
    <2>4. ChainBuilt(s)'
      BY <1>3 DEF ChainBuilt
    <2>5. StageHolds(s)'
      BY <1>1, <1>3, <2>1 DEF StageHolds
    <2>6. /\ (\A a, b \in Building : a = b)'
          /\ (\A p \in Operator : ChainBuilt(op[p]))'
          /\ (\A p \in Operator : StageHolds(op[p]))'
      BY <1>3, <2>2, <2>3, <2>4, <2>5, OnlyOne
    <2>7. (\A p \in Operator : MigratedAsListed(op[p]))'
      BY <1>1, <1>3, <1>4, <2>1, <2>2 DEF MigratedAsListed, Tidy
    <2> QED BY <1>1, <2>1, <2>6, <2>7 DEF Tidy
  <1> QED BY <1>5, <1>6, <1>7 DEF SlugInv

\* A migration builds and deletes nothing: the builder's call stays as it was.
LEMMA FleetStep ==
    ASSUME NEW o \in Operator, op[o].pc \in {"idle", "migrate", "stamp"},
           op'[o].pc \in {"idle", "migrate", "stamp"},
           \A p \in Operator \ {o} : op'[p] = op[p],
           \A a, b \in Building : a = b,
           \A p \in Operator : ChainBuilt(op[p]) /\ StageHolds(op[p]),
           tenant'.id = tenant.id, datastore'.id = datastore.id, db'.exists = db.exists,
           db.version >= 1 => db'.version >= 1
    PROVE  /\ (\A a, b \in Building : a = b)'
           /\ (\A p \in Operator : ChainBuilt(op[p]))'
           /\ (\A p \in Operator : StageHolds(op[p]))'
           /\ (\E p \in Operator : op'[p].pc = "record") =>
                 \E p \in Operator : op[p].pc = "record"
  <1>1. (\A a, b \in Building : a = b)'
    BY DEF Building
  <1>2. ASSUME NEW p \in Operator PROVE ChainBuilt(op[p])'
    BY DEF ChainBuilt
  <1>3. ASSUME NEW p \in Operator PROVE StageHolds(op[p])'
    BY DEF StageHolds
  <1>4. ASSUME NEW p \in Operator, op'[p].pc = "record"
        PROVE  \E q \in Operator : op[q].pc = "record"
    BY <1>4
  <1> QED BY <1>1, <1>2, <1>3, <1>4

LEMMA ListFleetKeeps ==
    ASSUME SlugInv, NEW o \in Operator, ListFleet(o)
    PROVE  SlugInv'
  <1>1. /\ tenant' = tenant /\ datastore' = datastore /\ db' = db /\ release' = release
        /\ created' = created /\ faults' = faults /\ dropped' = dropped /\ clean' = clean
        /\ op[o].pc = "idle" /\ datastore.id # NoId
    BY DEF ListFleet, At, ghosts
  <1>3. PICK s \in FleetCall :
          /\ s.pc = "migrate" /\ s.target = release /\ Becomes(o, s)
    <2> DEFINE s == [pc |-> "migrate", id |-> datastore.id, target |-> release]
    <2>1. s \in FleetCall
      BY <1>1 DEF FleetCall, SlugInv, SlugTypes, NoId
    <2>2. Becomes(o, s)
      BY DEF ListFleet
    <2> QED BY <2>1, <2>2
  <1>4. /\ (op \in [Operator -> Call])'
        /\ (\A p \in Operator : ChainAt(op[p]))'
        /\ (\A p \in Operator :
               op[p].pc \in {"migrate", "stamp"} => op[p].target <= release)'
        /\ op'[o] = s /\ \A p \in Operator \ {o} : op'[p] = op[p]
    <2>1. ChainAt(s) /\ s \in Call
      BY <1>3, NoCallKept DEF ChainAt, Call
    <2>2. s.pc \in {"migrate", "stamp"} => s.target <= release
      BY <1>1, <1>3, NoCallKept DEF SlugInv, SlugTypes
    <2> QED BY <1>1, <1>3, <2>1, <2>2, CallsKept DEF SlugInv
  <1>5. SlugTypes'
    BY <1>1, <1>4 DEF SlugInv, SlugTypes
  <1>6. (datastore.id \in {NoId, tenant.id})'
    BY <1>1 DEF SlugInv
  <1>7. ASSUME clean' PROVE Tidy'
    <2>1. clean /\ Tidy
      BY <1>7, <1>1 DEF SlugInv
    <2>2. /\ tenant'.id = tenant.id /\ datastore'.id = datastore.id
          /\ db'.exists = db.exists /\ (db.version >= 1 => db'.version >= 1)
      BY <1>1
    <2>3. /\ (\A a, b \in Building : a = b)'
          /\ (\A p \in Operator : ChainBuilt(op[p]))'
          /\ (\A p \in Operator : StageHolds(op[p]))'
          /\ (\E p \in Operator : op'[p].pc = "record") =>
                \E p \in Operator : op[p].pc = "record"
      BY <1>1, <1>3, <1>4, <2>1, <2>2, FleetStep DEF Tidy
    <2>4. (\A p \in Operator : MigratedAsListed(op[p]))'
      BY <1>1, <1>3, <1>4, <2>1, <2>3 DEF MigratedAsListed, Tidy
    <2> QED BY <1>1, <2>1, <2>3, <2>4 DEF Tidy
  <1> QED BY <1>5, <1>6, <1>7 DEF SlugInv

LEMMA RunMigrationKeeps ==
    ASSUME SlugInv, NEW o \in Operator, RunMigration(o)
    PROVE  SlugInv'
  <1>1. /\ tenant' = tenant /\ datastore' = datastore /\ release' = release /\ created' = created
        /\ faults' = faults /\ dropped' = dropped /\ clean' = clean
        /\ op[o].pc = "migrate"
    BY DEF RunMigration, At, ghosts
  <1>3. PICK s \in Call :
          /\ s.pc \in {"idle", "stamp"} /\ Becomes(o, s)
          /\ s.pc = "idle" => db' = db
          /\ s.pc = "stamp" =>
                /\ db.exists /\ s \in FleetCall /\ s.target <= release
                /\ db' = [db EXCEPT !.version =
                              IF @ < s.target THEN s.target ELSE @]
    <2>0. op[o] \in FleetCall /\ op[o].target <= release
      <3>1. op[o] \in Call /\ op[o].target <= release
        BY <1>1 DEF SlugInv, SlugTypes
      <3>2. op[o] \in FleetCall
        BY <1>1, <3>1, CallKinds
      <3> QED BY <3>1, <3>2
    <2>1. CASE db.exists
      <3> DEFINE s == [op[o] EXCEPT !.pc = "stamp"]
      <3>1. s \in FleetCall
        BY <2>0 DEF FleetCall
      <3>2. s.pc = "stamp" /\ s.target = op[o].target
        BY <2>0 DEF FleetCall
      <3>3. Becomes(o, s)
        BY <2>1 DEF RunMigration, Moves
      <3>4. db' = [db EXCEPT !.version = IF @ < op[o].target THEN op[o].target ELSE @]
        BY <2>1 DEF RunMigration
      <3> HIDE DEF s
      <3> QED BY <2>0, <2>1, <3>1, <3>2, <3>3, <3>4 DEF Call
    <2>2. CASE ~db.exists
      <3>1. Becomes(o, NoCall) /\ db' = db
        BY <2>2 DEF RunMigration
      <3> QED BY <3>1, NoCallKept
    <2> QED BY <2>1, <2>2
  <1>4. /\ (op \in [Operator -> Call])'
        /\ (\A p \in Operator : ChainAt(op[p]))'
        /\ (\A p \in Operator :
               op[p].pc \in {"migrate", "stamp"} => op[p].target <= release)'
        /\ op'[o] = s /\ \A p \in Operator \ {o} : op'[p] = op[p]
    <2>1. ChainAt(s) /\ s \in Call
      BY <1>3 DEF ChainAt
    <2>2. s.pc \in {"migrate", "stamp"} => s.target <= release
      BY <1>1, <1>3, NoCallKept DEF SlugInv, SlugTypes
    <2> QED BY <1>1, <1>3, <2>1, <2>2, CallsKept DEF SlugInv
  <1>8. /\ db' \in [exists : BOOLEAN, version : Nat, data : SUBSET Nat]
        /\ db'.exists = db.exists /\ db'.version >= db.version /\ db'.data = db.data
        /\ s.pc = "stamp" => db'.version >= s.target
    <2>0. db \in [exists : BOOLEAN, version : Nat, data : SUBSET Nat]
      BY DEF SlugInv, SlugTypes
    <2>1. CASE s.pc = "idle"
      BY <1>3, <2>0, <2>1
    <2>2. CASE s.pc = "stamp"
      <3>1. s.target \in Nat
        BY <1>3, <2>2 DEF FleetCall
      <3>2. PICK v \in Nat : v = IF db.version < s.target THEN s.target ELSE db.version
        BY <2>0, <3>1
      <3>3. db' = [db EXCEPT !.version = v]
        BY <1>3, <2>2, <3>2
      <3>4. db' \in [exists : BOOLEAN, version : Nat, data : SUBSET Nat]
        BY <2>0, <3>3
      <3>5. db'.version = v /\ db'.data = db.data
        BY <2>0, <3>3
      <3>6. db'.exists = db.exists
        BY <2>0, <3>3
      <3> QED BY <2>0, <3>1, <3>2, <3>4, <3>5, <3>6
    <2> QED BY <1>3, <2>1, <2>2
  <1>5. SlugTypes'
    BY <1>1, <1>4, <1>8 DEF SlugInv, SlugTypes
  <1>6. (datastore.id \in {NoId, tenant.id})'
    BY <1>1 DEF SlugInv
  <1>7. ASSUME clean' PROVE Tidy'
    <2>1. clean /\ Tidy
      BY <1>7, <1>1 DEF SlugInv
    <2>2. /\ tenant'.id = tenant.id /\ datastore'.id = datastore.id
          /\ db'.exists = db.exists /\ (db.version >= 1 => db'.version >= 1)
      BY <1>1, <1>8 DEF SlugInv, SlugTypes
    <2>3. /\ (\A a, b \in Building : a = b)'
          /\ (\A p \in Operator : ChainBuilt(op[p]))'
          /\ (\A p \in Operator : StageHolds(op[p]))'
          /\ (\E p \in Operator : op'[p].pc = "record") =>
                \E p \in Operator : op[p].pc = "record"
      BY <1>1, <1>3, <1>4, <2>1, <2>2, FleetStep DEF Tidy
    <2>4. (\A p \in Operator : MigratedAsListed(op[p]))'
      <3>1. ASSUME NEW p \in Operator PROVE MigratedAsListed(op[p])'
        <4>1. CASE p = o
          BY <1>4, <1>8, <4>1 DEF MigratedAsListed
        <4>2. CASE p # o
          <5>1. op'[p] = op[p] /\ MigratedAsListed(op[p])
            BY <1>4, <2>1, <4>2 DEF Tidy
          <5>2. op[p].pc = "stamp" => op[p].target \in Nat
            <6>1. op[p] \in Call
              BY DEF SlugInv, SlugTypes
            <6> QED BY <6>1, CallKinds DEF FleetCall
          <5> QED BY <1>1, <1>8, <2>3, <5>1, <5>2 DEF MigratedAsListed, SlugInv, SlugTypes
        <4> QED BY <4>1, <4>2
      <3> QED BY <3>1
    <2> QED BY <1>1, <1>8, <2>1, <2>3, <2>4 DEF Tidy, SlugInv, SlugTypes
  <1> QED BY <1>5, <1>6, <1>7 DEF SlugInv

LEMMA StampVersionKeeps ==
    ASSUME SlugInv, NEW o \in Operator, StampVersion(o)
    PROVE  SlugInv'
  <1>1. /\ tenant' = tenant /\ db' = db /\ release' = release /\ created' = created
        /\ faults' = faults /\ dropped' = dropped /\ clean' = clean
        /\ op[o].pc = "stamp"
        /\ datastore' = IF datastore.id = op[o].id
                         THEN [datastore EXCEPT !.version = op[o].target] ELSE datastore
    BY DEF StampVersion, At, ghosts
  <1>3. PICK s \in Call :
          /\ s = NoCall /\ s.pc = "idle" /\ Becomes(o, s)
    BY NoCallKept DEF StampVersion
  <1>4. /\ (op \in [Operator -> Call])'
        /\ (\A p \in Operator : ChainAt(op[p]))'
        /\ (\A p \in Operator :
               op[p].pc \in {"migrate", "stamp"} => op[p].target <= release)'
        /\ op'[o] = s /\ \A p \in Operator \ {o} : op'[p] = op[p]
    <2>1. ChainAt(s) /\ s \in Call
      BY <1>3, NoCallKept DEF ChainAt, Call
    <2>2. s.pc \in {"migrate", "stamp"} => s.target <= release
      BY <1>1, <1>3, NoCallKept DEF SlugInv, SlugTypes
    <2> QED BY <1>1, <1>3, <2>1, <2>2, CallsKept DEF SlugInv
  <1>8. /\ datastore' \in [id : Nat, version : Nat] /\ datastore'.id = datastore.id
        /\ \/ datastore' = datastore
           \/ datastore.id = op[o].id /\ datastore'.version = op[o].target
    <2>0. op[o] \in FleetCall /\ op[o].target <= release
      <3>1. op[o] \in Call /\ op[o].target <= release
        BY <1>1 DEF SlugInv, SlugTypes
      <3>2. op[o] \in FleetCall
        BY <1>1, <3>1, CallKinds
      <3> QED BY <3>1, <3>2
    <2>1. datastore \in [id : Nat, version : Nat] /\ op[o].target \in Nat
      BY <2>0 DEF SlugInv, SlugTypes, FleetCall
    <2> QED BY <1>1, <2>1
  <1>5. SlugTypes'
    BY <1>1, <1>4, <1>8 DEF SlugInv, SlugTypes
  <1>6. (datastore.id \in {NoId, tenant.id})'
    BY <1>1, <1>8 DEF SlugInv
  <1>7. ASSUME clean' PROVE Tidy'
    <2>1. clean /\ Tidy
      BY <1>7, <1>1 DEF SlugInv
    <2>2. /\ tenant'.id = tenant.id /\ datastore'.id = datastore.id
          /\ db'.exists = db.exists /\ (db.version >= 1 => db'.version >= 1)
      BY <1>1, <1>8
    <2>3. /\ (\A a, b \in Building : a = b)'
          /\ (\A p \in Operator : ChainBuilt(op[p]))'
          /\ (\A p \in Operator : StageHolds(op[p]))'
          /\ (\E p \in Operator : op'[p].pc = "record") =>
                \E p \in Operator : op[p].pc = "record"
      BY <1>1, <1>3, <1>4, <2>1, <2>2, FleetStep DEF Tidy
    <2>4. (\A p \in Operator : MigratedAsListed(op[p]))'
      BY <1>1, <1>3, <1>4, <1>8, <2>1, <2>3 DEF MigratedAsListed, Tidy
    <2> QED BY <1>1, <1>8, <2>1, <2>3, <2>4 DEF Tidy, MigratedAsListed
  <1> QED BY <1>5, <1>6, <1>7 DEF SlugInv

LEMMA CrashKeeps ==
    ASSUME SlugInv, NEW o \in Operator, Crash(o)
    PROVE  SlugInv'
  <1>1. /\ tenant' = tenant /\ datastore' = datastore /\ db' = db /\ release' = release
        /\ created' = created /\ dropped' = dropped /\ clean' = clean
        /\ faults' = faults + 1 /\ Becomes(o, NoCall)
    BY DEF Crash, Fault
  <1>4. /\ (op \in [Operator -> Call])'
        /\ (\A p \in Operator : ChainAt(op[p]))'
        /\ (\A p \in Operator :
               op[p].pc \in {"migrate", "stamp"} => op[p].target <= release)'
        /\ op'[o] = NoCall /\ \A p \in Operator \ {o} : op'[p] = op[p]
    BY <1>1, NoCallKept, CallsKept DEF SlugInv
  <1>5. SlugTypes'
    BY <1>1, <1>4 DEF SlugInv, SlugTypes
  <1>6. (datastore.id \in {NoId, tenant.id})'
    BY <1>1 DEF SlugInv
  <1>7. ASSUME clean' PROVE Tidy'
    <2>1. clean /\ Tidy
      BY <1>7, <1>1 DEF SlugInv
    <2>2. (\A a, b \in Building : a = b)'
      BY <1>4, <2>1, NoCallKept DEF Tidy, Building
    <2>3. (\A p \in Operator : ChainBuilt(op[p]))'
      BY <1>1, <1>4, <2>1, NoCallKept DEF Tidy, ChainBuilt
    <2>4. (\A p \in Operator : StageHolds(op[p]))'
      BY <1>1, <1>4, <2>1, NoCallKept DEF Tidy, StageHolds
    <2>5. (\A p \in Operator : MigratedAsListed(op[p]))'
      BY <1>1, <1>4, <2>1, NoCallKept DEF Tidy, MigratedAsListed
    <2> QED BY <1>1, <2>1, <2>2, <2>3, <2>4, <2>5 DEF Tidy
  <1> QED BY <1>5, <1>6, <1>7 DEF SlugInv

LEMMA SetStatusKeeps ==
    ASSUME SlugInv, NEW s \in Status, SetStatus(s)
    PROVE  SlugInv'
  <1>1. /\ tenant' \in [id : Nat, status : Status] /\ tenant'.id = tenant.id
        /\ UNCHANGED <<datastore, db, release, op, created, faults, dropped, clean>>
    BY DEF SetStatus, SlugInv, SlugTypes, ghosts
  <1>2. SlugTypes'
    BY <1>1 DEF SlugInv, SlugTypes, ChainAt
  <1>3. Tidy => Tidy'
    BY <1>1 DEF Tidy, Building, ChainBuilt, StageHolds, MigratedAsListed
  <1> QED BY <1>1, <1>2, <1>3 DEF SlugInv

LEMMA DeployKeeps ==
    ASSUME SlugInv, Deploy
    PROVE  SlugInv'
  <1>1. /\ release' = release + 1
        /\ UNCHANGED <<tenant, datastore, db, op, created, faults, dropped, clean>>
    BY DEF Deploy, ghosts
  <1>2. \A p \in Operator : op[p].pc \in {"migrate", "stamp"} =>
           op[p].target <= release + 1
    <2>1. ASSUME NEW p \in Operator, op[p].pc \in {"migrate", "stamp"}
          PROVE  op[p].target <= release + 1
      <3>1. op[p] \in Call
        BY DEF SlugInv, SlugTypes
      <3>2. op[p].target \in Nat
        BY <2>1, <3>1, CallKinds DEF FleetCall
      <3> QED BY <2>1, <3>2 DEF SlugInv, SlugTypes
    <2> QED BY <2>1
  <1>3. SlugTypes'
    BY <1>1, <1>2 DEF SlugInv, SlugTypes, ChainAt
  <1>4. Tidy => Tidy'
    BY <1>1 DEF Tidy, Building, ChainBuilt, StageHolds, MigratedAsListed
  <1> QED BY <1>1, <1>3, <1>4 DEF SlugInv

LEMMA SlugInvKept ==
    ASSUME SlugInv, [SlugNext]_slugVars
    PROVE  SlugInv'
  <1>1. ASSUME NEW o \in Operator, Provision(o) PROVE SlugInv'
    BY <1>1, StartProvisionKeeps, CreateTenantKeeps, CreateDatabaseKeeps,
       FillDatabaseKeeps, RecordDatastoreKeeps, CompleteKeeps, ThrowKeeps,
       RollBackKeeps, RolledBackKeeps DEF Provision
  <1>2. ASSUME NEW o \in Operator, HardDelete(o) PROVE SlugInv'
    BY <1>2, StartHardDeleteKeeps, DropDatabaseKeeps, DeleteDatastoreKeeps,
       DeleteTenantRowKeeps DEF HardDelete
  <1>3. ASSUME NEW o \in Operator, Migrate(o) PROVE SlugInv'
    BY <1>3, ListFleetKeeps, RunMigrationKeeps, StampVersionKeeps DEF Migrate
  <1>4. CASE UNCHANGED slugVars
    BY <1>4 DEF slugVars, SlugInv, SlugTypes, ChainAt, Tidy, Building, ChainBuilt,
                StageHolds, MigratedAsListed
  <1> QED BY <1>1, <1>2, <1>3, <1>4, CrashKeeps, SetStatusKeeps, DeployKeeps DEF SlugNext

LEMMA SlugInvInit ==
    ASSUME SlugInit
    PROVE  SlugInv
  <1>1. \A o \in Operator : op[o] = NoCall
    BY DEF SlugInit
  <1>2. SlugTypes
    BY <1>1, NoCallKept DEF SlugInit, SlugTypes, NoTenant, NoStore, NoDatabase, Status, NoId
  <1>3. Tidy
    <2>1. Building = {}
      BY <1>1, NoCallKept DEF Building
    <2>2. \A o \in Operator :
             ChainBuilt(op[o]) /\ StageHolds(op[o]) /\ MigratedAsListed(op[o])
      BY <1>1, NoCallKept DEF ChainBuilt, StageHolds, MigratedAsListed
    <2> QED BY <2>1, <2>2 DEF Tidy, SlugInit, NoTenant, NoStore, NoDatabase, NoId
  <1> QED BY <1>2, <1>3 DEF SlugInv, SlugInit, NoTenant, NoStore

\* A datastore row always leads to the holder of the slug and, unless two calls ran
\* at once or a rollback step failed, to a database with the recorded migrations and
\* without an earlier school's rows (provision.ts:118-324, lifecycle.ts:98-134).
THEOREM RegistryIsTrueHolds == SlugSpec => []RegistryIsTrue
  <1>1. SlugInv => RegistryIsTrue
    BY DEF SlugInv, Tidy, RegistryIsTrue, StoreHasDatabase, NoStrangersData
  <1> QED BY <1>1, SlugInvInit, SlugInvKept, PTL DEF SlugSpec

-----------------------------------------------------------------------------
(* SchoolSetup: what the set-up wizard, the branches and their admins hold. *)

SetupPc == {"look", "school", "year", "owner", "owner's staff row", "register", "branch",
            "assign", "account", "count", "staff row", "land", "point", "forget"}
Errand == {"setup", "branch", "attach", "admin", "remove", "switch"}
Ask == [at : SetupPc, kind : Errand, u : User \cup {Nowhere}, k : Place, logo : Nat, n : Nat]
Account == [login : BOOLEAN, staff : (Place \cup {Nowhere}) \X Nat,
            held : SUBSET (Place \cup {Whole}), points : Place \cup {Nowhere}]

SetupTypeOK ==
    /\ school \in [Code -> [row : BOOLEAN, logo : Nat]]
    /\ branch \in [Place -> {"none", "bare", "year", "ready"}]
    /\ user \in [User -> Account]
    /\ logos \subseteq Nat \ {0}
    /\ setter \in [Setter -> {Free} \cup Ask]
    /\ sets \in Nat

\* Which errands come to a step.
ErrandAt(pc) ==
    IF pc \in {"look", "school", "owner", "owner's staff row", "register"} THEN {"setup"}
    ELSE IF pc = "year" THEN {"setup", "branch"}
    ELSE IF pc = "branch" THEN {"branch"}
    ELSE IF pc = "assign" THEN {"attach", "admin"}
    ELSE IF pc \in {"account", "count", "staff row"} THEN {"admin"}
    ELSE IF pc = "land" THEN {"admin"}
    ELSE IF pc = "point" THEN {"switch"}
    ELSE {"remove"}

ErrandInv ==
    \A s \in Setter : setter[s].at # "idle" =>
        /\ setter[s].kind \in ErrandAt(setter[s].at)
        /\ setter[s].kind = "setup" => setter[s].k \in Code
        /\ IF setter[s].kind = "branch" THEN setter[s].u = Nowhere ELSE setter[s].u \in User

\* Set-ups that do not cross find no school, or founded the one there is.
FoundedInv ==
    \/ <<"set-ups", 0>> \in torn
    \/ /\ \A s, t \in Sets("setup") : s = t
       /\ \A s \in Setter : Awaits(s, "school") => Founded = {}
       /\ \A k, l \in Founded : k = l

\* A new account is in the hands of the request that made it.
Making == {"owner's staff row", "register", "count", "staff row"}

MakerTells(s) ==
    /\ setter[s].at \in Making => user[setter[s].u].login
    /\ setter[s].at \in {"owner", "owner's staff row", "register"} =>
          school[setter[s].k].row /\ branch[setter[s].k] = "ready"
    /\ setter[s].at = "year" =>
          branch[setter[s].k] # "none" /\ (setter[s].kind = "setup" => school[setter[s].k].row)
    /\ setter[s].at \in {"owner's staff row", "register"} => Whole \in user[setter[s].u].held
    /\ setter[s].at = "register" => user[setter[s].u].staff = <<setter[s].k, 0>>

MakerInv ==
    /\ \A s \in Setter : MakerTells(s)
    /\ \A s, t \in Setter : setter[s].at \in Making /\ setter[t].at \in Making
                            /\ setter[s].u = setter[t].u => s = t
    /\ OpenedIsComplete
    /\ \A k \in Code, u \in User : <<k, u>> \in opened =>
          \A s \in Setter : setter[s].at \in Making => setter[s].u # u

\* A file is one set-up's, and then one school's.
LogoTells(s) ==
    setter[s].at # "idle" /\ setter[s].kind = "setup" =>
        /\ setter[s].logo # 0 =>
              /\ setter[s].logo <= sets /\ setter[s].logo \in logos
              /\ \A k \in Founded : school[k].logo = setter[s].logo =>
                    k = setter[s].k /\ setter[s].at \notin {"look", "school"}
        /\ setter[s].at \notin {"look", "school"} =>
              school[setter[s].k].row /\ school[setter[s].k].logo = setter[s].logo

LogosInv ==
    /\ \A s \in Setter : LogoTells(s)
    /\ \A s, t \in Sets("setup") : setter[s].logo = setter[t].logo /\ setter[s].logo # 0 => s = t
    /\ \A k \in Founded : school[k].logo <= sets
    /\ LogosAreSchools

\* An account may be used, and points where its user is an admin, but for what
\* the request at work on it has still to do.
Admits(account, l) == {l, Whole} \cap account.held # {}

AccountTells(account, pc, k) ==
    /\ account.login =>
          account.staff # <<Nowhere, 0>> \/ pc \in {"owner's staff row", "count", "staff row"}
    /\ account.points # Nowhere =>
          Admits(account, account.points) \/ (pc = "forget" /\ k = account.points)
    /\ pc \in {"point", "land"} => Admits(account, k)

UserTells(u) ==
    /\ \A s, t \in OnUser(u) : s = t
    /\ OnUser(u) = {} => AccountTells(user[u], "idle", Nowhere)
    /\ \A s \in OnUser(u) : AccountTells(user[u], setter[s].at, setter[s].k)

UsersInv ==
    /\ \A u \in User : ~user[u].login => user[u].points = Nowhere
    /\ \A s \in Setter : setter[s].at \in {"assign", "count", "staff row", "land", "point"} =>
          user[setter[s].u].login
    /\ \A u \in User : <<"user", u>> \in torn \/ UserTells(u)

SetupInv == SetupTypeOK /\ ErrandInv /\ FoundedInv /\ MakerInv /\ LogosInv /\ UsersInv

-----------------------------------------------------------------------------
(* What a step of a request does to the requests. *)

Alone(s) == \A t \in Setter \ {s} : setter'[t] = setter[t]
Freed(s) == setter'[s].at = "idle" /\ Alone(s)
Moved(s, pc) ==
    /\ setter'[s].at = pc /\ Alone(s)
    /\ setter'[s].kind = setter[s].kind /\ setter'[s].u = setter[s].u
    /\ setter'[s].k = setter[s].k /\ setter'[s].logo = setter[s].logo
SettersTell == setter' \in [Setter -> {Free} \cup Ask]

LEMMA MovedShape ==
    ASSUME SetupTypeOK, NEW s \in Setter, setter[s].at # "idle", NEW pc \in SetupPc,
           setter' = [setter EXCEPT ![s].at = pc]
    PROVE  SettersTell /\ Moved(s, pc)
  <1>1. PICK ask \in Ask : ask = setter[s]
    BY DEF SetupTypeOK, Free
  <1>2. PICK next : next = [ask EXCEPT !.at = pc]
    OBVIOUS
  <1>3. /\ next \in Ask /\ next.at = pc /\ next.kind = ask.kind /\ next.u = ask.u
        /\ next.k = ask.k /\ next.logo = ask.logo
    BY <1>1, <1>2 DEF Ask
  <1>4. setter' = [setter EXCEPT ![s] = next]
    BY <1>1, <1>2
  <1>5. setter'[s] = next /\ SettersTell /\ Alone(s)
    BY <1>3, <1>4 DEF SetupTypeOK, SettersTell, Alone
  <1> QED BY <1>1, <1>3, <1>5 DEF Moved

LEMMA FreedShape ==
    ASSUME SetupTypeOK, NEW s \in Setter, setter' = [setter EXCEPT ![s] = Free]
    PROVE  SettersTell /\ Freed(s)
  BY DEF SetupTypeOK, SettersTell, Freed, Alone, Free

LEMMA AcceptedShape ==
    ASSUME SetupTypeOK, NEW s \in Setter, NEW pc \in SetupPc, NEW kind \in Errand,
           NEW u \in User \cup {Nowhere}, NEW k \in Place, NEW logo \in Nat,
           Accepted(s, pc, kind, u, k, logo)
    PROVE  /\ SettersTell /\ Alone(s) /\ setter[s].at = "idle" /\ setter'[s].at = pc
           /\ setter'[s].kind = kind /\ setter'[s].u = u /\ setter'[s].k = k
           /\ setter'[s].logo = logo /\ sets' = sets + 1 /\ torn \subseteq torn'
           /\ OnUser(u) # {} => <<"user", u>> \in torn'
           /\ kind = "setup" /\ Sets("setup") # {} => <<"set-ups", 0>> \in torn'
  <1>1. PICK next : next = [at |-> pc, kind |-> kind, u |-> u, k |-> k, logo |-> logo, n |-> 0]
    OBVIOUS
  <1>2. /\ next \in Ask /\ next.at = pc /\ next.kind = kind /\ next.u = u /\ next.k = k
        /\ next.logo = logo
    BY <1>1 DEF Ask
  <1>3. setter' = [setter EXCEPT ![s] = next] /\ setter[s].at = "idle" /\ sets' = sets + 1
    BY <1>1 DEF Accepted, Awaits
  <1>4. setter'[s] = next /\ SettersTell /\ Alone(s)
    BY <1>2, <1>3 DEF SetupTypeOK, SettersTell, Alone
  <1>5. /\ torn \subseteq torn' /\ (OnUser(u) # {} => <<"user", u>> \in torn')
        /\ kind = "setup" /\ Sets("setup") # {} => <<"set-ups", 0>> \in torn'
    BY DEF Accepted
  <1> QED BY <1>2, <1>3, <1>4, <1>5

-----------------------------------------------------------------------------
(* What each part of the invariant needs of a step. *)

LEMMA FoundedStays ==
    ASSUME FoundedInv, NEW s \in Setter, Alone(s), torn \subseteq torn', UNCHANGED school,
           setter'[s].at # "school",
           setter'[s].at # "idle" /\ setter'[s].kind = "setup" =>
              setter[s].at # "idle" /\ setter[s].kind = "setup"
    PROVE  FoundedInv'
  <1>1. CASE <<"set-ups", 0>> \in torn
    BY <1>1 DEF FoundedInv
  <1>2. CASE <<"set-ups", 0>> \notin torn
    <2>1. /\ \A t \in Sets("setup")' : t \in Sets("setup")
          /\ \A t \in Setter : Awaits(t, "school")' => Awaits(t, "school")
      BY DEF Sets, Awaits, Alone
    <2>2. Founded' = Founded
      BY DEF Founded
    <2> QED BY <1>2, <2>1, <2>2 DEF FoundedInv
  <1> QED BY <1>1, <1>2

LEMMA MakerStays ==
    ASSUME SetupTypeOK, SettersTell, ErrandInv, MakerInv, NEW s \in Setter, Alone(s),
           \A k \in Code : school[k].row => school'[k].row,
           \A k \in Place : /\ branch[k] # "none" => branch'[k] # "none"
                            /\ k \in Code /\ school[k].row /\ branch[k] = "ready" =>
                                  branch'[k] = "ready",
           \A u \in User : /\ user[u].login => user'[u].login
                           /\ user[u].login /\ Whole \in user[u].held => Whole \in user'[u].held
                           /\ \/ user'[u].staff = user[u].staff
                              \/ setter[s].at \in Making /\ u = setter[s].u
                              \/ ~user[u].login,
           MakerTells(s)',
           setter'[s].at \in Making =>
              \/ setter[s].at \in Making /\ setter'[s].u = setter[s].u
              \/ setter'[s].u \in User /\ ~user[setter'[s].u].login,
           UNCHANGED opened
    PROVE  MakerInv'
  <1>1. \A t \in Setter : setter[t].at \in Making =>
           setter[t].u \in User /\ setter[t].at # "idle" /\ user[setter[t].u].login
    BY DEF ErrandInv, ErrandAt, MakerInv, MakerTells, Making
  <1>2. \A t \in Setter \ {s} : MakerTells(t)'
    <2> TAKE t \in Setter \ {s}
    <2>1. PICK ask : ask = setter[t]
      OBVIOUS
    <2>2. setter'[t] = ask /\ ask \in {Free} \cup Ask
      BY <2>1 DEF Alone, SetupTypeOK
    <2>3. ask.at # "idle" => ask \in Ask
      BY <2>2 DEF Free
    <2>4. ask.at \in Making =>
             /\ ask.u \in User /\ user'[ask.u].login
             /\ setter[s].at \in Making => setter[s].u # ask.u
      BY <1>1, <2>1 DEF MakerInv
    <2>5. ask.at \in {"owner", "owner's staff row", "register"} =>
             ask.k \in Code /\ school'[ask.k].row /\ branch'[ask.k] = "ready"
      <3>1. ask.at \in {"owner", "owner's staff row", "register"} =>
               ask.k \in Code /\ school[ask.k].row /\ branch[ask.k] = "ready"
        BY <2>1 DEF MakerInv, MakerTells, ErrandInv, ErrandAt
      <3> QED BY <3>1 DEF Place
    <2>6. ask.at = "year" =>
             branch'[ask.k] # "none" /\ (ask.kind = "setup" => school'[ask.k].row)
      <3>1. ask.at = "year" => ask.k \in Place /\ branch[ask.k] # "none"
               /\ (ask.kind = "setup" => ask.k \in Code /\ school[ask.k].row)
        BY <2>1, <2>3 DEF MakerInv, MakerTells, ErrandInv, Ask
      <3> QED BY <3>1
    <2>7. ask.at \in {"owner's staff row", "register"} => Whole \in user'[ask.u].held
      BY <1>1, <2>1 DEF MakerInv, MakerTells, Making
    <2>8. ask.at = "register" => user'[ask.u].staff = <<ask.k, 0>>
      BY <1>1, <2>1, <2>4 DEF MakerInv, MakerTells, Making
    <2> QED BY <2>2, <2>4, <2>5, <2>6, <2>7, <2>8 DEF MakerTells
  <1>3. \A t, v \in Setter : setter'[t].at \in Making /\ setter'[v].at \in Making
                             /\ setter'[t].u = setter'[v].u => t = v
    BY <1>1 DEF Alone, MakerInv
  <1>4. \A k \in Code, u \in User : <<k, u>> \in opened =>
           /\ \A t \in Setter : setter'[t].at \in Making => setter'[t].u # u
           /\ school'[k].row /\ branch'[k] = "ready" /\ user'[u].login
           /\ user'[u].staff = <<k, 0>> /\ Whole \in user'[u].held
    <2> TAKE k \in Code, u \in User
    <2> HAVE <<k, u>> \in opened
    <2>1. /\ school[k].row /\ branch[k] = "ready" /\ user[u].login
          /\ user[u].staff = <<k, 0>> /\ Whole \in user[u].held
          /\ \A t \in Setter : setter[t].at \in Making => setter[t].u # u
      BY DEF MakerInv, OpenedIsComplete
    <2>2. \A t \in Setter : setter'[t].at \in Making => setter'[t].u # u
      BY <2>1 DEF Alone
    <2> QED BY <2>1, <2>2 DEF Place
  <1> QED BY <1>2, <1>3, <1>4 DEF MakerInv, OpenedIsComplete

IsSetup(s) == setter[s].at # "idle" /\ setter[s].kind = "setup"

\* The files and the rows rest, and so does what s does with its file.
LEMMA LogosStay ==
    ASSUME SetupTypeOK, LogosInv, NEW s \in Setter, Alone(s), torn \subseteq torn',
           UNCHANGED <<school, logos>>, sets' \in Nat, sets <= sets',
           \/ ~IsSetup(s) /\ ~IsSetup(s)'
           \/ /\ IsSetup(s) /\ IsSetup(s)' /\ setter'[s].k = setter[s].k
              /\ setter'[s].logo = setter[s].logo
              /\ setter[s].at \in {"look", "school"} <=> setter'[s].at \in {"look", "school"}
    PROVE  LogosInv'
  <1>1. Founded' = Founded /\ Founded \subseteq Code
    BY DEF Founded
  <1>2. \A k \in Founded : school[k].logo \in Nat /\ school[k].logo <= sets'
    BY <1>1 DEF LogosInv, SetupTypeOK
  <1>3. \A t \in Setter : IsSetup(t)' <=> IsSetup(t)
    BY DEF Alone, IsSetup
  <1>4. \A t \in Setter : IsSetup(t) =>
           /\ setter'[t].logo = setter[t].logo /\ setter[t].logo \in Nat
           /\ setter'[t].k = setter[t].k
           /\ setter[t].at \in {"look", "school"} <=> setter'[t].at \in {"look", "school"}
    BY DEF Alone, IsSetup, SetupTypeOK, Ask, Free
  <1>5. \A t \in Setter : LogoTells(t)'
    <2> TAKE t \in Setter
    <2>1. CASE ~IsSetup(t)
      BY <1>3, <2>1 DEF LogoTells, IsSetup
    <2>2. CASE IsSetup(t)
      <3>1. LogoTells(t) /\ sets \in Nat
        BY DEF LogosInv, SetupTypeOK
      <3> QED BY <1>1, <1>4, <2>2, <3>1 DEF LogoTells, IsSetup
    <2> QED BY <2>1, <2>2
  <1>6. Sets("setup")' = Sets("setup")
    BY <1>3 DEF Sets, IsSetup, Awaits
  <1>7. \A t, v \in Sets("setup")' : setter'[t].logo = setter'[v].logo /\ setter'[t].logo # 0 => t = v
    BY <1>4, <1>6 DEF LogosInv, Sets, IsSetup, Awaits
  <1>8. LogosAreSchools'
    <2>1. \A t \in Sets("setup") : setter'[t].logo = setter[t].logo
      BY <1>4 DEF Sets, IsSetup, Awaits
    <2> QED BY <1>1, <1>6, <2>1 DEF LogosInv, LogosAreSchools
  <1> QED BY <1>1, <1>2, <1>5, <1>7, <1>8 DEF LogosInv

\* A user whom a step does not concern.
LEMMA OtherUsersTell ==
    ASSUME NEW u \in User, NEW s \in Setter, Alone(s), torn \subseteq torn',
           setter[s].at # "idle" => setter[s].u # u,
           setter'[s].at # "idle" => setter'[s].u # u,
           user'[u] = user[u], <<"user", u>> \in torn \/ UserTells(u)
    PROVE  <<"user", u>> \in torn' \/ UserTells(u)'
  <1>1. OnUser(u)' = OnUser(u)
    BY DEF OnUser, Alone, Awaits
  <1>2. \A t \in OnUser(u) : setter'[t] = setter[t]
    BY DEF OnUser, Alone, Awaits
  <1> QED BY <1>1, <1>2 DEF UserTells

\* A request goes on with its user, or ends.
LEMMA UserGoesOn ==
    ASSUME \A u \in User : <<"user", u>> \in torn \/ UserTells(u),
           NEW s \in Setter, setter[s].at # "idle", setter[s].u \in User, torn \subseteq torn',
           \A v \in User \ {setter[s].u} : user'[v] = user[v],
           \/ /\ Freed(s)
              /\ \/ <<"user", setter[s].u>> \in torn'
                 \/ AccountTells(user[setter[s].u], setter[s].at, setter[s].k) =>
                       AccountTells(user'[setter[s].u], "idle", Nowhere)
           \/ /\ Moved(s, setter'[s].at) /\ setter'[s].at # "idle"
              /\ AccountTells(user[setter[s].u], setter[s].at, setter[s].k) =>
                    AccountTells(user'[setter[s].u], setter'[s].at, setter[s].k)
    PROVE  \A u \in User : <<"user", u>> \in torn' \/ UserTells(u)'
  <1> TAKE v \in User
  <1>1. Alone(s)
    BY DEF Freed, Moved
  <1>2. CASE v # setter[s].u
    BY <1>1, <1>2, OtherUsersTell DEF Freed, Moved
  <1>3. CASE v = setter[s].u /\ <<"user", v>> \notin torn'
    <2>1. s \in OnUser(v)
      BY <1>3 DEF OnUser, Awaits
    <2>2. UserTells(v)
      BY <1>3
    <2>3. /\ \A t \in OnUser(v) : t = s
          /\ AccountTells(user[v], setter[s].at, setter[s].k)
      BY <2>1, <2>2 DEF UserTells
    <2>4. \A t \in OnUser(v)' : t = s
      BY <1>1, <2>3 DEF OnUser, Alone, Awaits
    <2>5. CASE Freed(s)
      <3>1. OnUser(v)' = {}
        BY <2>4, <2>5 DEF Freed, OnUser, Awaits
      <3>2. AccountTells(user'[v], "idle", Nowhere)
        BY <1>3, <2>3, <2>5 DEF Freed, Moved
      <3> QED BY <3>1, <3>2 DEF UserTells, AccountTells, Admits
    <2>6. CASE Moved(s, setter'[s].at) /\ setter'[s].at # "idle"
      <3>1. s \in OnUser(v)' /\ setter'[s].k = setter[s].k
        BY <1>3, <2>6 DEF Moved, OnUser, Awaits
      <3>2. AccountTells(user'[v], setter'[s].at, setter'[s].k)
        BY <1>3, <2>3, <2>6, <3>1 DEF Freed
      <3> QED BY <2>4, <3>1, <3>2 DEF UserTells, AccountTells, Admits
    <2> QED BY <2>5, <2>6
  <1> QED BY <1>2, <1>3

\* A request begins for a user.
LEMMA UserBegins ==
    ASSUME \A u \in User : <<"user", u>> \in torn \/ UserTells(u),
           NEW s \in Setter, setter[s].at = "idle", NEW u \in User, Alone(s),
           setter'[s].at # "idle", setter'[s].u = u, torn \subseteq torn',
           OnUser(u) # {} => <<"user", u>> \in torn',
           \A v \in User \ {u} : user'[v] = user[v],
           AccountTells(user[u], "idle", Nowhere) =>
              AccountTells(user'[u], setter'[s].at, setter'[s].k)
    PROVE  \A v \in User : <<"user", v>> \in torn' \/ UserTells(v)'
  <1> TAKE v \in User
  <1>1. CASE v # u
    BY <1>1, OtherUsersTell
  <1>2. CASE v = u /\ <<"user", v>> \notin torn'
    <2>1. OnUser(u) = {} /\ UserTells(u)
      BY <1>2
    <2>2. AccountTells(user'[u], setter'[s].at, setter'[s].k)
      BY <2>1 DEF UserTells
    <2>3. \A t \in OnUser(u)' : t = s
      BY <2>1 DEF OnUser, Alone, Awaits
    <2>4. s \in OnUser(u)'
      BY DEF OnUser, Awaits
    <2> QED BY <1>2, <2>2, <2>3, <2>4 DEF UserTells, AccountTells, Admits
  <1> QED BY <1>1, <1>2

\* The file of a set-up goes with it; a school that keeps its name is half made.
LEMMA FileGoes ==
    ASSUME SetupTypeOK, LogosInv, NEW s \in Setter, Freed(s), torn \subseteq torn',
           IsSetup(s), school' = school, sets' = sets, logos' = logos \ {setter[s].logo},
           \A k \in Founded : setter[s].logo # 0 /\ school[k].logo = setter[s].logo =>
              <<"school", k>> \in torn'
    PROVE  LogosInv'
  <1>1. PICK f : f = setter[s].logo
    OBVIOUS
  <1>2. Founded' = Founded /\ Alone(s) /\ logos' = logos \ {f} /\ s \in Sets("setup")
    BY <1>1 DEF Founded, Freed, Sets, Awaits, IsSetup
  <1>3. \A t \in Sets("setup")' :
           t \in Sets("setup") /\ setter'[t] = setter[t] /\ (f # 0 => setter[t].logo # f)
    BY <1>1, <1>2 DEF LogosInv, Sets, Awaits, Alone, Freed
  <1>4. \A t \in Sets("setup") : t # s => t \in Sets("setup")' /\ setter'[t] = setter[t]
    BY <1>2 DEF Sets, Awaits, Alone
  <1>5. \A t \in Setter : LogoTells(t)'
    <2> SUFFICES ASSUME NEW t \in Setter, IsSetup(t)' PROVE LogoTells(t)'
      BY DEF LogoTells, IsSetup
    <2>1. t \in Sets("setup")' /\ LogoTells(t)
      BY DEF IsSetup, Sets, Awaits, LogosInv
    <2> QED BY <1>2, <1>3, <2>1 DEF LogoTells, Sets, Awaits
  <1>6. \A t, v \in Sets("setup")' : setter'[t].logo = setter'[v].logo /\ setter'[t].logo # 0 => t = v
    BY <1>3 DEF LogosInv
  <1>7. LogosAreSchools'
    <2>1. \A k \in Founded : school[k].logo \in logos' \cup {0} \/ <<"school", k>> \in torn'
      BY <1>1, <1>2 DEF LogosInv, LogosAreSchools
    <2>2. ASSUME NEW x \in logos'
          PROVE  \/ \E k \in Founded : school[k].logo = x
                 \/ \E t \in Sets("setup")' : setter'[t].logo = x
                 \/ <<"file", x>> \in torn'
      <3>1. x \in logos /\ x # f
        BY <1>2, <2>2
      <3>2. CASE \E t \in Sets("setup") : setter[t].logo = x
        <4>1. PICK t \in Sets("setup") : setter[t].logo = x
          BY <3>2
        <4>2. t # s
          BY <1>1, <3>1, <4>1
        <4> QED BY <1>4, <4>1, <4>2
      <3>3. CASE (\E k \in Founded : school[k].logo = x) \/ <<"file", x>> \in torn
        BY <3>3
      <3> QED BY <3>1, <3>2, <3>3 DEF LogosInv, LogosAreSchools
    <2> QED BY <1>2, <2>1, <2>2 DEF LogosAreSchools
  <1> QED BY <1>2, <1>5, <1>6, <1>7 DEF LogosInv

\* A set-up ends and its file stays: a school's, or that of a process that died.
LEMMA FileStays ==
    ASSUME SetupTypeOK, LogosInv, NEW s \in Setter, Freed(s), torn \subseteq torn',
           IsSetup(s), school' = school, sets' = sets, logos' = logos,
           \/ setter[s].k \in Founded /\ school[setter[s].k].logo = setter[s].logo
           \/ <<"file", setter[s].logo>> \in torn'
    PROVE  LogosInv'
  <1>1. Founded' = Founded /\ Alone(s)
    BY DEF Founded, Freed
  <1>2. \A t \in Sets("setup")' : t \in Sets("setup") /\ setter'[t] = setter[t]
    BY <1>1 DEF Sets, Awaits, Alone, Freed
  <1>3. \A t \in Sets("setup") : t # s => t \in Sets("setup")' /\ setter'[t] = setter[t]
    BY <1>1 DEF Sets, Awaits, Alone
  <1>4. \A t \in Setter : LogoTells(t)'
    <2> SUFFICES ASSUME NEW t \in Setter, IsSetup(t)' PROVE LogoTells(t)'
      BY DEF LogoTells, IsSetup
    <2>1. t \in Sets("setup")' /\ LogoTells(t)
      BY DEF IsSetup, Sets, Awaits, LogosInv
    <2> QED BY <1>1, <1>2, <2>1 DEF LogoTells, Sets, Awaits
  <1>5. \A t, v \in Sets("setup")' : setter'[t].logo = setter'[v].logo /\ setter'[t].logo # 0 => t = v
    BY <1>2 DEF LogosInv
  <1>6. LogosAreSchools'
    <2>1. \A k \in Founded : school[k].logo \in logos' \cup {0} \/ <<"school", k>> \in torn'
      BY DEF LogosInv, LogosAreSchools
    <2>2. ASSUME NEW x \in logos
          PROVE  \/ \E k \in Founded : school[k].logo = x
                 \/ \E t \in Sets("setup")' : setter'[t].logo = x
                 \/ <<"file", x>> \in torn'
      <3>1. CASE \E t \in Sets("setup") : setter[t].logo = x
        <4>1. PICK t \in Sets("setup") : setter[t].logo = x
          BY <3>1
        <4>2. CASE t = s
          BY <4>1, <4>2
        <4>3. CASE t # s
          BY <1>3, <4>1, <4>3
        <4> QED BY <4>2, <4>3
      <3>2. CASE (\E k \in Founded : school[k].logo = x) \/ <<"file", x>> \in torn
        BY <3>2
      <3> QED BY <3>1, <3>2 DEF LogosInv, LogosAreSchools
    <2> QED BY <1>1, <2>1, <2>2 DEF LogosAreSchools
  <1> QED BY <1>1, <1>4, <1>5, <1>6 DEF LogosInv

LEMMA FreedMakers ==
    ASSUME SetupTypeOK, ErrandInv, MakerInv, NEW s \in Setter, SettersTell, Freed(s),
           school' = school, branch' = branch, user' = user, opened' = opened
    PROVE  MakerInv'
  <1>1. Alone(s) /\ MakerTells(s)' /\ setter'[s].at \notin Making
    BY DEF Freed, MakerTells, Making
  <1> QED BY <1>1, MakerStays

LEMMA AskIs ==
    ASSUME SetupTypeOK, ErrandInv, NEW s \in Setter, setter[s].at # "idle"
    PROVE  /\ setter[s] \in Ask /\ setter[s].at \in SetupPc
           /\ setter[s].kind \in ErrandAt(setter[s].at)
           /\ setter[s].k \in Place /\ setter[s].logo \in Nat /\ setter[s].n \in Nat
           /\ setter[s].kind = "setup" => setter[s].k \in Code
           /\ setter[s].kind # "branch" => setter[s].u \in User
           /\ setter[s].kind = "branch" => setter[s].u \notin User
  <1>1. PICK ask : ask = setter[s]
    OBVIOUS
  <1>2. ask \in Ask
    BY <1>1 DEF SetupTypeOK, Free
  <1>3. /\ ask.at \in SetupPc /\ ask.k \in Place /\ ask.logo \in Nat /\ ask.n \in Nat
    BY <1>2 DEF Ask
  <1>4. /\ ask.kind \in ErrandAt(ask.at) /\ (ask.kind = "setup" => ask.k \in Code)
        /\ IF ask.kind = "branch" THEN ask.u = Nowhere ELSE ask.u \in User
    BY <1>1 DEF ErrandInv
  <1>5. ask.kind = "branch" => ask.u \notin User
    BY <1>4, SetupAssumption
  <1> QED BY <1>1, <1>2, <1>3, <1>4, <1>5

LEMMA ErrandStays ==
    ASSUME ErrandInv, NEW s \in Setter, Alone(s),
           setter'[s].at # "idle" =>
              /\ setter'[s].kind \in ErrandAt(setter'[s].at)
              /\ setter'[s].kind = "setup" => setter'[s].k \in Code
              /\ IF setter'[s].kind = "branch" THEN setter'[s].u = Nowhere
                 ELSE setter'[s].u \in User
    PROVE  ErrandInv'
  <1>1. ASSUME NEW t \in Setter, setter'[t].at # "idle"
        PROVE  /\ setter'[t].kind \in ErrandAt(setter'[t].at)
               /\ setter'[t].kind = "setup" => setter'[t].k \in Code
               /\ IF setter'[t].kind = "branch" THEN setter'[t].u = Nowhere
                  ELSE setter'[t].u \in User
    <2>1. CASE t = s
      BY <1>1, <2>1
    <2>2. CASE t # s
      BY <1>1, <2>2 DEF ErrandInv, Alone
    <2> QED BY <2>1, <2>2
  <1> QED BY <1>1 DEF ErrandInv, ErrandAt

LEMMA UsersStay ==
    ASSUME ErrandInv, UsersInv, NEW s \in Setter, Alone(s),
           \A u \in User : /\ user[u].login => user'[u].login
                           /\ ~user'[u].login => user'[u].points = user[u].points,
           setter'[s].at \in {"assign", "count", "staff row", "land", "point"} =>
              user'[setter'[s].u].login,
           \A u \in User : <<"user", u>> \in torn' \/ UserTells(u)'
    PROVE  UsersInv'
  <1>1. \A u \in User : ~user'[u].login => user'[u].points = Nowhere
    BY DEF UsersInv
  <1>2. \A t \in Setter \ {s} :
           setter'[t].at \in {"assign", "count", "staff row", "land", "point"} =>
              user'[setter'[t].u].login
    <2> TAKE t \in Setter \ {s}
    <2>1. setter'[t] = setter[t]
      BY DEF Alone
    <2>2. setter[t].at \in {"assign", "count", "staff row", "land", "point"} =>
             setter[t].u \in User /\ user[setter[t].u].login
      BY DEF UsersInv, ErrandInv, ErrandAt
    <2> QED BY <2>1, <2>2
  <1> QED BY <1>1, <1>2 DEF UsersInv

LEMMA AccountShape ==
    ASSUME SetupTypeOK, NEW u \in User, NEW after \in Account, user' = [user EXCEPT ![u] = after]
    PROVE  /\ user' \in [User -> Account] /\ user'[u] = after
           /\ \A v \in User \ {u} : user'[v] = user[v]
  BY DEF SetupTypeOK

-----------------------------------------------------------------------------
(* The set-up wizard *)

LEMMA StartSetupKeeps ==
    ASSUME SetupInv, NEW s \in Setter, NEW k \in Code, NEW u \in User, NEW withLogo \in BOOLEAN,
           StartSetup(s, k, u, withLogo)
    PROVE  SetupInv'
  <1>1. SetupTypeOK /\ ErrandInv /\ FoundedInv /\ MakerInv /\ LogosInv /\ UsersInv
    BY DEF SetupInv
  <1>2. PICK f : f = IF withLogo THEN sets + 1 ELSE 0
    OBVIOUS
  <1>3. /\ Founded = {} /\ UNCHANGED <<school, branch, user, registry, opened>>
        /\ Accepted(s, "look", "setup", u, k, f) /\ logos' = logos \cup {x \in {sets + 1} : withLogo}
    BY <1>2 DEF StartSetup, Provisioned
  <1>4. sets \in Nat /\ f \in Nat /\ k \in Place
    BY <1>1, <1>2 DEF SetupTypeOK, Place
  <1>5. /\ SettersTell /\ Alone(s) /\ setter[s].at = "idle" /\ setter'[s].at = "look"
        /\ setter'[s].kind = "setup" /\ setter'[s].u = u /\ setter'[s].k = k
        /\ setter'[s].logo = f /\ sets' = sets + 1 /\ torn \subseteq torn'
        /\ OnUser(u) # {} => <<"user", u>> \in torn'
        /\ Sets("setup") # {} => <<"set-ups", 0>> \in torn'
    <2>1. "look" \in SetupPc /\ "setup" \in Errand
      BY DEF SetupPc, Errand
    <2> QED BY <1>1, <1>3, <1>4, <2>1, AcceptedShape
  <1>6. SetupTypeOK'
    <2>1. logos' \subseteq Nat \ {0} /\ sets' \in Nat
      <3>1. sets + 1 \in Nat \ {0} /\ logos \subseteq Nat \ {0}
        BY <1>1, <1>4 DEF SetupTypeOK
      <3> QED BY <1>3, <1>5, <3>1
    <2> QED BY <1>1, <1>3, <1>5, <2>1 DEF SetupTypeOK, SettersTell
  <1>7. ErrandInv'
    BY <1>1, <1>5, ErrandStays DEF ErrandAt
  <1>8. FoundedInv'
    <2>1. CASE Sets("setup") # {}
      BY <1>5, <2>1 DEF FoundedInv
    <2>2. CASE Sets("setup") = {}
      <3>1. \A t \in Sets("setup")' : t = s
        BY <1>5, <2>2 DEF Sets, Alone, Awaits
      <3>2. Founded' = {}
        BY <1>3 DEF Founded
      <3> QED BY <3>1, <3>2 DEF FoundedInv
    <2> QED BY <2>1, <2>2
  <1>9. MakerInv'
    <2>1. MakerTells(s)'
      BY <1>5 DEF MakerTells, Making
    <2> QED BY <1>1, <1>3, <1>5, <2>1, MakerStays DEF Making
  <1>10. LogosInv'
    <2>1. Founded' = {}
      BY <1>3 DEF Founded
    <2>2. f # 0 => f = sets + 1 /\ f \in logos'
      BY <1>2, <1>3
    <2>3. \A t \in Sets("setup") : setter[t].logo \in Nat /\ setter[t].logo <= sets
      BY <1>1 DEF LogosInv, LogoTells, Sets, Awaits, SetupTypeOK, Ask, Free
    <2>4. \A t \in Setter \ {s} : /\ setter'[t] = setter[t]
                                  /\ t \in Sets("setup")' <=> t \in Sets("setup")
      BY <1>5 DEF Alone, Sets, Awaits
    <2>5. s \in Sets("setup")'
      BY <1>5 DEF Sets, Awaits
    <2>6. \A t \in Setter : LogoTells(t)'
      <3> TAKE t \in Setter
      <3>1. CASE t = s
        BY <1>4, <1>5, <2>1, <2>2, <3>1 DEF LogoTells
      <3>2. CASE t # s
        <4>1. LogoTells(t)
          BY <1>1 DEF LogosInv
        <4> QED BY <1>3, <1>4, <1>5, <2>1, <2>3, <2>4, <3>2, <4>1 DEF LogoTells, Sets, Awaits
      <3> QED BY <3>1, <3>2
    <2>7. \A t, v \in Sets("setup")' :
             setter'[t].logo = setter'[v].logo /\ setter'[t].logo # 0 => t = v
      BY <1>1, <1>4, <1>5, <2>2, <2>3, <2>4 DEF LogosInv, Sets
    <2>8. LogosAreSchools'
      <3>1. \A x \in logos : \/ \E t \in Sets("setup") : setter[t].logo = x
                             \/ <<"file", x>> \in torn
        BY <1>1, <1>3 DEF LogosInv, LogosAreSchools
      <3>2. \A t \in Sets("setup") : t # s
        BY <1>5 DEF Sets, Awaits
      <3>3. \A x \in logos : \/ \E t \in Sets("setup")' : setter'[t].logo = x
                             \/ <<"file", x>> \in torn'
        <4> TAKE x \in logos
        <4>1. CASE \E t \in Sets("setup") : setter[t].logo = x
          <5>1. PICK t \in Sets("setup") : setter[t].logo = x
            BY <4>1
          <5>2. t \in Setter \ {s}
            BY <3>2, <5>1 DEF Sets
          <5>3. t \in Sets("setup")' /\ setter'[t].logo = x
            BY <2>4, <5>1, <5>2
          <5> QED BY <5>3
        <4>2. CASE <<"file", x>> \in torn
          BY <1>5, <4>2
        <4> QED BY <3>1, <4>1, <4>2
      <3>4. \A x \in logos' : x \in logos \/ x = f
        BY <1>2, <1>3
      <3> QED BY <1>5, <2>1, <2>5, <3>3, <3>4 DEF LogosAreSchools
    <2> QED BY <2>1, <2>6, <2>7, <2>8 DEF LogosInv
  <1>11. UsersInv'
    <2>1. \A v \in User : <<"user", v>> \in torn' \/ UserTells(v)'
      BY <1>1, <1>3, <1>5, UserBegins DEF UsersInv, AccountTells
    <2> QED BY <1>1, <1>3, <1>5, <2>1, UsersStay
  <1> QED BY <1>6, <1>7, <1>8, <1>9, <1>10, <1>11 DEF SetupInv

LEMMA NextIsMore ==
    ASSUME NEW n \in Nat
    PROVE  n + 1 \in Nat /\ n <= n + 1
  OBVIOUS

LEMMA AtMostItself ==
    ASSUME NEW n \in Nat
    PROVE  n <= n
  OBVIOUS

\* What happens to the account of the request's user, at a step to pc.
AccountGoesOn(s, pc) ==
    /\ \A v \in User : v # setter[s].u => user'[v] = user[v]
    /\ setter[s].u \in User =>
          /\ user[setter[s].u].login => user'[setter[s].u].login
          /\ user[setter[s].u].login /\ Whole \in user[setter[s].u].held =>
                Whole \in user'[setter[s].u].held
          /\ \/ user'[setter[s].u].staff = user[setter[s].u].staff
             \/ setter[s].at \in Making \/ ~user[setter[s].u].login
          /\ ~user'[setter[s].u].login => user'[setter[s].u].points = user[setter[s].u].points
          /\ \/ <<"user", setter[s].u>> \in torn'
             \/ AccountTells(user[setter[s].u], setter[s].at, setter[s].k) =>
                   AccountTells(user'[setter[s].u], pc, IF pc = "idle" THEN Nowhere ELSE setter[s].k)
          /\ pc \in {"assign", "count", "staff row", "land", "point"} =>
                user'[setter[s].u].login

BranchesGrow ==
    /\ branch' \in [Place -> {"none", "bare", "year", "ready"}]
    /\ \A k \in Place : /\ branch[k] # "none" => branch'[k] # "none"
                        /\ branch[k] = "ready" => branch'[k] = "ready"

\* A step of a request past its first two.
LEMMA StepOn ==
    ASSUME SetupInv, NEW s \in Setter, setter[s].at \notin {"idle", "look", "school"},
           NEW pc \in SetupPc \ {"look", "school"}, SettersTell, Moved(s, pc),
           setter[s].kind \in ErrandAt(pc),
           school' = school, logos' = logos, sets' = sets, opened' = opened, torn' = torn,
           BranchesGrow, user' \in [User -> Account], AccountGoesOn(s, pc),
           MakerTells(s)',
           pc \in Making => setter[s].at \in Making \/ ~user[setter[s].u].login
    PROVE  SetupInv'
  <1>1. SetupTypeOK /\ ErrandInv /\ FoundedInv /\ MakerInv /\ LogosInv /\ UsersInv
    BY DEF SetupInv
  <1>2. /\ Alone(s) /\ setter'[s].at = pc /\ setter'[s].kind = setter[s].kind
        /\ setter'[s].u = setter[s].u /\ setter'[s].k = setter[s].k
        /\ setter'[s].logo = setter[s].logo /\ pc # "idle"
    BY DEF Moved, SetupPc
  <1>3. SetupTypeOK'
    BY <1>1 DEF SetupTypeOK, SettersTell, BranchesGrow
  <1>4. ErrandInv'
    BY <1>1, <1>2, ErrandStays DEF ErrandInv
  <1>5. FoundedInv'
    BY <1>1, <1>2, FoundedStays
  <1>6. MakerInv'
    <2>1. pc \in Making => setter[s].u \in User
      BY <1>1, AskIs DEF Making, ErrandAt
    <2>2. \A u \in User : /\ user[u].login => user'[u].login
                          /\ user[u].login /\ Whole \in user[u].held => Whole \in user'[u].held
                          /\ \/ user'[u].staff = user[u].staff
                             \/ setter[s].at \in Making /\ u = setter[s].u
                             \/ ~user[u].login
      BY DEF AccountGoesOn
    <2> QED BY <1>1, <1>2, <2>1, <2>2, MakerStays DEF BranchesGrow
  <1>7. LogosInv'
    <2>1. sets' \in Nat /\ sets <= sets'
      BY <1>1, AtMostItself DEF SetupTypeOK
    <2>2. IsSetup(s)' <=> IsSetup(s)
      BY <1>2 DEF IsSetup
    <2> QED BY <1>1, <1>2, <2>1, <2>2, LogosStay
  <1>8. UsersInv'
    <2>1. \A v \in User : <<"user", v>> \in torn' \/ UserTells(v)'
      <3>1. CASE setter[s].u \in User
        <4>1. CASE <<"user", setter[s].u>> \in torn'
          <5>1. \A v \in User \ {setter[s].u} : <<"user", v>> \in torn' \/ UserTells(v)'
            BY <1>1, <1>2, OtherUsersTell DEF AccountGoesOn, UsersInv
          <5> QED BY <4>1, <5>1
        <4>2. CASE <<"user", setter[s].u>> \notin torn'
          <5>1. \A v \in User \ {setter[s].u} : user'[v] = user[v]
            BY DEF AccountGoesOn
          <5>2. AccountTells(user[setter[s].u], setter[s].at, setter[s].k) =>
                   AccountTells(user'[setter[s].u], setter'[s].at, setter[s].k)
            BY <1>2, <3>1, <4>2 DEF AccountGoesOn
          <5>3. Moved(s, setter'[s].at) /\ setter'[s].at # "idle"
            BY <1>2
          <5> QED BY <1>1, <3>1, <5>1, <5>2, <5>3, UserGoesOn DEF UsersInv
        <4> QED BY <4>1, <4>2
      <3>2. CASE setter[s].u \notin User
        BY <1>1, <1>2, <3>2, OtherUsersTell DEF AccountGoesOn, UsersInv
      <3> QED BY <3>1, <3>2
    <2>2. \A v \in User : /\ user[v].login => user'[v].login
                          /\ ~user'[v].login => user'[v].points = user[v].points
      BY DEF AccountGoesOn
    <2>3. pc \in {"assign", "count", "staff row", "land", "point"} => user'[setter[s].u].login
      <3>1. pc \in {"assign", "count", "staff row", "land", "point"} => setter[s].u \in User
        BY <1>1, AskIs DEF ErrandAt
      <3> QED BY <3>1 DEF AccountGoesOn
    <2> QED BY <1>1, <1>2, <2>1, <2>2, <2>3, UsersStay
  <1> QED BY <1>3, <1>4, <1>5, <1>6, <1>7, <1>8 DEF SetupInv

\* The end of a request that is no set-up.
LEMMA StepOff ==
    ASSUME SetupInv, NEW s \in Setter, setter[s].at # "idle", setter[s].kind # "setup",
           SettersTell, Freed(s),
           school' = school, logos' = logos, sets' = sets, opened' = opened, torn \subseteq torn',
           BranchesGrow, user' \in [User -> Account], AccountGoesOn(s, "idle")
    PROVE  SetupInv'
  <1>1. SetupTypeOK /\ ErrandInv /\ FoundedInv /\ MakerInv /\ LogosInv /\ UsersInv
    BY DEF SetupInv
  <1>2. Alone(s) /\ setter'[s].at = "idle"
    BY DEF Freed
  <1>3. SetupTypeOK'
    BY <1>1 DEF SetupTypeOK, SettersTell, BranchesGrow
  <1>4. ErrandInv'
    BY <1>1, <1>2, ErrandStays
  <1>5. FoundedInv'
    BY <1>1, <1>2, FoundedStays
  <1>6. MakerInv'
    <2>1. MakerTells(s)'
      BY <1>2 DEF MakerTells, Making
    <2>2. \A u \in User : /\ user[u].login => user'[u].login
                          /\ user[u].login /\ Whole \in user[u].held => Whole \in user'[u].held
                          /\ \/ user'[u].staff = user[u].staff
                             \/ setter[s].at \in Making /\ u = setter[s].u
                             \/ ~user[u].login
      BY DEF AccountGoesOn
    <2> QED BY <1>1, <1>2, <2>1, <2>2, MakerStays DEF BranchesGrow, Making
  <1>7. LogosInv'
    <2>1. sets' \in Nat /\ sets <= sets'
      BY <1>1, AtMostItself DEF SetupTypeOK
    <2>2. ~IsSetup(s) /\ ~IsSetup(s)'
      BY <1>2 DEF IsSetup
    <2> QED BY <1>1, <1>2, <2>1, <2>2, LogosStay
  <1>8. UsersInv'
    <2>1. \A v \in User : <<"user", v>> \in torn' \/ UserTells(v)'
      <3>1. CASE setter[s].u \in User
        <4>1. \A v \in User \ {setter[s].u} : user'[v] = user[v]
          BY DEF AccountGoesOn
        <4>2. \/ <<"user", setter[s].u>> \in torn'
              \/ AccountTells(user[setter[s].u], setter[s].at, setter[s].k) =>
                    AccountTells(user'[setter[s].u], "idle", Nowhere)
          BY <3>1 DEF AccountGoesOn
        <4> QED BY <1>1, <3>1, <4>1, <4>2, UserGoesOn DEF UsersInv
      <3>2. CASE setter[s].u \notin User
        BY <1>1, <1>2, <3>2, OtherUsersTell DEF AccountGoesOn, UsersInv
      <3> QED BY <3>1, <3>2
    <2>2. \A v \in User : /\ user[v].login => user'[v].login
                          /\ ~user'[v].login => user'[v].points = user[v].points
      BY DEF AccountGoesOn
    <2> QED BY <1>1, <1>2, <2>1, <2>2, UsersStay
  <1> QED BY <1>3, <1>4, <1>5, <1>6, <1>7, <1>8 DEF SetupInv

LEMMA LookAgainKeeps ==
    ASSUME SetupInv, NEW s \in Setter, LookAgain(s)
    PROVE  SetupInv'
  <1>1. SetupTypeOK /\ ErrandInv /\ FoundedInv /\ MakerInv /\ LogosInv /\ UsersInv
    BY DEF SetupInv
  <1>2. /\ setter[s].at = "look" /\ setter[s].kind = "setup" /\ setter[s].u \in User
        /\ setter[s].k \in Code /\ setter[s].logo \in Nat /\ sets \in Nat
    <2>1. setter[s].at = "look"
      BY DEF LookAgain, Awaits
    <2>2. setter[s].kind \in {"setup"} /\ sets \in Nat
      BY <1>1, <2>1, AskIs DEF ErrandAt, SetupTypeOK
    <2> QED BY <1>1, <2>1, <2>2, AskIs
  <1>3. school' = school /\ branch' = branch /\ user' = user /\ opened' = opened
    BY DEF LookAgain
  <1>4. sets' = sets /\ torn' = torn
    BY DEF LookAgain, Answered, Proceeds
  <1>5. CASE Answered(s) /\ WithoutLogo(s)
    <2>1. SettersTell /\ Freed(s) /\ logos' = logos \ {setter[s].logo}
      BY <1>1, <1>5, FreedShape DEF Answered, WithoutLogo
    <2>2. SetupTypeOK'
      BY <1>1, <1>3, <1>4, <2>1 DEF SetupTypeOK, SettersTell
    <2>3. ErrandInv'
      BY <1>1, <2>1, ErrandStays DEF Freed
    <2>4. FoundedInv'
      BY <1>1, <1>3, <1>4, <2>1, FoundedStays DEF Freed
    <2>5. MakerInv'
      <3>1. MakerTells(s)'
        BY <2>1 DEF MakerTells, Making, Freed
      <3> QED BY <1>1, <1>3, <2>1, <3>1, MakerStays DEF Making, Freed
    <2>6. LogosInv'
      <3>1. \A k \in Founded : setter[s].logo # 0 => school[k].logo # setter[s].logo
        BY <1>1, <1>2 DEF LogosInv, LogoTells
      <3>2. IsSetup(s)
        BY <1>2 DEF IsSetup
      <3> QED BY <1>1, <1>3, <1>4, <2>1, <3>1, <3>2, FileGoes
    <2>7. UsersInv'
      <3>1. \A v \in User : <<"user", v>> \in torn' \/ UserTells(v)'
        <4>1. AccountTells(user[setter[s].u], setter[s].at, setter[s].k) =>
                 AccountTells(user'[setter[s].u], "idle", Nowhere)
          BY <1>2, <1>3 DEF AccountTells
        <4> QED BY <1>1, <1>2, <1>3, <1>4, <2>1, <4>1, UserGoesOn DEF UsersInv
      <3> QED BY <1>1, <1>3, <2>1, <3>1, UsersStay DEF Freed
    <2> QED BY <2>2, <2>3, <2>4, <2>5, <2>6, <2>7 DEF SetupInv
  <1>6. CASE Proceeds(s, "school") /\ ~Provisioned /\ logos' = logos
    <2>1. SettersTell /\ Moved(s, "school")
      BY <1>1, <1>2, <1>6, MovedShape DEF Proceeds, SetupPc
    <2>2. Alone(s) /\ setter'[s].at = "school" /\ setter'[s].kind = "setup"
      BY <1>2, <2>1 DEF Moved
    <2>3. SetupTypeOK'
      BY <1>1, <1>3, <1>4, <1>6, <2>1 DEF SetupTypeOK, SettersTell
    <2>4. ErrandInv'
      BY <1>1, <1>2, <2>1, <2>2, ErrandStays DEF Moved, ErrandAt
    <2>5. FoundedInv'
      <3>1. Founded' = {}
        BY <1>3, <1>6 DEF Provisioned, Founded
      <3>2. Sets("setup")' = Sets("setup")
        BY <1>2, <2>2 DEF Sets, Alone, Awaits
      <3> QED BY <1>1, <1>4, <3>1, <3>2 DEF FoundedInv
    <2>6. MakerInv'
      <3>1. MakerTells(s)'
        BY <2>2 DEF MakerTells, Making
      <3> QED BY <1>1, <1>3, <2>1, <2>2, <3>1, MakerStays DEF Making
    <2>7. LogosInv'
      <3>1. IsSetup(s) /\ IsSetup(s)'
        BY <1>2, <2>2 DEF IsSetup
      <3> QED BY <1>1, <1>2, <1>3, <1>4, <1>6, <2>1, <2>2, <3>1, LogosStay DEF Moved
    <2>8. UsersInv'
      <3>1. \A v \in User : <<"user", v>> \in torn' \/ UserTells(v)'
        <4>1. AccountTells(user[setter[s].u], setter[s].at, setter[s].k) =>
                 AccountTells(user'[setter[s].u], setter'[s].at, setter[s].k)
          BY <1>2, <1>3, <2>2 DEF AccountTells
        <4> QED BY <1>1, <1>2, <1>3, <1>4, <2>1, <2>2, <4>1, UserGoesOn DEF UsersInv
      <3> QED BY <1>1, <1>3, <2>2, <3>1, UsersStay
    <2> QED BY <2>3, <2>4, <2>5, <2>6, <2>7, <2>8 DEF SetupInv
  <1> QED BY <1>5, <1>6 DEF LookAgain

LEMMA CreateSchoolKeeps ==
    ASSUME SetupInv, NEW s \in Setter, CreateSchool(s)
    PROVE  SetupInv'
  <1>1. SetupTypeOK /\ ErrandInv /\ FoundedInv /\ MakerInv /\ LogosInv /\ UsersInv
    BY DEF SetupInv
  <1>2. setter[s].at = "school"
    BY DEF CreateSchool, Awaits
  <1>3. PICK k, f : k = setter[s].k /\ f = setter[s].logo
    OBVIOUS
  <1>4. /\ setter[s].kind = "setup" /\ setter[s].u \in User /\ k \in Code /\ f \in Nat
        /\ sets \in Nat
    <2>1. setter[s].kind \in {"setup"} /\ sets \in Nat
      BY <1>1, <1>2, AskIs DEF ErrandAt, SetupTypeOK
    <2> QED BY <1>1, <1>2, <1>3, <2>1, AskIs
  <1>5. PICK new \in [row : BOOLEAN, logo : Nat] : new = [row |-> TRUE, logo |-> f]
    BY <1>4
  <1>6. new.row /\ new.logo = f
    BY <1>5
  <1>7. /\ ~school[k].row /\ school' = [school EXCEPT ![k] = new]
        /\ branch' = [branch EXCEPT ![k] = "bare"] /\ Proceeds(s, "year")
        /\ user' = user /\ logos' = logos /\ opened' = opened
    BY <1>3, <1>5 DEF CreateSchool
  <1>8. /\ school' \in [Code -> [row : BOOLEAN, logo : Nat]] /\ school'[k] = new
        /\ \A l \in Code \ {k} : school'[l] = school[l]
        /\ branch' \in [Place -> {"none", "bare", "year", "ready"}] /\ branch'[k] = "bare"
        /\ \A l \in Place \ {k} : branch'[l] = branch[l]
    BY <1>1, <1>4, <1>7 DEF SetupTypeOK, Place
  <1>9. SettersTell /\ Moved(s, "year") /\ sets' = sets /\ torn' = torn
    BY <1>1, <1>2, <1>7, MovedShape DEF Proceeds, SetupPc
  <1>10. /\ Alone(s) /\ setter'[s].at = "year" /\ setter'[s].kind = "setup"
         /\ setter'[s].u = setter[s].u /\ setter'[s].k = k /\ setter'[s].logo = f
    BY <1>3, <1>4, <1>9 DEF Moved
  <1>11. Founded' = Founded \cup {k} /\ k \notin Founded
    BY <1>4, <1>6, <1>7, <1>8 DEF Founded
  <1>12. Sets("setup")' = Sets("setup") /\ s \in Sets("setup")
    BY <1>2, <1>4, <1>10 DEF Sets, Alone, Awaits
  <1>13. SetupTypeOK'
    BY <1>1, <1>7, <1>8, <1>9 DEF SetupTypeOK, SettersTell
  <1>14. ErrandInv'
    BY <1>1, <1>4, <1>10, ErrandStays DEF ErrandAt
  <1>15. FoundedInv'
    <2>1. ASSUME <<"set-ups", 0>> \notin torn, NEW t \in Setter, Awaits(t, "school")' PROVE FALSE
      <3>1. t # s /\ setter[t].at = "school"
        BY <1>10, <2>1 DEF Awaits, Alone
      <3>2. t \in Sets("setup")
        BY <1>1, <3>1 DEF Sets, Awaits, ErrandInv, ErrandAt
      <3> QED BY <1>1, <1>12, <2>1, <3>1, <3>2 DEF FoundedInv
    <2>2. <<"set-ups", 0>> \notin torn => Founded = {}
      BY <1>1, <1>2 DEF FoundedInv, Awaits
    <2> QED BY <1>1, <1>9, <1>11, <1>12, <2>1, <2>2 DEF FoundedInv
  <1>16. MakerInv'
    <2>1. MakerTells(s)'
      BY <1>6, <1>8, <1>10 DEF MakerTells, Making
    <2>2. \A l \in Code : school[l].row => school'[l].row
      BY <1>6, <1>8
    <2>3. \A l \in Place : /\ branch[l] # "none" => branch'[l] # "none"
                           /\ l \in Code /\ school[l].row /\ branch[l] = "ready" =>
                                 branch'[l] = "ready"
      BY <1>7, <1>8
    <2> QED BY <1>1, <1>7, <1>9, <1>10, <2>1, <2>2, <2>3, MakerStays DEF Making
  <1>17. LogosInv'
    <2>1. \A t \in Setter \ {s} : setter'[t] = setter[t]
      BY <1>10 DEF Alone
    <2>2. \A l \in Founded : f # 0 => school[l].logo # f
      BY <1>1, <1>2, <1>3, <1>4 DEF LogosInv, LogoTells
    <2>3. f # 0 => f <= sets /\ f \in logos
      BY <1>1, <1>2, <1>3, <1>4 DEF LogosInv, LogoTells
    <2>4. \A l \in Founded : school'[l] = school[l] /\ l \in Code
      BY <1>8, <1>11 DEF Founded
    <2>5. \A t \in Setter : LogoTells(t)'
      <3> TAKE t \in Setter
      <3>1. CASE t = s
        BY <1>6, <1>7, <1>8, <1>9, <1>10, <1>11, <2>2, <2>3, <2>4, <3>1 DEF LogoTells
      <3>2. CASE t # s /\ IsSetup(t)
        <4>1. setter'[t] = setter[t] /\ LogoTells(t) /\ t \in Sets("setup")
          BY <1>1, <2>1, <3>2 DEF LogosInv, Sets, Awaits, IsSetup
        <4>2. setter[t].logo # 0 => setter[t].logo # f
          BY <1>1, <1>3, <1>12, <3>2, <4>1 DEF LogosInv
        <4>3. setter[t].at \notin {"look", "school"} => setter[t].k \in Founded
          BY <1>1, <3>2, <4>1 DEF LogoTells, IsSetup, Founded, ErrandInv
        <4> QED BY <1>6, <1>7, <1>8, <1>9, <1>11, <2>4, <3>2, <4>1, <4>2, <4>3
                DEF LogoTells, IsSetup, Founded
      <3>3. CASE t # s /\ ~IsSetup(t)
        BY <2>1, <3>3 DEF LogoTells, IsSetup
      <3> QED BY <3>1, <3>2, <3>3
    <2>6. \A t, v \in Sets("setup")' :
             setter'[t].logo = setter'[v].logo /\ setter'[t].logo # 0 => t = v
      <3>1. \A t \in Sets("setup") : setter'[t].logo = setter[t].logo
        BY <1>3, <1>10, <2>1 DEF Sets
      <3> QED BY <1>1, <1>12, <3>1 DEF LogosInv
    <2>7. \A l \in Founded' : school'[l].logo <= sets'
      BY <1>1, <1>4, <1>6, <1>8, <1>9, <1>11, <2>3, <2>4 DEF LogosInv
    <2>8. LogosAreSchools'
      <3>1. \A l \in Founded' : school'[l].logo \in logos' \cup {0} \/ <<"school", l>> \in torn'
        <4> TAKE l \in Founded'
        <4>1. CASE l = k
          BY <1>6, <1>7, <1>8, <2>3, <4>1
        <4>2. CASE l \in Founded
          BY <1>1, <1>7, <1>9, <2>4, <4>2 DEF LogosInv, LogosAreSchools
        <4> QED BY <1>11, <4>1, <4>2
      <3>2. \A t \in Sets("setup") : setter'[t].logo = setter[t].logo
        BY <1>3, <1>10, <2>1 DEF Sets
      <3>3. \A x \in logos' : \/ \E l \in Founded' : school'[l].logo = x
                              \/ \E t \in Sets("setup")' : setter'[t].logo = x
                              \/ <<"file", x>> \in torn'
        BY <1>1, <1>7, <1>9, <1>11, <1>12, <2>4, <3>2 DEF LogosInv, LogosAreSchools
      <3> QED BY <3>1, <3>3 DEF LogosAreSchools
    <2> QED BY <2>5, <2>6, <2>7, <2>8 DEF LogosInv
  <1>18. UsersInv'
    <2>1. AccountTells(user[setter[s].u], setter[s].at, setter[s].k) =>
             AccountTells(user'[setter[s].u], setter'[s].at, setter[s].k)
      BY <1>2, <1>7, <1>10 DEF AccountTells
    <2>2. Moved(s, setter'[s].at) /\ setter'[s].at # "idle"
      BY <1>9, <1>10
    <2>3. \A v \in User : <<"user", v>> \in torn' \/ UserTells(v)'
      BY <1>1, <1>2, <1>4, <1>7, <1>9, <2>1, <2>2, UserGoesOn DEF UsersInv
    <2> QED BY <1>1, <1>7, <1>10, <2>3, UsersStay
  <1> QED BY <1>13, <1>14, <1>15, <1>16, <1>17, <1>18 DEF SetupInv

LEMMA FillBranchKeeps ==
    ASSUME SetupInv, NEW s \in Setter, FillBranch(s)
    PROVE  SetupInv'
  <1>1. SetupTypeOK /\ ErrandInv /\ MakerInv
    BY DEF SetupInv
  <1>2. setter[s].at = "year"
    BY DEF FillBranch, Awaits
  <1>3. PICK k, before, next :
            /\ k = setter[s].k /\ before = branch[k]
            /\ next = IF before = "bare" THEN "year"
                      ELSE IF setter[s].kind = "setup" THEN "owner" ELSE "idle"
    OBVIOUS
  <1>4. /\ setter[s].kind \in {"setup", "branch"} /\ k \in Place
        /\ setter[s].kind = "branch" => setter[s].u \notin User
        /\ setter[s].kind = "setup" => setter[s].u \in User /\ k \in Code
    <2>1. setter[s].kind \in {"setup", "branch"}
      BY <1>1, <1>2, AskIs DEF ErrandAt
    <2> QED BY <1>1, <1>2, <1>3, <2>1, AskIs
  <1>5. before # "none" /\ (setter[s].kind = "setup" => school[k].row)
    BY <1>1, <1>2, <1>3 DEF MakerInv, MakerTells
  <1>6. /\ branch' = [branch EXCEPT ![k] = IF before = "bare" THEN "year" ELSE "ready"]
        /\ school' = school /\ user' = user /\ logos' = logos /\ opened' = opened
        /\ IF next = "idle" THEN Answered(s) ELSE Proceeds(s, next)
    BY <1>3 DEF FillBranch
  <1>7. BranchesGrow /\ branch'[k] = IF before = "bare" THEN "year" ELSE "ready"
    BY <1>1, <1>3, <1>4, <1>6 DEF SetupTypeOK, BranchesGrow
  <1>8. sets' = sets /\ torn' = torn /\ user' \in [User -> Account]
    BY <1>1, <1>6 DEF Answered, Proceeds, SetupTypeOK
  <1>9. CASE next = "idle"
    <2>1. SettersTell /\ Freed(s)
      BY <1>1, <1>6, <1>9, FreedShape DEF Answered
    <2>2. setter[s].kind # "setup" /\ AccountGoesOn(s, "idle")
      BY <1>3, <1>4, <1>6, <1>9 DEF AccountGoesOn
    <2> QED BY <1>2, <1>6, <1>7, <1>8, <2>1, <2>2, StepOff
  <1>10. CASE next # "idle"
    <2>1. next \in SetupPc \ {"look", "school"} /\ setter[s].kind \in ErrandAt(next)
      BY <1>3, <1>4, <1>10 DEF SetupPc, ErrandAt
    <2>2. SettersTell /\ Moved(s, next)
      BY <1>1, <1>2, <1>6, <1>10, <2>1, MovedShape DEF Proceeds
    <2>3. AccountGoesOn(s, next)
      BY <1>2, <1>3, <1>4, <1>6, <1>10 DEF AccountGoesOn, AccountTells
    <2>4. MakerTells(s)'
      <3>1. setter'[s].at = next /\ setter'[s].kind = setter[s].kind /\ setter'[s].k = k
        BY <1>3, <2>2 DEF Moved
      <3> QED BY <1>3, <1>4, <1>5, <1>6, <1>7, <1>10, <3>1 DEF MakerTells, Making
    <2>5. next \notin Making
      BY <1>3 DEF Making
    <2> QED BY <1>2, <1>6, <1>7, <1>8, <2>1, <2>2, <2>3, <2>4, <2>5, StepOn
  <1> QED BY <1>9, <1>10

LEMMA CreateOwnerKeeps ==
    ASSUME SetupInv, NEW s \in Setter, CreateOwner(s)
    PROVE  SetupInv'
  <1>1. SetupTypeOK /\ ErrandInv /\ MakerInv /\ UsersInv
    BY DEF SetupInv
  <1>2. setter[s].at = "owner"
    BY DEF CreateOwner, Awaits
  <1>3. PICK u, k : u = setter[s].u /\ k = setter[s].k
    OBVIOUS
  <1>4. setter[s].kind = "setup" /\ u \in User /\ k \in Code /\ k \in Place
    <2>1. setter[s].kind \in {"setup"}
      BY <1>1, <1>2, AskIs DEF ErrandAt
    <2> QED BY <1>1, <1>2, <1>3, <2>1, AskIs
  <1>5. PICK before \in Account : before = user[u]
    BY <1>1, <1>4 DEF SetupTypeOK
  <1>6. PICK after : after = [before EXCEPT !.login = TRUE, !.held = {Whole, k}]
    OBVIOUS
  <1>7. /\ after \in Account /\ after.login /\ after.held = {Whole, k}
        /\ after.staff = before.staff /\ after.points = before.points
    BY <1>4, <1>6 DEF Account
  <1>8. /\ ~before.login /\ user' = [user EXCEPT ![u].login = TRUE, ![u].held = {Whole, k}]
        /\ Proceeds(s, "owner's staff row")
        /\ school' = school /\ branch' = branch /\ logos' = logos /\ opened' = opened
    BY <1>3, <1>5 DEF CreateOwner
  <1>9. user' = [user EXCEPT ![u] = after]
    BY <1>4, <1>5, <1>6, <1>8
  <1>10. /\ user' \in [User -> Account] /\ user'[u] = after
         /\ \A v \in User \ {u} : user'[v] = user[v]
    BY <1>1, <1>4, <1>7, <1>9, AccountShape
  <1>11. /\ SettersTell /\ Moved(s, "owner's staff row") /\ sets' = sets /\ torn' = torn
         /\ "owner's staff row" \in SetupPc \ {"look", "school"}
         /\ setter[s].kind \in ErrandAt("owner's staff row")
    BY <1>1, <1>2, <1>4, <1>8, MovedShape DEF Proceeds, SetupPc, ErrandAt
  <1>12. BranchesGrow
    BY <1>1, <1>8 DEF BranchesGrow, SetupTypeOK
  <1>13. AccountGoesOn(s, "owner's staff row")
    BY <1>2, <1>3, <1>4, <1>5, <1>7, <1>8, <1>10 DEF AccountGoesOn, AccountTells, Admits
  <1>14. MakerTells(s)'
    <2>1. /\ setter'[s].at = "owner's staff row" /\ setter'[s].u = u /\ setter'[s].k = k
          /\ school[k].row /\ branch[k] = "ready"
      BY <1>1, <1>2, <1>3, <1>11 DEF Moved, MakerInv, MakerTells
    <2> QED BY <1>7, <1>8, <1>10, <2>1 DEF MakerTells, Making
  <1>15. ~user[setter[s].u].login
    BY <1>3, <1>5, <1>8
  <1> QED BY <1>2, <1>8, <1>10, <1>11, <1>12, <1>13, <1>14, <1>15, StepOn

LEMMA CreateOwnerStaffKeeps ==
    ASSUME SetupInv, NEW s \in Setter, CreateOwnerStaff(s)
    PROVE  SetupInv'
  <1>1. SetupTypeOK /\ ErrandInv /\ MakerInv /\ UsersInv
    BY DEF SetupInv
  <1>2. setter[s].at = "owner's staff row"
    BY DEF CreateOwnerStaff, Awaits
  <1>3. PICK u, k : u = setter[s].u /\ k = setter[s].k
    OBVIOUS
  <1>4. setter[s].kind = "setup" /\ u \in User /\ k \in Code /\ k \in Place /\ k # Nowhere
    <2>1. setter[s].kind \in {"setup"}
      BY <1>1, <1>2, AskIs DEF ErrandAt
    <2> QED BY <1>1, <1>2, <1>3, <2>1, AskIs, SetupAssumption
  <1>5. PICK before \in Account : before = user[u]
    BY <1>1, <1>4 DEF SetupTypeOK
  <1>6. PICK after : after = [before EXCEPT !.staff = <<k, 0>>]
    OBVIOUS
  <1>7. /\ after \in Account /\ after.login = before.login /\ after.held = before.held
        /\ after.staff = <<k, 0>> /\ after.points = before.points
    BY <1>4, <1>6 DEF Account
  <1>8. /\ user' = [user EXCEPT ![u].staff = <<k, 0>>] /\ Proceeds(s, "register")
        /\ school' = school /\ branch' = branch /\ logos' = logos /\ opened' = opened
    BY <1>3 DEF CreateOwnerStaff
  <1>9. user' = [user EXCEPT ![u] = after]
    BY <1>4, <1>5, <1>6, <1>8
  <1>10. /\ user' \in [User -> Account] /\ user'[u] = after
         /\ \A v \in User \ {u} : user'[v] = user[v]
    BY <1>1, <1>4, <1>7, <1>9, AccountShape
  <1>11. /\ SettersTell /\ Moved(s, "register") /\ sets' = sets /\ torn' = torn
         /\ "register" \in SetupPc \ {"look", "school"} /\ setter[s].kind \in ErrandAt("register")
    BY <1>1, <1>2, <1>4, <1>8, MovedShape DEF Proceeds, SetupPc, ErrandAt
  <1>12. BranchesGrow
    BY <1>1, <1>8 DEF BranchesGrow, SetupTypeOK
  <1>13. /\ before.login /\ Whole \in before.held /\ school[k].row /\ branch[k] = "ready"
    BY <1>1, <1>2, <1>3, <1>5 DEF MakerInv, MakerTells, Making
  <1>14. AccountGoesOn(s, "register")
    <2>1. after.staff # <<Nowhere, 0>>
      BY <1>4, <1>7
    <2>2. AccountTells(before, "owner's staff row", k) => AccountTells(after, "register", k)
      BY <1>7, <2>1 DEF AccountTells, Admits
    <2> QED BY <1>2, <1>3, <1>5, <1>7, <1>10, <1>13, <2>2 DEF AccountGoesOn, Making
  <1>15. MakerTells(s)'
    <2>1. setter'[s].at = "register" /\ setter'[s].u = u /\ setter'[s].k = k
      BY <1>3, <1>11 DEF Moved
    <2> QED BY <1>7, <1>8, <1>10, <1>13, <2>1 DEF MakerTells, Making
  <1>16. setter[s].at \in Making
    BY <1>2 DEF Making
  <1> QED BY <1>2, <1>8, <1>10, <1>11, <1>12, <1>14, <1>15, <1>16, StepOn

\* A set-up ends after its first two steps, or its file goes with it.
LEMMA SetupEnds ==
    ASSUME SetupInv, NEW s \in Setter, IsSetup(s), SettersTell, Freed(s),
           school' = school, branch' = branch, user' = user, sets' = sets, torn \subseteq torn',
           setter[s].at = "register" \/ <<"user", setter[s].u>> \in torn',
           MakerInv', LogosInv', logos' \subseteq logos
    PROVE  SetupInv'
  <1>1. SetupTypeOK /\ ErrandInv /\ FoundedInv /\ UsersInv
    BY DEF SetupInv
  <1>2. Alone(s) /\ setter'[s].at = "idle" /\ setter[s].at # "idle" /\ setter[s].u \in User
    BY <1>1, AskIs DEF Freed, IsSetup
  <1>3. SetupTypeOK'
    BY <1>1 DEF SetupTypeOK, SettersTell
  <1>4. ErrandInv'
    BY <1>1, <1>2, ErrandStays
  <1>5. FoundedInv'
    BY <1>1, <1>2, FoundedStays
  <1>6. UsersInv'
    <2>1. \/ <<"user", setter[s].u>> \in torn'
          \/ AccountTells(user[setter[s].u], setter[s].at, setter[s].k) =>
                AccountTells(user'[setter[s].u], "idle", Nowhere)
      BY DEF AccountTells
    <2>2. \A v \in User : <<"user", v>> \in torn' \/ UserTells(v)'
      BY <1>1, <1>2, <2>1, UserGoesOn DEF UsersInv
    <2> QED BY <1>1, <1>2, <2>2, UsersStay
  <1> QED BY <1>3, <1>4, <1>5, <1>6 DEF SetupInv

LEMMA RegisterSchoolKeeps ==
    ASSUME SetupInv, NEW s \in Setter, RegisterSchool(s)
    PROVE  SetupInv'
  <1>1. SetupTypeOK /\ ErrandInv /\ MakerInv /\ LogosInv
    BY DEF SetupInv
  <1>2. setter[s].at = "register"
    BY DEF RegisterSchool, Awaits
  <1>3. setter[s].kind = "setup" /\ IsSetup(s)
    <2>1. setter[s].kind \in {"setup"}
      BY <1>1, <1>2, AskIs DEF ErrandAt
    <2> QED BY <1>2, <2>1 DEF IsSetup
  <1>4. /\ opened' = opened \cup {<<setter[s].k, setter[s].u>>}
        /\ school' = school /\ branch' = branch /\ user' = user /\ logos' = logos
        /\ sets' = sets /\ torn' = torn
    BY DEF RegisterSchool, Answered
  <1>5. SettersTell /\ Freed(s)
    BY <1>1, FreedShape DEF RegisterSchool, Answered
  <1>6. MakerInv'
    <2>1. \A t \in Setter : setter'[t].at # "idle" => t # s /\ setter'[t] = setter[t]
      BY <1>5 DEF Freed, Alone
    <2>2. \A t \in Setter : MakerTells(t)'
      BY <1>1, <1>4, <2>1 DEF MakerInv, MakerTells, Making
    <2>3. \A t, v \in Setter : setter'[t].at \in Making /\ setter'[v].at \in Making
                               /\ setter'[t].u = setter'[v].u => t = v
      BY <1>1, <2>1 DEF MakerInv, Making
    <2>4. ASSUME NEW k \in Code, NEW u \in User, <<k, u>> \in opened'
          PROVE  /\ school'[k].row /\ branch'[k] = "ready" /\ user'[u].login
                 /\ user'[u].staff = <<k, 0>> /\ Whole \in user'[u].held
                 /\ \A t \in Setter : setter'[t].at \in Making => setter'[t].u # u
      <3>1. CASE <<k, u>> \in opened
        BY <1>1, <1>4, <2>1, <3>1 DEF MakerInv, OpenedIsComplete, Making
      <3>2. CASE <<k, u>> \notin opened
        <4>1. k = setter[s].k /\ u = setter[s].u
          BY <1>4, <2>4, <3>2
        <4>2. \A t \in Setter : setter'[t].at \in Making => setter'[t].u # u
          BY <1>1, <1>2, <2>1, <4>1 DEF MakerInv, Making
        <4> QED BY <1>1, <1>2, <1>4, <4>1, <4>2 DEF MakerInv, MakerTells, Making
      <3> QED BY <3>1, <3>2
    <2> QED BY <2>2, <2>3, <2>4 DEF MakerInv, OpenedIsComplete
  <1>7. LogosInv'
    <2>1. setter[s].k \in Founded /\ school[setter[s].k].logo = setter[s].logo
      BY <1>1, <1>2, <1>3, AskIs DEF LogosInv, LogoTells, Founded
    <2> QED BY <1>1, <1>3, <1>4, <1>5, <2>1, FileStays
  <1> QED BY <1>2, <1>3, <1>4, <1>5, <1>6, <1>7, SetupEnds

LEMMA FailSetupKeeps ==
    ASSUME SetupInv, NEW s \in Setter, FailSetup(s)
    PROVE  SetupInv'
  <1>1. SetupTypeOK /\ ErrandInv /\ MakerInv /\ LogosInv
    BY DEF SetupInv
  <1>2. IsSetup(s)
    BY DEF FailSetup, IsSetup
  <1>3. /\ school' = school /\ branch' = branch /\ user' = user /\ opened' = opened
        /\ logos' = logos \ {setter[s].logo} /\ sets' = sets
        /\ torn' = torn \cup {<<"user", setter[s].u>>, <<"school", setter[s].k>>}
    BY DEF FailSetup, WithoutLogo, LeftHalf
  <1>4. SettersTell /\ Freed(s)
    BY <1>1, FreedShape DEF FailSetup, LeftHalf
  <1>5. MakerInv'
    BY <1>1, <1>3, <1>4, FreedMakers
  <1>6. LogosInv'
    <2>1. \A k \in Founded : setter[s].logo # 0 /\ school[k].logo = setter[s].logo =>
             <<"school", k>> \in torn'
      BY <1>1, <1>2, <1>3 DEF LogosInv, LogoTells, IsSetup
    <2> QED BY <1>1, <1>2, <1>3, <1>4, <2>1, FileGoes
  <1> QED BY <1>2, <1>3, <1>4, <1>5, <1>6, SetupEnds

LEMMA BreakOffKeeps ==
    ASSUME SetupInv, NEW s \in Setter, BreakOff(s)
    PROVE  SetupInv'
  <1>1. SetupTypeOK /\ ErrandInv /\ MakerInv /\ LogosInv
    BY DEF SetupInv
  <1>2. /\ school' = school /\ branch' = branch /\ user' = user /\ opened' = opened
        /\ logos' = logos /\ sets' = sets /\ setter[s].at # "idle" /\ torn \subseteq torn'
        /\ <<"user", setter[s].u>> \in torn'
        /\ setter[s].kind = "setup" => <<"file", setter[s].logo>> \in torn'
    BY DEF BreakOff, LeftHalf, Awaits
  <1>3. SettersTell /\ Freed(s)
    BY <1>1, FreedShape DEF BreakOff, LeftHalf
  <1>4. CASE setter[s].kind = "setup"
    <2>1. IsSetup(s)
      BY <1>2, <1>4 DEF IsSetup
    <2>2. MakerInv'
      BY <1>1, <1>2, <1>3, FreedMakers
    <2>3. LogosInv'
      BY <1>1, <1>2, <1>3, <1>4, <2>1, FileStays
    <2> QED BY <1>2, <1>3, <2>1, <2>2, <2>3, SetupEnds
  <1>5. CASE setter[s].kind # "setup"
    <2>1. BranchesGrow /\ user' \in [User -> Account]
      BY <1>1, <1>2 DEF SetupTypeOK, BranchesGrow
    <2>2. AccountGoesOn(s, "idle")
      BY <1>2 DEF AccountGoesOn
    <2> QED BY <1>2, <1>3, <1>5, <2>1, <2>2, StepOff
  <1> QED BY <1>4, <1>5

-----------------------------------------------------------------------------
(* Branches, their admins and switches *)

\* A request begins that is no set-up: the account is as it was, or loses the
\* branch it is to forget.
LEMMA StepIn ==
    ASSUME SetupInv, NEW s \in Setter,
           NEW pc \in {"branch", "assign", "account", "point", "forget"}, NEW kind \in Errand,
           NEW u \in User \cup {Nowhere}, NEW k \in Place, Accepted(s, pc, kind, u, k, 0),
           kind \in ErrandAt(pc), kind # "setup", (kind = "branch") <=> (u = Nowhere),
           school' = school, branch' = branch, logos' = logos, opened' = opened,
           user' \in [User -> Account], \A v \in User : v # u => user'[v] = user[v],
           u \in User =>
              /\ user'[u].login = user[u].login /\ user'[u].staff = user[u].staff
              /\ user'[u].points = user[u].points
              /\ Whole \in user[u].held => Whole \in user'[u].held
              /\ AccountTells(user[u], "idle", Nowhere) => AccountTells(user'[u], pc, k)
              /\ pc \in {"assign", "point"} => user[u].login
    PROVE  SetupInv'
  <1>1. SetupTypeOK /\ ErrandInv /\ FoundedInv /\ MakerInv /\ LogosInv /\ UsersInv
    BY DEF SetupInv
  <1>2. /\ SettersTell /\ Alone(s) /\ setter[s].at = "idle" /\ setter'[s].at = pc
        /\ setter'[s].kind = kind /\ setter'[s].u = u /\ setter'[s].k = k
        /\ sets' = sets + 1 /\ torn \subseteq torn'
        /\ OnUser(u) # {} => <<"user", u>> \in torn'
    <2>1. pc \in SetupPc /\ 0 \in Nat
      BY DEF SetupPc
    <2> QED BY <1>1, <2>1, AcceptedShape
  <1>3. sets \in Nat /\ sets + 1 \in Nat /\ sets <= sets + 1
    <2>1. sets \in Nat
      BY <1>1 DEF SetupTypeOK
    <2> QED BY <2>1, NextIsMore
  <1>4. SetupTypeOK'
    BY <1>1, <1>2, <1>3 DEF SetupTypeOK, SettersTell
  <1>5. ErrandInv'
    <2>1. IF kind = "branch" THEN u = Nowhere ELSE u \in User
      OBVIOUS
    <2> QED BY <1>1, <1>2, <2>1, ErrandStays
  <1>6. FoundedInv'
    BY <1>1, <1>2, FoundedStays
  <1>7. MakerInv'
    <2>1. MakerTells(s)' /\ setter'[s].at \notin Making
      BY <1>2 DEF MakerTells, Making
    <2>2. \A v \in User : /\ user[v].login => user'[v].login
                          /\ user[v].login /\ Whole \in user[v].held => Whole \in user'[v].held
                          /\ user'[v].staff = user[v].staff
      OBVIOUS
    <2> QED BY <1>1, <1>2, <2>1, <2>2, MakerStays
  <1>8. LogosInv'
    <2>1. ~IsSetup(s) /\ ~IsSetup(s)'
      BY <1>2 DEF IsSetup
    <2> QED BY <1>1, <1>2, <1>3, <2>1, LogosStay
  <1>9. UsersInv'
    <2>1. \A v \in User : <<"user", v>> \in torn' \/ UserTells(v)'
      <3>1. CASE u \in User
        <4>1. \A v \in User \ {u} : user'[v] = user[v]
          OBVIOUS
        <4>2. AccountTells(user[u], "idle", Nowhere) =>
                 AccountTells(user'[u], setter'[s].at, setter'[s].k)
          BY <1>2, <3>1
        <4>3. setter'[s].at # "idle"
          BY <1>2
        <4> QED BY <1>1, <1>2, <3>1, <4>1, <4>2, <4>3, UserBegins DEF UsersInv
      <3>2. CASE u \notin User
        BY <1>1, <1>2, <3>2, OtherUsersTell DEF UsersInv
      <3> QED BY <3>1, <3>2
    <2>2. \A v \in User : /\ user[v].login => user'[v].login
                          /\ ~user'[v].login => user'[v].points = user[v].points
      OBVIOUS
    <2>3. setter'[s].at \in {"assign", "count", "staff row", "land", "point"} =>
             user'[setter'[s].u].login
      <3>1. pc \in {"assign", "point"} => u \in User
        BY DEF ErrandAt
      <3> QED BY <1>2, <3>1
    <2> QED BY <1>1, <1>2, <2>1, <2>2, <2>3, UsersStay
  <1> QED BY <1>4, <1>5, <1>6, <1>7, <1>8, <1>9 DEF SetupInv

LEMMA StartBranchKeeps ==
    ASSUME SetupInv, NEW s \in Setter, NEW l \in Campus, StartBranch(s, l)
    PROVE  SetupInv'
  <1>1. /\ "branch" \in Errand /\ "branch" \in ErrandAt("branch") /\ l \in Place
        /\ Nowhere \notin User
    BY SetupAssumption DEF Errand, ErrandAt, Place
  <1>2. /\ Accepted(s, "branch", "branch", Nowhere, l, 0) /\ user' = user
        /\ school' = school /\ branch' = branch /\ logos' = logos /\ opened' = opened
    BY DEF StartBranch
  <1>3. user' \in [User -> Account]
    BY <1>2 DEF SetupInv, SetupTypeOK
  <1> QED BY <1>1, <1>2, <1>3, StepIn

LEMMA StartOnUserKeeps ==
    ASSUME SetupInv, NEW s \in Setter, NEW u \in User, NEW l \in Place,
           AttachAdmin(s, u, l) \/ StartAdmin(s, u, l) \/ StartSwitch(s, u, l)
    PROVE  SetupInv'
  <1>1. /\ user' = user /\ school' = school /\ branch' = branch /\ logos' = logos
        /\ opened' = opened
    BY DEF AttachAdmin, StartAdmin, StartSwitch
  <1>2. user' \in [User -> Account] /\ u # Nowhere
    BY <1>1, SetupAssumption DEF SetupInv, SetupTypeOK
  <1>3. CASE AttachAdmin(s, u, l)
    <2>1. Accepted(s, "assign", "attach", u, l, 0) /\ user[u].login
      BY <1>3 DEF AttachAdmin
    <2>2. AccountTells(user[u], "idle", Nowhere) => AccountTells(user'[u], "assign", l)
      BY <1>1 DEF AccountTells
    <2>3. "attach" \in Errand /\ "attach" \in ErrandAt("assign")
      BY DEF Errand, ErrandAt
    <2> QED BY <1>1, <1>2, <2>1, <2>2, <2>3, StepIn
  <1>4. CASE StartAdmin(s, u, l)
    <2>1. Accepted(s, "account", "admin", u, l, 0)
      BY <1>4 DEF StartAdmin
    <2>2. AccountTells(user[u], "idle", Nowhere) => AccountTells(user'[u], "account", l)
      BY <1>1 DEF AccountTells
    <2>3. "admin" \in Errand /\ "admin" \in ErrandAt("account")
      BY DEF Errand, ErrandAt
    <2> QED BY <1>1, <1>2, <2>1, <2>2, <2>3, StepIn
  <1>5. CASE StartSwitch(s, u, l)
    <2>1. Accepted(s, "point", "switch", u, l, 0) /\ user[u].login /\ Entitled(u, l)
      BY <1>5 DEF StartSwitch
    <2>2. AccountTells(user[u], "idle", Nowhere) => AccountTells(user'[u], "point", l)
      BY <1>1, <2>1 DEF AccountTells, Admits, Entitled
    <2>3. "switch" \in Errand /\ "switch" \in ErrandAt("point")
      BY DEF Errand, ErrandAt
    <2> QED BY <1>1, <1>2, <2>1, <2>2, <2>3, StepIn
  <1> QED BY <1>3, <1>4, <1>5

LEMMA RemoveAdminKeeps ==
    ASSUME SetupInv, NEW s \in Setter, NEW u \in User, NEW l \in Place, RemoveAdmin(s, u, l)
    PROVE  SetupInv'
  <1>1. SetupTypeOK /\ l # Whole /\ u # Nowhere
    BY SetupAssumption DEF SetupInv
  <1>2. PICK before \in Account : before = user[u]
    BY <1>1 DEF SetupTypeOK
  <1>3. PICK after : after = [before EXCEPT !.held = before.held \ {l}]
    OBVIOUS
  <1>4. /\ after \in Account /\ after.login = before.login /\ after.held = before.held \ {l}
        /\ after.staff = before.staff /\ after.points = before.points
    BY <1>3 DEF Account
  <1>5. /\ Accepted(s, "forget", "remove", u, l, 0)
        /\ user' = [user EXCEPT ![u].held = @ \ {l}]
        /\ school' = school /\ branch' = branch /\ logos' = logos /\ opened' = opened
    BY DEF RemoveAdmin
  <1>6. user' = [user EXCEPT ![u] = after]
    BY <1>2, <1>3, <1>5
  <1>7. /\ user' \in [User -> Account] /\ user'[u] = after
        /\ \A v \in User \ {u} : user'[v] = user[v]
    BY <1>1, <1>4, <1>6, AccountShape
  <1>8. AccountTells(before, "idle", Nowhere) => AccountTells(after, "forget", l)
    <2>1. Whole \in before.held => Whole \in after.held
      BY <1>1, <1>4
    <2>2. \A p : p \in before.held => p \in after.held \/ p = l
      BY <1>4
    <2>3. \A p : Admits(before, p) => Admits(after, p) \/ p = l
      BY <2>1, <2>2 DEF Admits
    <2>4. Admits(before, before.points) => Admits(after, after.points) \/ l = after.points
      BY <1>4, <2>3
    <2> QED BY <1>4, <2>4 DEF AccountTells
  <1>9. Whole \in before.held => Whole \in after.held
    BY <1>1, <1>4
  <1>10. "remove" \in Errand /\ "remove" \in ErrandAt("forget") /\ u \in User \cup {Nowhere}
    BY DEF Errand, ErrandAt
  <1>11. /\ user'[u].login = user[u].login /\ user'[u].staff = user[u].staff
         /\ user'[u].points = user[u].points
         /\ Whole \in user[u].held => Whole \in user'[u].held
    BY <1>2, <1>4, <1>7, <1>9
  <1>12. AccountTells(user[u], "idle", Nowhere) => AccountTells(user'[u], "forget", l)
    BY <1>2, <1>7, <1>8
  <1>13. \A v \in User : v # u => user'[v] = user[v]
    BY <1>7
  <1> QED BY <1>1, <1>5, <1>7, <1>10, <1>11, <1>12, <1>13, StepIn

LEMMA CreateBranchKeeps ==
    ASSUME SetupInv, NEW s \in Setter, CreateBranch(s)
    PROVE  SetupInv'
  <1>1. SetupTypeOK /\ ErrandInv
    BY DEF SetupInv
  <1>2. setter[s].at = "branch"
    BY DEF CreateBranch, Awaits
  <1>3. PICK k : k = setter[s].k
    OBVIOUS
  <1>4. setter[s].kind = "branch" /\ k \in Place /\ setter[s].u \notin User
    <2>1. setter[s].kind \in {"branch"}
      BY <1>1, <1>2, AskIs DEF ErrandAt
    <2> QED BY <1>1, <1>2, <1>3, <2>1, AskIs
  <1>5. /\ branch' = IF branch[k] # "none" THEN branch ELSE [branch EXCEPT ![k] = "bare"]
        /\ IF branch[k] # "none" THEN Answered(s) ELSE Proceeds(s, "year")
        /\ school' = school /\ user' = user /\ logos' = logos /\ opened' = opened
    BY <1>3 DEF CreateBranch
  <1>6. BranchesGrow /\ branch'[k] # "none"
    BY <1>1, <1>4, <1>5 DEF SetupTypeOK, BranchesGrow
  <1>7. sets' = sets /\ torn' = torn /\ user' \in [User -> Account]
    BY <1>1, <1>5 DEF Answered, Proceeds, SetupTypeOK
  <1>8. AccountGoesOn(s, "idle") /\ AccountGoesOn(s, "year")
    BY <1>4, <1>5 DEF AccountGoesOn
  <1>9. CASE branch[k] # "none"
    <2>1. SettersTell /\ Freed(s)
      BY <1>1, <1>5, <1>9, FreedShape DEF Answered
    <2> QED BY <1>2, <1>4, <1>5, <1>6, <1>7, <1>8, <2>1, StepOff
  <1>10. CASE branch[k] = "none"
    <2>1. "year" \in SetupPc \ {"look", "school"} /\ setter[s].kind \in ErrandAt("year")
      BY <1>4 DEF SetupPc, ErrandAt
    <2>2. SettersTell /\ Moved(s, "year")
      BY <1>1, <1>2, <1>5, <1>10, <2>1, MovedShape DEF Proceeds
    <2>3. MakerTells(s)'
      <3>1. setter'[s].at = "year" /\ setter'[s].kind = "branch" /\ setter'[s].k = k
        BY <1>3, <1>4, <2>2 DEF Moved
      <3> QED BY <1>6, <3>1 DEF MakerTells, Making
    <2>4. "year" \notin Making
      BY DEF Making
    <2> QED BY <1>2, <1>5, <1>6, <1>7, <1>8, <2>1, <2>2, <2>3, <2>4, StepOn
  <1> QED BY <1>9, <1>10

LEMMA CreateAccountKeeps ==
    ASSUME SetupInv, NEW s \in Setter, CreateAccount(s)
    PROVE  SetupInv'
  <1>1. SetupTypeOK /\ ErrandInv /\ UsersInv
    BY DEF SetupInv
  <1>2. setter[s].at = "account"
    BY DEF CreateAccount, Awaits
  <1>3. PICK u, k : u = setter[s].u /\ k = setter[s].k
    OBVIOUS
  <1>4. setter[s].kind = "admin" /\ u \in User /\ k \in Place
    <2>1. setter[s].kind \in {"admin"}
      BY <1>1, <1>2, AskIs DEF ErrandAt
    <2> QED BY <1>1, <1>2, <1>3, <2>1, AskIs
  <1>5. PICK before \in Account : before = user[u]
    BY <1>1, <1>4 DEF SetupTypeOK
  <1>6. PICK after : after = [before EXCEPT !.login = TRUE, !.held = {k}]
    OBVIOUS
  <1>7. /\ after \in Account /\ after.login /\ after.held = {k}
        /\ after.staff = before.staff /\ after.points = before.points
    BY <1>4, <1>6 DEF Account
  <1>8. /\ ~before.login /\ user' = [user EXCEPT ![u].login = TRUE, ![u].held = {k}]
        /\ Proceeds(s, "count")
        /\ school' = school /\ branch' = branch /\ logos' = logos /\ opened' = opened
    BY <1>3, <1>5 DEF CreateAccount
  <1>9. user' = [user EXCEPT ![u] = after]
    BY <1>4, <1>5, <1>6, <1>8
  <1>10. /\ user' \in [User -> Account] /\ user'[u] = after
         /\ \A v \in User \ {u} : user'[v] = user[v]
    BY <1>1, <1>4, <1>7, <1>9, AccountShape
  <1>11. /\ SettersTell /\ Moved(s, "count") /\ sets' = sets /\ torn' = torn
         /\ "count" \in SetupPc \ {"look", "school"} /\ setter[s].kind \in ErrandAt("count")
    BY <1>1, <1>2, <1>4, <1>8, MovedShape DEF Proceeds, SetupPc, ErrandAt
  <1>12. BranchesGrow
    BY <1>1, <1>8 DEF BranchesGrow, SetupTypeOK
  <1>13. AccountGoesOn(s, "count")
    <2>1. after.points = Nowhere
      BY <1>1, <1>4, <1>5, <1>7, <1>8 DEF UsersInv
    <2>2. AccountTells(after, "count", k)
      BY <2>1 DEF AccountTells
    <2> QED BY <1>2, <1>3, <1>4, <1>5, <1>7, <1>8, <1>10, <2>2 DEF AccountGoesOn
  <1>14. MakerTells(s)'
    <2>1. setter'[s].at = "count" /\ setter'[s].u = u
      BY <1>3, <1>11 DEF Moved
    <2> QED BY <1>7, <1>10, <2>1 DEF MakerTells
  <1>15. ~user[setter[s].u].login
    BY <1>3, <1>5, <1>8
  <1> QED BY <1>2, <1>8, <1>10, <1>11, <1>12, <1>13, <1>14, <1>15, StepOn

\* The staff of a branch are counted: each user has at most one staff row.
LEMMA StaffCounted ==
    ASSUME NEW l
    PROVE  Cardinality(StaffOf(l)) + 1 \in Nat
  <1>1. StaffOf(l) \subseteq User /\ IsFiniteSet(User)
    BY SetupAssumption DEF StaffOf
  <1>2. IsFiniteSet(StaffOf(l))
    BY <1>1, FS_Subset
  <1>3. Cardinality(StaffOf(l)) \in Nat
    BY <1>2, FS_CardinalityType
  <1> QED BY <1>3, NextIsMore

LEMMA CountStaffKeeps ==
    ASSUME SetupInv, NEW s \in Setter, CountStaff(s)
    PROVE  SetupInv'
  <1>1. SetupTypeOK /\ ErrandInv /\ UsersInv
    BY DEF SetupInv
  <1>2. setter[s].at = "count"
    BY DEF CountStaff, Awaits
  <1>3. PICK before : before = setter[s]
    OBVIOUS
  <1>4. before \in Ask /\ before.kind = "admin" /\ before.u \in User /\ before.k \in Place
    <2>1. setter[s].kind \in {"admin"}
      BY <1>1, <1>2, AskIs DEF ErrandAt
    <2> QED BY <1>1, <1>2, <1>3, <2>1, AskIs
  <1>5. PICK m \in Nat : m = Cardinality(StaffOf(setter[s].k)) + 1
    BY StaffCounted
  <1>6. PICK after : after = [before EXCEPT !.at = "staff row", !.n = m]
    OBVIOUS
  <1>7. /\ after \in Ask /\ after.at = "staff row" /\ after.kind = before.kind
        /\ after.u = before.u /\ after.k = before.k /\ after.logo = before.logo
    BY <1>4, <1>6 DEF Ask, SetupPc
  <1>8. /\ setter' = [setter EXCEPT ![s].at = "staff row", ![s].n = m]
        /\ school' = school /\ branch' = branch /\ user' = user /\ logos' = logos
        /\ sets' = sets /\ opened' = opened /\ torn' = torn
    BY <1>5 DEF CountStaff
  <1>9. setter' = [setter EXCEPT ![s] = after]
    BY <1>1, <1>3, <1>6, <1>8 DEF SetupTypeOK
  <1>10. setter'[s] = after /\ SettersTell /\ Alone(s)
    BY <1>1, <1>7, <1>9 DEF SetupTypeOK, SettersTell, Alone
  <1>11. Moved(s, "staff row")
    BY <1>3, <1>7, <1>10 DEF Moved
  <1>12. BranchesGrow /\ user' \in [User -> Account]
    BY <1>1, <1>8 DEF BranchesGrow, SetupTypeOK
  <1>13. user[setter[s].u].login
    BY <1>1, <1>2 DEF UsersInv
  <1>14. AccountGoesOn(s, "staff row")
    BY <1>2, <1>8, <1>13 DEF AccountGoesOn, AccountTells
  <1>15. MakerTells(s)'
    <2>1. setter'[s].at = "staff row" /\ setter'[s].u = setter[s].u
      BY <1>11 DEF Moved
    <2> QED BY <1>8, <1>13, <2>1 DEF MakerTells
  <1>16. /\ "staff row" \in SetupPc \ {"look", "school"} /\ setter[s].at \in Making
         /\ setter[s].kind \in ErrandAt("staff row")
    BY <1>2, <1>3, <1>4 DEF SetupPc, Making, ErrandAt
  <1> QED BY <1>2, <1>8, <1>10, <1>11, <1>12, <1>14, <1>15, <1>16, StepOn

LEMMA CreateAdminStaffKeeps ==
    ASSUME SetupInv, NEW s \in Setter, CreateAdminStaff(s)
    PROVE  SetupInv'
  <1>1. SetupTypeOK /\ ErrandInv /\ MakerInv
    BY DEF SetupInv
  <1>2. setter[s].at = "staff row"
    BY DEF CreateAdminStaff, Awaits
  <1>3. PICK u, k, m : u = setter[s].u /\ k = setter[s].k /\ m = setter[s].n
    OBVIOUS
  <1>4. setter[s].kind = "admin" /\ u \in User /\ k \in Place /\ k # Nowhere /\ m \in Nat
    <2>1. setter[s].kind \in {"admin"}
      BY <1>1, <1>2, AskIs DEF ErrandAt
    <2> QED BY <1>1, <1>2, <1>3, <2>1, AskIs, SetupAssumption
  <1>5. PICK before \in Account : before = user[u]
    BY <1>1, <1>4 DEF SetupTypeOK
  <1>6. PICK after : after = [before EXCEPT !.staff = <<k, m>>]
    OBVIOUS
  <1>7. /\ after \in Account /\ after.login = before.login /\ after.held = before.held
        /\ after.staff = <<k, m>> /\ after.points = before.points
    BY <1>4, <1>6 DEF Account
  <1>8. /\ user' = [user EXCEPT ![u].staff = <<k, m>>] /\ Proceeds(s, "assign")
        /\ school' = school /\ branch' = branch /\ logos' = logos /\ opened' = opened
    BY <1>3 DEF CreateAdminStaff
  <1>9. user' = [user EXCEPT ![u] = after]
    BY <1>4, <1>5, <1>6, <1>8
  <1>10. /\ user' \in [User -> Account] /\ user'[u] = after
         /\ \A v \in User \ {u} : user'[v] = user[v]
    BY <1>1, <1>4, <1>7, <1>9, AccountShape
  <1>11. /\ SettersTell /\ Moved(s, "assign") /\ sets' = sets /\ torn' = torn
         /\ "assign" \in SetupPc \ {"look", "school"} /\ setter[s].kind \in ErrandAt("assign")
    BY <1>1, <1>2, <1>4, <1>8, MovedShape DEF Proceeds, SetupPc, ErrandAt
  <1>12. BranchesGrow
    BY <1>1, <1>8 DEF BranchesGrow, SetupTypeOK
  <1>13. before.login /\ setter[s].at \in Making
    BY <1>1, <1>2, <1>3, <1>5 DEF MakerInv, MakerTells, Making
  <1>14. AccountGoesOn(s, "assign")
    <2>1. after.staff # <<Nowhere, 0>>
      BY <1>4, <1>7
    <2>2. AccountTells(before, "staff row", k) => AccountTells(after, "assign", k)
      BY <1>7, <2>1 DEF AccountTells, Admits
    <2> QED BY <1>2, <1>3, <1>5, <1>7, <1>10, <1>13, <2>2 DEF AccountGoesOn
  <1>15. MakerTells(s)' /\ "assign" \notin Making
    <2>1. setter'[s].at = "assign"
      BY <1>11 DEF Moved
    <2> QED BY <2>1 DEF MakerTells, Making
  <1> QED BY <1>2, <1>8, <1>10, <1>11, <1>12, <1>14, <1>15, StepOn

LEMMA AssignKeeps ==
    ASSUME SetupInv, NEW s \in Setter, Assign(s)
    PROVE  SetupInv'
  <1>1. SetupTypeOK /\ ErrandInv /\ UsersInv
    BY DEF SetupInv
  <1>2. setter[s].at = "assign"
    BY DEF Assign, Awaits
  <1>3. PICK u, k : u = setter[s].u /\ k = setter[s].k
    OBVIOUS
  <1>4. setter[s].kind \in {"attach", "admin"} /\ u \in User /\ k \in Place
    <2>1. setter[s].kind \in {"attach", "admin"}
      BY <1>1, <1>2, AskIs DEF ErrandAt
    <2> QED BY <1>1, <1>2, <1>3, <2>1, AskIs
  <1>5. PICK before \in Account : before = user[u]
    BY <1>1, <1>4 DEF SetupTypeOK
  <1>6. PICK after : after = [before EXCEPT !.held = before.held \cup {k}]
    OBVIOUS
  <1>7. /\ after \in Account /\ after.login = before.login
        /\ after.held = before.held \cup {k}
        /\ after.staff = before.staff /\ after.points = before.points
    BY <1>4, <1>6 DEF Account
  <1>8. /\ user' = [user EXCEPT ![u].held = @ \cup {k}]
        /\ IF setter[s].kind = "admin" THEN Proceeds(s, "land") ELSE Answered(s)
        /\ school' = school /\ branch' = branch /\ logos' = logos /\ opened' = opened
    BY <1>3 DEF Assign
  <1>9. user' = [user EXCEPT ![u] = after]
    BY <1>4, <1>5, <1>6, <1>8
  <1>10. /\ user' \in [User -> Account] /\ user'[u] = after
         /\ \A v \in User \ {u} : user'[v] = user[v]
    BY <1>1, <1>4, <1>7, <1>9, AccountShape
  <1>11. BranchesGrow /\ sets' = sets /\ torn' = torn
    BY <1>1, <1>8 DEF BranchesGrow, SetupTypeOK, Answered, Proceeds
  <1>12. before.login
    BY <1>1, <1>2, <1>3, <1>5 DEF UsersInv
  <1>13. /\ AccountTells(before, "assign", k) => AccountTells(after, "idle", Nowhere)
         /\ AccountTells(before, "assign", k) => AccountTells(after, "land", k)
    <2>1. \A p : Admits(before, p) => Admits(after, p)
      BY <1>7 DEF Admits
    <2>2. Admits(before, before.points) => Admits(after, after.points)
      BY <1>7, <2>1
    <2>3. Admits(after, k)
      BY <1>7 DEF Admits
    <2> QED BY <1>7, <2>2, <2>3 DEF AccountTells
  <1>14. CASE setter[s].kind = "admin"
    <2>1. /\ SettersTell /\ Moved(s, "land")
          /\ "land" \in SetupPc \ {"look", "school"} /\ setter[s].kind \in ErrandAt("land")
      BY <1>1, <1>2, <1>8, <1>14, MovedShape DEF Proceeds, SetupPc, ErrandAt
    <2>2. AccountGoesOn(s, "land")
      BY <1>2, <1>3, <1>5, <1>7, <1>10, <1>12, <1>13 DEF AccountGoesOn
    <2>3. MakerTells(s)' /\ "land" \notin Making
      <3>1. setter'[s].at = "land"
        BY <2>1 DEF Moved
      <3> QED BY <3>1 DEF MakerTells, Making
    <2> QED BY <1>2, <1>8, <1>10, <1>11, <2>1, <2>2, <2>3, StepOn
  <1>15. CASE setter[s].kind # "admin"
    <2>1. SettersTell /\ Freed(s)
      BY <1>1, <1>8, <1>15, FreedShape DEF Answered
    <2>2. AccountGoesOn(s, "idle")
      BY <1>2, <1>3, <1>5, <1>7, <1>10, <1>12, <1>13 DEF AccountGoesOn
    <2>3. setter[s].kind # "setup"
      BY <1>4
    <2> QED BY <1>2, <1>8, <1>10, <1>11, <2>1, <2>2, <2>3, StepOff
  <1> QED BY <1>14, <1>15

LEMMA PointAtKeeps ==
    ASSUME SetupInv, NEW s \in Setter, PointAt(s)
    PROVE  SetupInv'
  <1>1. SetupTypeOK /\ ErrandInv /\ UsersInv
    BY DEF SetupInv
  <1>2. PICK pc \in {"land", "point"} : pc = setter[s].at
    BY DEF PointAt
  <1>3. PICK u, k : u = setter[s].u /\ k = setter[s].k
    OBVIOUS
  <1>4. setter[s].at # "idle" /\ setter[s].kind # "setup" /\ u \in User /\ k \in Place
    <2>1. setter[s].kind \in {"admin", "switch"} /\ setter[s].at # "idle"
      BY <1>1, <1>2, AskIs DEF ErrandAt
    <2> QED BY <1>1, <1>3, <2>1, AskIs
  <1>5. PICK before \in Account : before = user[u]
    BY <1>1, <1>4 DEF SetupTypeOK
  <1>6. PICK after : after = [before EXCEPT !.points = k]
    OBVIOUS
  <1>7. /\ after \in Account /\ after.login = before.login /\ after.held = before.held
        /\ after.staff = before.staff /\ after.points = k
    BY <1>4, <1>6 DEF Account
  <1>8. /\ user' = [user EXCEPT ![u].points = k] /\ Answered(s)
        /\ school' = school /\ branch' = branch /\ logos' = logos /\ opened' = opened
    BY <1>3 DEF PointAt
  <1>9. user' = [user EXCEPT ![u] = after]
    BY <1>4, <1>5, <1>6, <1>8
  <1>10. /\ user' \in [User -> Account] /\ user'[u] = after
         /\ \A v \in User \ {u} : user'[v] = user[v]
    BY <1>1, <1>4, <1>7, <1>9, AccountShape
  <1>11. BranchesGrow /\ sets' = sets /\ torn' = torn
    BY <1>1, <1>8 DEF BranchesGrow, SetupTypeOK, Answered
  <1>12. before.login
    BY <1>1, <1>2, <1>3, <1>5 DEF UsersInv
  <1>13. AccountTells(before, pc, k) => AccountTells(after, "idle", Nowhere)
    <2>1. Admits(before, k) => Admits(after, after.points)
      BY <1>7 DEF Admits
    <2> QED BY <1>7, <2>1 DEF AccountTells
  <1>14. AccountGoesOn(s, "idle")
    BY <1>2, <1>3, <1>5, <1>7, <1>10, <1>12, <1>13 DEF AccountGoesOn
  <1>15. SettersTell /\ Freed(s)
    BY <1>1, <1>8, FreedShape DEF Answered
  <1> QED BY <1>4, <1>8, <1>10, <1>11, <1>14, <1>15, StepOff

LEMMA ForgetKeeps ==
    ASSUME SetupInv, NEW s \in Setter, Forget(s)
    PROVE  SetupInv'
  <1>1. SetupTypeOK /\ ErrandInv /\ UsersInv
    BY DEF SetupInv
  <1>2. setter[s].at = "forget"
    BY DEF Forget, Awaits
  <1>3. PICK u, k : u = setter[s].u /\ k = setter[s].k
    OBVIOUS
  <1>4. setter[s].kind = "remove" /\ u \in User /\ k \in Place
    <2>1. setter[s].kind \in {"remove"}
      BY <1>1, <1>2, AskIs DEF ErrandAt
    <2> QED BY <1>1, <1>2, <1>3, <2>1, AskIs
  <1>5. PICK before \in Account : before = user[u]
    BY <1>1, <1>4 DEF SetupTypeOK
  <1>6. PICK l : l = IF before.points = k THEN Nowhere ELSE before.points
    OBVIOUS
  <1>7. PICK after : after = [before EXCEPT !.points = l]
    OBVIOUS
  <1>8. /\ after \in Account /\ after.login = before.login /\ after.held = before.held
        /\ after.staff = before.staff /\ after.points = l
    BY <1>6, <1>7 DEF Account
  <1>9. /\ user' = [user EXCEPT ![u].points = IF @ = k THEN Nowhere ELSE @] /\ Answered(s)
        /\ school' = school /\ branch' = branch /\ logos' = logos /\ opened' = opened
    BY <1>3 DEF Forget
  <1>10. user' = [user EXCEPT ![u] = after]
    BY <1>4, <1>5, <1>6, <1>7, <1>9
  <1>11. /\ user' \in [User -> Account] /\ user'[u] = after
         /\ \A v \in User \ {u} : user'[v] = user[v]
    BY <1>1, <1>4, <1>8, <1>10, AccountShape
  <1>12. BranchesGrow /\ sets' = sets /\ torn' = torn
    BY <1>1, <1>9 DEF BranchesGrow, SetupTypeOK, Answered
  <1>13. ~before.login => l = before.points
    BY <1>1, <1>4, <1>5, <1>6 DEF UsersInv
  <1>14. AccountTells(before, "forget", k) => AccountTells(after, "idle", Nowhere)
    <2>1. Admits(before, l) => Admits(after, l)
      BY <1>8 DEF Admits
    <2> QED BY <1>6, <1>8, <2>1 DEF AccountTells
  <1>15. AccountGoesOn(s, "idle")
    BY <1>2, <1>3, <1>5, <1>8, <1>11, <1>13, <1>14 DEF AccountGoesOn
  <1>16. SettersTell /\ Freed(s)
    BY <1>1, <1>9, FreedShape DEF Answered
  <1>17. setter[s].at # "idle" /\ setter[s].kind # "setup"
    BY <1>2, <1>4
  <1> QED BY <1>9, <1>11, <1>12, <1>15, <1>16, <1>17, StepOff

-----------------------------------------------------------------------------
LEMMA SetupStarts == SetupInit => SetupInv
  <1> SUFFICES ASSUME SetupInit PROVE SetupInv
    OBVIOUS
  <1>1. \A s \in Setter : setter[s].at = "idle" /\ setter[s] = Free
    BY DEF SetupInit, Free
  <1>2. \A k \in Code : school[k].row = FALSE /\ school[k] = NoSchool
    BY DEF SetupInit, NoSchool
  <1>3. NoUser \in Account /\ NoSchool \in [row : BOOLEAN, logo : Nat]
    BY DEF NoUser, NoSchool, Account
  <1>4. \A u \in User : user[u].login = FALSE /\ user[u].points = Nowhere
    BY DEF SetupInit, NoUser
  <1>5. Founded = {} /\ Sets("setup") = {} /\ \A u \in User : OnUser(u) = {}
    BY <1>1, <1>2 DEF Founded, Sets, OnUser, Awaits
  <1>6. SetupTypeOK
    BY <1>3 DEF SetupInit, SetupTypeOK
  <1>7. ErrandInv
    BY <1>1 DEF ErrandInv
  <1>8. FoundedInv
    BY <1>5 DEF FoundedInv
  <1>9. MakerInv
    BY <1>1 DEF MakerInv, MakerTells, Making, OpenedIsComplete, SetupInit
  <1>10. LogosInv
    BY <1>1, <1>5 DEF LogosInv, LogoTells, LogosAreSchools, SetupInit
  <1>11. UsersInv
    BY <1>1, <1>4, <1>5 DEF UsersInv, UserTells, AccountTells
  <1> QED BY <1>6, <1>7, <1>8, <1>9, <1>10, <1>11 DEF SetupInv

LEMMA SetupKeeps == SetupInv /\ [SetupNext]_setupVars => SetupInv'
  <1> SUFFICES ASSUME SetupInv, [SetupNext]_setupVars PROVE SetupInv'
    OBVIOUS
  <1>1. CASE SetupNext
    <2>1. PICK s \in Setter : Wizard(s) \/ Branches(s)
      BY <1>1 DEF SetupNext
    <2>2. CASE Wizard(s)
      BY <2>2, StartSetupKeeps, LookAgainKeeps, CreateSchoolKeeps, FillBranchKeeps,
         CreateOwnerKeeps, CreateOwnerStaffKeeps, RegisterSchoolKeeps, FailSetupKeeps,
         BreakOffKeeps DEF Wizard
    <2>3. CASE Branches(s)
      BY <2>3, StartBranchKeeps, CreateBranchKeeps, StartOnUserKeeps, RemoveAdminKeeps,
         CreateAccountKeeps, CountStaffKeeps, CreateAdminStaffKeeps, AssignKeeps,
         PointAtKeeps, ForgetKeeps DEF Branches
    <2> QED BY <2>1, <2>2, <2>3
  <1>2. CASE UNCHANGED setupVars
    <2>1. /\ school' = school /\ branch' = branch /\ user' = user /\ logos' = logos
          /\ setter' = setter /\ sets' = sets /\ opened' = opened /\ torn' = torn
      BY <1>2 DEF setupVars
    <2>2. /\ Founded' = Founded /\ Sets("setup")' = Sets("setup")
          /\ \A s \in Setter, pc \in SetupPc : Awaits(s, pc)' <=> Awaits(s, pc)
          /\ \A u \in User : OnUser(u)' = OnUser(u)
      BY <2>1 DEF Founded, Sets, OnUser, Awaits
    <2>3. SetupTypeOK' /\ ErrandInv'
      BY <2>1 DEF SetupInv, SetupTypeOK, ErrandInv
    <2>4. FoundedInv'
      BY <2>1, <2>2 DEF SetupInv, FoundedInv, SetupPc
    <2>5. MakerInv'
      BY <2>1 DEF SetupInv, MakerInv, MakerTells, OpenedIsComplete
    <2>6. LogosInv'
      BY <2>1, <2>2 DEF SetupInv, LogosInv, LogoTells, LogosAreSchools
    <2>7. UsersInv'
      BY <2>1, <2>2 DEF SetupInv, UsersInv, UserTells
    <2> QED BY <2>3, <2>4, <2>5, <2>6, <2>7 DEF SetupInv
  <1> QED BY <1>1, <1>2

\* The parts of the claim, each from the part of the invariant made for it.
LEMMA SetupHolds == SetupInv => SetupAgrees
  <1> SUFFICES ASSUME SetupInv PROVE SetupAgrees
    OBVIOUS
  <1>1. OneSchool
    <2>1. ASSUME <<"set-ups", 0>> \notin torn PROVE ~(Cardinality(Founded) > 1)
      <3>1. \A k, l \in Founded : k = l
        BY <2>1 DEF SetupInv, FoundedInv
      <3>2. CASE Founded = {}
        BY <3>2, FS_EmptySet
      <3>3. CASE Founded # {}
        <4>1. PICK k : Founded = {k}
          BY <3>1, <3>3
        <4>2. Cardinality({k}) = 1
          BY FS_Singleton
        <4> QED BY <4>1, <4>2
      <3> QED BY <3>2, <3>3
    <2> QED BY <2>1 DEF OneSchool
  <1>2. OpenedIsComplete /\ LogosAreSchools
    BY DEF SetupInv, MakerInv, LogosInv
  <1>3. UsersAreWhole
    <2>1. ASSUME NEW u \in User, <<"user", u>> \notin torn, OnUser(u) = {}
          PROVE  /\ user[u].login => user[u].staff # <<Nowhere, 0>>
                 /\ user[u].points # Nowhere => LandsIn(u) = {user[u].points}
      <3>1. AccountTells(user[u], "idle", Nowhere)
        BY <2>1 DEF SetupInv, UsersInv, UserTells
      <3> QED BY <3>1 DEF AccountTells, Admits, LandsIn, Entitled
    <2> QED BY <2>1 DEF UsersAreWhole
  <1> QED BY <1>1, <1>2, <1>3 DEF SetupAgrees

\* The set-up wizard, the branches and their admins: set-ups that do not cross
\* found one school, a school that was opened can be worked with, each logo is
\* a school's and each user has a staff row and lands where the pointer says,
\* but for what crossed or was cut short.
THEOREM SetupAgreesHolds == SetupSpec => []SetupAgrees
  BY SetupStarts, SetupKeeps, SetupHolds, PTL DEF SetupSpec
=============================================================================
