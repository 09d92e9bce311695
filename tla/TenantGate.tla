----------------------------- MODULE TenantGate -----------------------------
(***************************************************************************)
(* How a request finds its school: the gateway's hint and its assertion of *)
(* one hop, the tenant middleware with its look-ups of the control plane   *)
(* kept for a minute, the few clients of school databases a process keeps, *)
(* and the login, which routes by address and by directory. Meanwhile      *)
(* schools are suspended, deleted, and their addresses given to others; a  *)
(* school's database and its role are named after the address.             *)
(***************************************************************************)
EXTENDS Naturals, Sequences, SequencesExt

CONSTANTS
    Tenant,      \* tenants of the control plane: strings
    Slug,        \* addresses: strings
    Caller,      \* requests
    Ttl,         \* ticks a look-up is kept, and an assertion lives
    MaxPool,     \* clients a process keeps
    Queries,     \* queries of one request
    MaxTime,     \* bound: ticks
    MaxTurns,    \* bound: changes of the control plane
    MaxCalls     \* bound: requests

None == "none"
NoClaim == "anonymous"
Unrouted == "unrouted"      \* a token without a tenant

ASSUME GateAssumption ==
    /\ {Ttl, MaxPool, Queries, MaxTime, MaxTurns, MaxCalls} \subseteq Nat
    /\ MaxPool > 0
    /\ {None, NoClaim, Unrouted} \cap Tenant = {} /\ None \notin Slug

VARIABLES
    registry,    \* of each tenant: its row and its datastore
    base,        \* of each address: whose tables its database holds, whose password its role
    directory,   \* the tenant the login directory names for the one e-mail address
    cache,       \* look-ups kept, by id and by address
    pool,        \* tenants whose clients are kept, least recently used first
    rq,          \* each request
    clock,
    lastOpen,    \* history: when each tenant could last be served
    dawdled,     \* history: a look-up was kept a tick after its row was read
    turns,       \* bookkeeping of the bound
    asked        \* bookkeeping of the bound

gateVars == <<registry, base, directory, cache, pool, rq, clock, lastOpen, dawdled, turns,
             asked>>
platform == <<registry, base, lastOpen, turns>>
kept == <<cache, pool, dawdled>>

NoRecord == [id |-> None, status |-> None, store |-> FALSE]
Expired == [rec |-> NoRecord, until |-> 0]

GateInit ==
    \E t \in Tenant \cup {None}, s \in Slug :
        /\ registry = [u \in Tenant |->
                          IF u = t THEN [row |-> TRUE, slug |-> s, status |-> "OPEN", store |-> TRUE]
                          ELSE [row |-> FALSE, slug |-> None, status |-> "OPEN", store |-> FALSE]]
        /\ base = [x \in Slug |-> [tables   |-> IF x = s THEN t ELSE None,
                                   password |-> IF x = s THEN t ELSE None]]
        /\ directory \in {None, t}
        /\ cache = [k \in ({"id"} \X Tenant) \cup ({"slug"} \X Slug) |-> Expired]
        /\ pool = <<>>
        /\ rq = [r \in Caller |-> [at |-> "none"]]
        /\ clock = 0
        /\ lastOpen = [u \in Tenant |-> 0]
        /\ dawdled = FALSE
        /\ turns = 0
        /\ asked = 0

----------------------------------------------------------------------------
(* The control plane *)

Turn ==
    /\ turns < MaxTurns
    /\ turns' = turns + 1
    /\ UNCHANGED <<kept, rq, clock, asked>>

Serving(t) == registry[t].row /\ registry[t].status = "OPEN"

\* suspendTenant, scheduleDeletion: whatever the status was.
Close(t, status) ==
    /\ registry[t].row /\ registry[t].status # status
    /\ registry' = [registry EXCEPT ![t].status = status]
    /\ UNCHANGED <<base, directory, lastOpen>>

\* resumeTenant
Resume(t) ==
    /\ registry[t].row /\ ~Serving(t)
    /\ registry' = [registry EXCEPT ![t].status = "OPEN"]
    /\ lastOpen' = [lastOpen EXCEPT ![t] = clock]
    /\ UNCHANGED <<base, directory>>

\* hardDeleteTenant: database, datastore and row; the role and the directory stay.
HardDelete(t) ==
    /\ registry[t].row /\ registry[t].status = "DELETING"
    /\ registry' = [registry EXCEPT ![t].row = FALSE, ![t].store = FALSE]
    /\ base' = IF registry[t].store THEN [base EXCEPT ![registry[t].slug].tables = None] ELSE base
    /\ UNCHANGED <<directory, lastOpen>>

\* createTenant: the row and the role, whose password is new, ...
Provision(t, s) ==
    /\ registry[t].slug = None
    /\ \A u \in Tenant : registry[u].slug = s => ~registry[u].row
    /\ registry' = [registry EXCEPT ![t] = [row |-> TRUE, slug |-> s, status |-> "OPEN", store |-> FALSE]]
    /\ base' = [base EXCEPT ![s].password = t]
    /\ lastOpen' = [lastOpen EXCEPT ![t] = clock]
    /\ UNCHANGED directory

\* ... the tables and users, indexed if the address is one of theirs, and the datastore.
Provisioned(t, member) ==
    /\ registry[t].row /\ ~registry[t].store
    /\ registry' = [registry EXCEPT ![t].store = TRUE]
    /\ base' = [base EXCEPT ![registry[t].slug].tables = t]
    /\ directory' = IF member THEN t ELSE directory
    /\ UNCHANGED lastOpen

Change ==
    /\ Turn
    /\ \E t \in Tenant :
          \/ \E status \in {"SUSPENDED", "DELETING"} : Close(t, status)
          \/ Resume(t)
          \/ HardDelete(t)
          \/ \E s \in Slug : Provision(t, s)
          \/ \E member \in BOOLEAN : Provisioned(t, member)

Tick ==
    /\ clock < MaxTime
    /\ clock' = clock + 1
    /\ lastOpen' = [t \in Tenant |-> IF Serving(t) THEN clock + 1 ELSE lastOpen[t]]
    /\ cache' = [k \in DOMAIN cache |-> IF clock + 1 > cache[k].until THEN Expired ELSE cache[k]]
    /\ UNCHANGED <<registry, base, directory, pool, dawdled, rq, turns, asked>>

----------------------------------------------------------------------------
(* The gateway *)

Step(r, next) == rq' = [rq EXCEPT ![r] = next]
Reply(r, code) == Step(r, [at |-> "none"])

Begin(r) ==
    /\ rq[r].at = "none"
    /\ asked < MaxCalls
    /\ asked' = asked + 1

\* authenticate: a gated route asks for a token that lives.
TurnedAway(token, valid, gated) == gated /\ (token = None \/ ~valid)

\* mintAssertion: signed for this hop; nobody looks for it on a public route.
Asserted(host, token, gated) ==
    [at |-> "hop", hint |-> host, until |-> clock + Ttl, claim |-> IF gated THEN token ELSE NoClaim]

\* The tenant middleware deletes the client's own header before it looks for it,
\* which leaves the address.
Call(r, host, token, valid, gated) ==
    /\ Begin(r)
    /\ IF TurnedAway(token, valid, gated) THEN Reply(r, "401")
       ELSE Step(r, Asserted(host, token, gated))
    /\ UNCHANGED <<platform, kept, directory, clock>>

----------------------------------------------------------------------------
(* A service: assertion, withTenant, registry, clients *)

\* verifyAssertion, called by requireAssertion.
TooOld(r) == rq[r].claim # NoClaim /\ clock > rq[r].until

\* The first choice of withTenant: the signed tenant before the address.
Enter(r) ==
    /\ rq[r].at = "hop"
    /\ IF TooOld(r) THEN Reply(r, "401")
       ELSE IF rq[r].claim \in Tenant THEN Step(r, [at |-> "bind", key |-> <<"id", rq[r].claim>>])
       ELSE IF rq[r].hint # None THEN Step(r, [at |-> "slug", key |-> <<"slug", rq[r].hint>>])
       ELSE Reply(r, "400")
    /\ UNCHANGED <<platform, kept, directory, clock, asked>>

Owner(s) == {t \in Tenant : registry[t].row /\ registry[t].slug = s}

\* fetch: the tenant's row with its datastore.
Read(key) ==
    LET found == IF key[1] = "slug" THEN Owner(key[2]) ELSE {t \in {key[2]} : registry[t].row}
    IN IF found = {} THEN NoRecord
       ELSE LET t == CHOOSE t \in found : TRUE
            IN [id |-> t, status |-> registry[t].status, store |-> registry[t].store]

\* TenantCache.get
Fresh(key) == cache[key] # Expired

Blocked(rec) == rec.status # "OPEN"
BlockedCode(rec) == IF rec.status = "SUSPENDED" THEN "402" ELSE "423"

\* LruTenantClientCache.get: a miss first gives up the clients idle for long,
\* which are the least recently used ones, and then one more if none is left.
Pooled(t) ==
    IF Contains(pool, t) THEN {Append(RemoveAt(pool, n), t) : n \in {n \in DOMAIN pool : pool[n] = t}}
    ELSE {Append(IF Len(rest) >= MaxPool THEN Tail(rest) ELSE rest, t) :
             rest \in {SubSeq(pool, n, Len(pool)) : n \in 1 .. Len(pool) + 1}}

\* The rest of resolveBySlug in withTenant, of runWithTenant, of getClientFor.
Resolved(r, stage, rec, left) ==
    IF rec = NoRecord
    THEN Reply(r, IF stage = "slug" THEN "404" ELSE "500") /\ UNCHANGED pool
    ELSE IF stage = "slug"
    THEN Step(r, [at |-> "bind", key |-> <<"id", rec.id>>]) /\ UNCHANGED pool
    ELSE IF Blocked(rec)
    THEN Reply(r, BlockedCode(rec)) /\ UNCHANGED pool
    ELSE IF stage = "bind"
    THEN Step(r, [at |-> "query", key |-> <<"id", rec.id>>, left |-> Queries]) /\ UNCHANGED pool
    ELSE IF ~rec.store
    THEN Reply(r, "500") /\ UNCHANGED pool
    ELSE /\ Step(r, [at |-> "using", tenant |-> rec.id, asOf |-> clock, left |-> left])
         /\ pool' \in Pooled(rec.id)

LookUp(r) ==
    /\ rq[r].at \in {"slug", "bind", "query"}
    /\ LET key == rq[r].key
           left == IF rq[r].at = "query" THEN rq[r].left ELSE Queries
       IN IF Fresh(key)
          THEN Resolved(r, rq[r].at, cache[key].rec, left)
          ELSE /\ Step(r, [at |-> "store", stage |-> rq[r].at, key |-> key, left |-> left,
                           rec |-> Read(key), read |-> clock])
               /\ UNCHANGED pool
    /\ UNCHANGED <<platform, cache, dawdled, directory, clock, asked>>

\* The answer of the control plane is kept a minute from now, however long it took.
Keep(r) ==
    /\ rq[r].at = "store"
    /\ IF rq[r].rec = NoRecord THEN UNCHANGED <<cache, dawdled>>
       ELSE /\ cache' = [cache EXCEPT ![rq[r].key] = [rec |-> rq[r].rec, until |-> clock + Ttl]]
            /\ dawdled' = (dawdled \/ clock > rq[r].read)
    /\ Resolved(r, rq[r].stage, rq[r].rec, rq[r].left)
    /\ UNCHANGED <<platform, directory, clock, asked>>

\* Mutation of Reaches: the role of an address keeps its password.
ReachesAnyway(t) == base[registry[t].slug].tables

\* A client of tenant t knows the address and the password of t's row.
Reaches(t) ==
    LET there == base[registry[t].slug]
    IN IF there.password = t THEN there.tables ELSE None

Query(r) ==
    /\ rq[r].at = "using"
    /\ IF Reaches(rq[r].tenant) = None THEN Reply(r, "500")
       ELSE Step(r, [at |-> "read", tenant |-> rq[r].tenant, left |-> rq[r].left - 1,
                     from |-> Reaches(rq[r].tenant)])
    /\ UNCHANGED <<platform, kept, directory, clock, asked>>

\* The next query, or the answer.
Proceed(r) ==
    /\ rq[r].at = "read"
    /\ IF rq[r].left = 0 THEN Reply(r, "200")
       ELSE Step(r, [at |-> "query", key |-> <<"id", rq[r].tenant>>, left |-> rq[r].left])
    /\ UNCHANGED <<platform, kept, directory, clock, asked>>

----------------------------------------------------------------------------
(* The login *)

Login(r, host) ==
    /\ Begin(r)
    /\ Step(r, [at |-> "route", hint |-> host, dir |-> directory, began |-> clock])
    /\ UNCHANGED <<platform, kept, directory, clock>>

\* resolveLoginTenant: by address, or by what the directory said; a tenant without
\* row or datastore leaves the process's own database.
Route(r) ==
    LET byAddress == rq[r].hint # None
        rec == IF byAddress THEN Read(<<"slug", rq[r].hint>>)
               ELSE IF rq[r].dir = None THEN NoRecord ELSE Read(<<"id", rq[r].dir>>)
        Routed(t) == [at |-> "check", tenant |-> t, began |-> rq[r].began]
    IN /\ rq[r].at = "route"
       /\ IF byAddress /\ rec = NoRecord THEN Reply(r, "404")
          ELSE IF byAddress /\ ~rec.store THEN Reply(r, "503")
          ELSE IF ~byAddress /\ ~rec.store THEN Step(r, Routed(Unrouted))
          ELSE IF Blocked(rec) THEN Reply(r, "403")
          ELSE IF byAddress /\ rq[r].dir \notin {None, rec.id} THEN Reply(r, "401")
          ELSE Step(r, Routed(rec.id))
       /\ UNCHANGED <<platform, kept, directory, clock, asked>>

\* The account is looked for in the routed database.
Check(r, valid) ==
    LET tables == IF rq[r].tenant = Unrouted THEN Unrouted ELSE Reaches(rq[r].tenant)
    IN /\ rq[r].at = "check"
       /\ IF tables = None THEN Reply(r, "500")
          ELSE IF ~valid THEN Reply(r, "401")
          ELSE Step(r, [at |-> "index", tenant |-> rq[r].tenant, from |-> tables,
                        began |-> rq[r].began])
       /\ UNCHANGED <<platform, kept, directory, clock, asked>>

\* indexTenantUser, whose failure is ignored, and the token pair.
Issue(r, indexed) ==
    /\ rq[r].at = "index"
    /\ directory' = IF indexed /\ rq[r].tenant \in Tenant THEN rq[r].tenant ELSE directory
    /\ Reply(r, "200")
    /\ UNCHANGED <<platform, kept, clock, asked>>

GateNext ==
    \/ Change
    \/ Tick
    \/ \E r \in Caller, host \in Slug \cup {None} :
          \/ \E token \in {None, Unrouted} \cup {t \in Tenant : registry[t].slug # None},
                valid, gated \in BOOLEAN : Call(r, host, token, valid, gated)
          \/ Login(r, host)
    \/ \E r \in Caller :
          \/ Enter(r) \/ LookUp(r) \/ Keep(r) \/ Query(r) \/ Proceed(r) \/ Route(r)
          \/ \E yes \in BOOLEAN : Check(r, yes) \/ Issue(r, yes)

GateSpec == GateInit /\ [][GateNext]_gateVars

----------------------------------------------------------------------------
(* Properties *)

\* What a query of a request or the password check of a login read belongs to
\* the tenant it was routed to, though an address and the database named after
\* it pass from one school to another (tenantPrisma, resolveLoginTenant).
RightSchool ==
    \A r \in Caller : rq[r].at \in {"read", "index"} => rq[r].from = rq[r].tenant

\* A request gets no client for a school that was closed more than a minute ago,
\* if no answer of the control plane took longer than a tick (getClientFor).
SuspensionIsFelt ==
    \A r \in Caller :
        rq[r].at = "using" /\ ~dawdled => rq[r].asOf <= lastOpen[rq[r].tenant] + Ttl

\* Nobody gets a session for a school that was closed when the login began.
NoSessionWhenClosed ==
    \A r \in Caller :
        rq[r].at = "index" /\ rq[r].tenant \in Tenant => rq[r].began <= lastOpen[rq[r].tenant]

\* A process keeps one client of a school and not more than it may.
PoolIsBounded == Len(pool) <= MaxPool /\ \A i, j \in DOMAIN pool : pool[i] = pool[j] => i = j

\* The gate as a whole: right school, in time, within the connection budget.
GateAgrees == RightSchool /\ SuspensionIsFelt /\ NoSessionWhenClosed /\ PoolIsBounded
=============================================================================
