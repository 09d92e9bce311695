# School ERP: a TLA+ verification project

Models of the parts of this repository where money, marks, messages and
sessions can go wrong when requests overlap, processes die or calls are
repeated; TLC runs that check them on small instances; and theorems, checked by
TLAPS, that hold for every value of the constants. Everything is translated
from the code; docs and comments are quoted only where the code disagrees with
them.

Run a model with `tlc -workers 2 -config MCFeeRace.cfg MCFeeRace`, a proof with
`tlapm FeeProofs.tla`. The module of a run is the one PROJECT.json names beside
its cfg.

Contents: [the system](#the-system), [modules](#modules), [runs](#runs),
[what a passing run leaves out](#what-a-passing-run-leaves-out),
[fairness](#fairness), [proofs](#proofs),
[where code and texts disagree](#where-the-code-and-its-texts-disagree),
[not modelled](#not-modelled), [plan](#plan).

## The system

One PostgreSQL database per school, a control-plane database for the platform,
TypeScript services behind a gateway, three Go services, front ends. No code
sets a transaction isolation level, so every Prisma transaction runs READ
COMMITTED: a statement sees what is committed when it starts, and only written
rows (and `SELECT ... FOR UPDATE`) are locked. Services may run as several
processes; every handler awaits between its statements. Timers inside the
processes run sweeps and drains beside the requests.

| Component | State | Operations | What is hard | What makes it correct |
|---|---|---|---|---|
| Fee engine (`packages/domain/src/fees.ts`, `sequences.ts`) | Invoice, Payment, PaymentAllocation, FeeLedger, number rows | postDemand, postPayment, refunds, bounces, desk postings | reads without locks followed by absolute writes, replay of keys, rests of a payment | invoice, allocation and ledger agree; a key credits once; oldest dues first; numbers without gaps |
| Fee desk (`payment-methods.ts`, `fee-service/src/index.ts`, `methods.routes.ts`) | concessions, bills of a period, cheques, slips, carried dues | generate, deposit, credit, bounce, reconcile, carry forward | checks outside transactions, runs that overlap or die | billed once per period; a cheque's status is its payment's fate |
| Gateway payments (`gateway-payments.ts`, `gateway.routes.ts`) | intent rows INITIATED, PENDING, SUCCESS, FAILED, REFUNDED | order, webhook, verify, reconcile | three surfaces race; events lost, late, repeated; a crash after the claim | credited once, only for money taken, and in the end |
| Late fees (`late-fees.ts`, `late-fees.routes.ts`, `sweeps.ts`) | fines (invoices), tagged ledger entries, run rows | apply, reverse, nightly sweep | a pass is many statements; payments in between; passes that stop | one fine per invoice and rule; complete reversals |
| Dispatcher and credit gate (`communication-service/src/dispatcher.ts`) | NotificationLog rows, credit envelope | drain (route, triggers, timer), receipts | overlapping passes, retries, crashes, receipts in any order | nothing sent twice, statuses are true, nothing forgotten |
| Notices (`absence-alerts.ts`, `fee-reminders.ts`, `exam-triggers.ts`) | the same log, as what was told | scans of absences, dues, schedules | scan and insert are separate; corrections; scans that die | everybody told, nobody twice |
| Class-room chat (`chat-hub.ts`, mobile tab) | messages, rooms, sockets, Redis, tabs | post, deliver, load, reconnect, transfer | load racing push, Redis down, restarts | who is in the room sees it |
| Session tokens (`packages/auth/src/tokens.ts`, identity-service) | refresh records per family, support grants | login, refresh, revoke, reset, activate | every store call is an await; replays | one use per token; revoked stays revoked |
| Web client (`apps/web/src/lib`) | stored tokens, offline outbox | refresh on 401, save, flush | tabs share storage; answers get lost; passes overlap | stays signed in; no save is lost |
| Tenant gate (`packages/tenant`, `gateway`) | registry cache, pool of clients, directory | resolve, connect, log in | stale cache, eviction, an address given to another school | right school, closed in time |
| Provisioning and fleet (`provisioning-service`) | tenants, datastores, databases, migration runs | provision, resume, delete, migrate | a database and its registry row cannot commit together | no half-made or half-deleted tenant |
| Billing (`billing.ts`, `credits.ts`) | SaaS invoices, envelopes, dunning trail | convert, top up, spend, dun, override | count-then-mint under an advisory lock; a pass over stale reads | dense numbers; envelopes add up; the trail explains the status |
| Set-up (`provision-service`) | school, branches, accounts, logo files | wizard, branches, admins, switch | statements commit one by one | one school, whole users, no orphan files |
| Attendance (`attendance-service`, `packages/domain`) | sessions, records, trail, summary, staff row | mark, amend, leave, rebuild, desk | reads before writes everywhere | trail and summary agree with the records |
| Enrolment (`student-service`, `promotion.ts`, `enrollments.ts`) | applications, enrolment rows, batches | admit, promote, reverse, transfer | preview and execution are apart; reversal after changes | one live enrolment; a reversal restores |
| Exams (`exam-service`, `bulk-processor`, staff- and academic-service) | results, audit rows, status ladder | enter, import, submit, verify, publish | status read before the transaction that relies on it | published means reviewed, and frozen |
| Academics, timetable engine | slots, problems, book copies; search state | edit, generate, cover, lend | problems out of date; mirrors beside the board | a teacher in one place; a verdict is true |
| Staff (`staff-service`) | accounts, photos, leave, pay | hire, edit, decide, run payroll | no transactions | login follows post; first decision stands; paid once |
| Pupils, imports (`student-service`, `bulk-processor`) | pupil files, consents, numbers, jobs | admit, erase, import twice | numbers minted from maxima; twin importers | distinct rolls; reported or enrolled |
| Notification engine (Go) | rooms, clients, channels | register, unregister, publish | slow consumers, closing channels | no send on a closed channel; publishers never wait |

How they meet: the fee-service calls the domain engine in-process; the gateway
capture and the cheque desk end in `postPayment`; late fees are demands of the
engine, and payments change the invoices a pass is reading; fee reminders,
absence and exam triggers write NotificationLog rows that the dispatcher
drains; the dispatcher spends credits that billing sells; the gateway asserts
to a service who calls and for which school; provisioning and dunning change
the tenants that the gate lets through; the academic-service sends the engine a
problem and persists its board.

## Modules

A model keeps the control: every statement outside a transaction, and every
transaction, is a step; what a handler read stays in a record of the handler
(`worker`, `req`, `desk`, `caller`, `clerk`, ...) until it acts on it. A request may end
between two steps by a step of its own (`Abort`, `Crash`, `Die`, `CutShort`, `BreakOffSend`,
`EndPass`, `HangUp`, ...), which frees its slot in the run; the late fees do so at the points of `FailPoints`
only. In the sessions, the tenant gate and the engine's search a death leaves
nothing to release: it is a request that never takes its next step. Data is reduced to what the properties tell
apart. History variables are marked as such where they are declared: they record
that something happened (two scans overlapped, a request wrote what others had
overtaken), and let a property state what is lost when it did. Each constant that only bounds a run is marked `bound`.

**FeeLedger**: the engine with one whole call per action: what it promises
when nothing else runs. `inv`, `pay`, `alloc` are the rows of Invoice, Payment
and PaymentAllocation; `ledger` keeps the net of the append-only FeeLedger per
*account*: an invoice, for entries that carry its id, or the student, for
entries posted without one (desk refunds, write-offs, bounce penalties).
`Allocation` and `Unallocation` are the two money loops, written as what each
invoice receives. Amounts are whole units; the code's 1e-6 tolerances become
exact comparisons.

**FeeRequests**: the same calls as the service runs them: a worker reads,
computes from what it read, and commits; a request may be aborted between any
two statements. It reuses FeeLedger's writes with the *view* the worker read
earlier, so the absolute `paidAmount` writes and what they overwrite are in
the model. The key lookup, cash aggregate and cheque checks sit where the code
has them; the RECEIPT row is the one lock; a cheque's number comes from a
transaction of its own and is lost when the cheque fails.

**FeeDesk**: the accountant's side, where an invoice is its total and a cheque
the fate of its payment: bills of a class and period with concessions, carried
dues, deposit slips with their reconciliation, credit and bounce. The number of a bill is
its period and the end of the pupil's id (`Tail`), which two pupils may share; an
insert may fail, and the run goes on without that bill.

**PaymentIntents**, **GatewayCapture**: what the school is promised about an
online payment, and the protocol that implements it: each statement of
`captureGatewayPayment` is a step of a worker; webhook, verify and reconcile are
three ways to start it. The gateway and its customers are external: attempts
on an order fail, are authorized or captured, for the right or a wrong amount,
and each event may be delivered any number of times or never. A reconciliation reads
a batch of the oldest open orders, and what it asks of the gateway may fail.

**LateFees**: passes (scan, read references, then demand, tag and mark per
pair), audit rows, reversals, payments and a calendar. An amount is reduced to
nothing, part or all paid.

**Dispatcher**: drain passes statement by statement, with the fallback chain as
one step (someone accepts, or all fail), the 10-minute backoff and quiet hours as
events, delivery receipts and the credit gate.

**Notices**, **ClassChat**: the scans that queue rows, over the log they go by;
and posting, publishing through Redis, the hub's rooms on several instances,
and the tab that loads a room and appends what is pushed.

**SessionTokens**, **WebSession**: the token store's single calls (get, reload,
delete, issue) as steps of concurrent requests, with administrators, resets and
support grants; and the tabs of one browser that present tokens to it, each
with one refresh in flight. `row.here` says whether the user is in the database that
/auth/refresh reads, which need not be the one the login was routed to.

**TenantGate**: one request or login from the gateway's hint over the timed
cache and the pool of clients to a school's database, while schools are
suspended, deleted and their addresses given away.

**Provisioning**, **Billing**, **SchoolSetup**: the control plane of one slug
with its undo chain and faults; sales, envelopes, dunning and override, beside operators
who write a status by hand; the wizard with its branches and admins.

**Attendance**, **AttendanceOutbox**: marking, amendments, leaves, the summary,
rebuilt by an aggregate and an upsert per pupil that other requests fall between, and the staff row; and the web client's IndexedDB outbox over a bad network.

**Enrolment**, **Exams**, **Academics**, **TimetableEngine**, **Staffing**,
**Imports**, **Pupils**, **NotificationHub**: see the header of each, which
says what a step is and what is left out. The solver is the one algorithm: its
restarting search is compared with the engine's own full check and, where it
answers "infeasible", with every board.

**MC\*** modules give TLC the function- and set-valued constants and symmetry
sets, and compose models that share no table into one run: a behaviour follows
the *part* its initial state names and leaves the others alone. As their steps
commute and no property looks at two parts, nothing is lost; parts share model
values only to share one symmetry set (the cfg files say so).

**FeeProofs** (FeeLedger, FeeRequests, FeeDesk), **GatewayCaptureProofs**,
**OfficeProofs** (LateFees, Enrolment, Academics, TimetableEngine), **DispatcherProofs**
(Dispatcher, Notices, Attendance, ClassChat), **SessionProofs** (SessionTokens, WebSession,
Imports, TenantGate), **BillingProofs** (Billing, Provisioning, SchoolSetup) and **SchoolProofs**
(NotificationHub, AttendanceOutbox, Exams, Staffing, Pupils) hold the theorems, **SumProofs** what
they need to know about sums. Models share a proof module when their names do
not clash; nothing in one is used about another.

Definitions marked "Mutant" or "Mutation of" are plausible bugs; each property is
known to fail when its mutation replaces the definition.

## Runs

Every run is exhaustive within its bounds and ends within four minutes with
two workers. Deadlock checking is off everywhere because the bounds let a system
run out of things to do.

| Run | Root module, cfg | Distinct states | Properties | What it shows, at which bounds |
|---|---|---|---|---|
| `fee_serial` | MCFeeRequests, MCFeeSerial | 436,479 | InvoiceTie, MoneyAccounted, OldestDueFirst, ImplementsLedger | One request at a time: every invoice equals its postings, a payment is placed in full and oldest dues first, and statements add up to whole calls. One student, two invoices, two payments, amounts 1 and 3: under, exactly and over the dues. |
| `fee_race` | MCFeeRace | 887,869 | KeysAndReceiptsOnce, LedgerIsAllocations, DeskAgrees | Two payments in flight, with and without the same key; two desk requests of five at once over two pupils who share a number, two heads, two cheques, two slips. |
| `gateway` | GatewayCapture | 52,487 | ImplementsIntents, PaidIsCredited | Two orders, two attempts, a handler beside the reconciler with a batch of one, one fault (crash, lost answer or failed fetch): booked once, and in the end, if somebody keeps reconciling, or crowded out. |
| `late_fees` | MCLateFees | 111,165 | OneFinePerPair, ReversedRunIsUndone, OverdueIsFined | Passes that throw, repeated and reversed, over two disjoint slabs and days enough to leave the first. |
| `dispatcher` | Dispatcher | 140,048 | SentOnceAlone, StatusTellsFate, QueuedIsSettled | The drain route and the timer overlap, one pass may die; one message, two attempts, one credit. Messages interact only by being in one batch and by the envelope. |
| `portal` | MCPortal | 1,926,272 | RevokedStaysRevoked, UsedOnce, ClaimsAreLive, StaysSignedIn, StaffAgrees, ImportIsTrue, GateAgrees | Sessions under refresh, logout, reset, support and two tabs; the staff desk; two uploads of two rows; two requests through the tenant gate while the control plane changes. |
| `control_plane` | MCControlPlane | 1,682,679 | SalesAddUp, TrailExplains, RegistryIsTrue, SetupAgrees | Two sales and two dispatchers that may break off; a dunning ladder scaled to five days beside an operator's status; two operators on one slug; three set-up requests. |
| `outbox` | AttendanceOutbox, MCOutbox | 120 | LastWriteWins (violated) | The finding below. |
| `school_day` | MCSchoolDay | 1,191,902 | RecordsAgree, SaveIsKept, NoticesAreTold, SeesTheRoom | Two attendance requests at once over two pupils, three in all (two among the leaves and the staff row); two sheets saved offline; three scans over two families with one guardian; two posts to two rooms on two instances, pages of one message, two faults. |
| `school_year` | MCSchoolYear | 1,146,129 | EnrolledOnce, ReversalRestores, SchoolHouseAgrees, EngineTellsTruth | Two enrolment requests at once over two pupils, two years and two batches; two office handlers, three writes, hours that overlap; 288 small problems with shortlists of three hours, with every board as the reference, and 24 days of cover. |
| `exams` | MCExams | 2,165,876 | MarksAreReviewed, PublishedIsFrozen, PupilsAgree | Two requests at once on two pupils' results; five pupil-file requests in an empty class, of a branch without a sequence or with one, and in a class of eight. |
| `hub` | MCNotificationHub | 88,068 | SocketsAreSafe, HubServes | One socket with room for two frames, a handler and the Redis subscriber as publishers, shutdown. That a slow socket does not starve its neighbours follows from no publisher ever waiting for one, not from a second socket in the run. |

Why the bounds are enough: the hazards of this code need two actors and two
rows. Every check-then-act pair is broken by one other request between the two
steps, every lost update by two writers, every recovery by one crash and one
retry. Where a third matters (a key, a payment and a bounce; two batches over
one pupil; a reversal of the first of two) the bounds include it. Limits in the
code that a run is to reach are constants, small in its cfg: the 100 orders of a
reconciliation (`Batch` = 1, so that an abandoned order keeps the other out), the
64 hours the search tries for a lesson (`MaxCandidates` = 3 of four), the 50 messages of
a chat page (1), the 60 s of the registry's cache (no tick), the buffer of a socket (2).
The 100 rows of a drain are not reached: one message is too few for any batch, and
no property is about what a full batch leaves out. The dunning ladder is scaled to five days because only the
order of its dates and the days between them matter.

## What a passing run leaves out

A property that the code does not keep in every case is stated for the cases in
which it does, and the rest is named, in the property itself, by a history
variable or a hypothesis. None of them is a restriction on what may happen in
the model: the behaviours are explored (and the history variable records them),
but the property says nothing of them. What they mean in the code is listed
[below](#where-the-code-and-its-texts-disagree).

- `raced`, `redecided`, `tangled` (Enrolment), `crossed`, `behind` (Academics),
  `twoScans`, `late`, `unlogged` (Exams), `overlap` and `quietSince` (Dispatcher,
  Billing), and the others of that kind: two requests that read before
  either wrote.
- `purged` (Billing): a tenant with invoices was deleted and with it its numbers.
- Crashes, timeouts and swallowed errors that leave something undone
  (`torn`, `wiped`, `gaveUp`, `owed`, ...), where the code has nothing that would
  finish it.
- In `late_fees` the only statement that may throw is the one that marks the
  run (`FailPoints = {"mark"}`): one that throws between a fine and its tag leaves
  a fine the next pass does not see.
- In `dispatcher` no receipt says *queued*, which would send a message again.
- `school_year` prunes enrolment behaviours once two writers of enrolments have
  overlapped or a reversed batch had changed (`Promised`): beyond that point
  neither property says anything. The theorems have no such limit.

## Fairness

Only four properties are about what must happen; the rest hold with no fairness.

- `gateway`, PaidIsCredited: a worker that runs goes on (`WF Advance`). Nothing in the
  code starts a reconciliation: it is a POST somebody sends (`gateway.routes.ts:299`).
  That somebody keeps sending it is therefore no fairness of the specification but the
  hypothesis of the property (`WF_vars(StartReconcile) => ...`). Not assumed: that a
  webhook arrives or that a browser verifies.
- `late_fees`, OverdueIsFined: the nightly sweep is started and a pass goes on.
- `dispatcher`, QueuedIsSettled: a drain that runs goes on, the timer's drain is
  started again, a backoff ends, and the night is not endless. The drain route is
  not assumed to be called.
- `hub`, HubServes: the goroutines run when they can (weak fairness of the
  reader, the writer, the hub and a publisher's walk), and a select that offers a
  departure over and over takes it (strong fairness of `Leave` and
  `RemoveDropped`): Go's select chooses at random among ready cases.

## Proofs

Eight modules, 5,000 lines of model, 26,800 of proof and 29,500 obligations. A theorem holds
for every value of the constants that the ASSUMEs of the modules allow: any
numbers of students, pupils, messages, workers, tabs, days. The
other hypotheses are in the statements:

- `OneWorker` (fees refinement, dunning), `OneAtATime` (late fees): what the
  model checker refutes for two is not claimed for two.
- `OnlyPayments`, `NoLoosePosting` (fees): the branch refunds nothing and bounces
  nothing, respectively posts nothing without an invoice.
- `NoQueuedReceipt` (dispatcher): as in the run.

| Module | Theorems | The argument |
|---|---|---|
| SumProofs | SumRemove, with SumSplit, SumChange, Greatest, ... | The community modules' sum folds over a set by CHOOSE; that the order does not matter is proved by induction over finite sets as a minimal counterexample, since the library's induction theorems take an operator. |
| FeeProofs | LedgerInvariant, InvoiceTieHolds, TieOutHolds, MoneyAccountedHolds, OldestDueFirstHolds, TypeCorrect; KeysAndReceiptsOnceHolds, LedgerIsAllocationsHolds, ImplementsLedgerHolds | InvoiceTie is not inductive: a new invoice must find no postings (rows are created in order), a payment not yet made must have no allocation, a row not there must be blank. Each call has a lemma for the tie of the invoices it touches; sums over accounts follow from SumChange. With workers, the invariant says what each holds: its view is a past state, its receipt number is above all committed ones while it holds the row's lock. |
| FeeProofs | DeskAgreesHolds | What a desk request found still holds, or another has acted on it since (`DeskInv`): a cheque is in one clerk's hands or on one slip, it has bounced exactly when its payment is disputed, and a run of bills leaves out only who owes nothing or is billed already. |
| GatewayCaptureProofs | CaptureInvariant, Refinement, CreditedOnceHolds, StatusTellsCreditHolds, CreditIsEarnedHolds, ClaimHasOwnerHolds, TypeCorrect | `Claims`, `Books`, `Owned`: a PENDING row has one worker that will credit or release it, unless one died; so a commit finds its row PENDING and uncredited, and each step maps to one of PaymentIntents or to a stutter. |
| OfficeProofs | LateFeesInvariant, OneFinePerPairHolds, ReversedRunIsUndoneHolds | The references a pass holds contain every tagged fine, and every fine without a tag is the pass's own. |
| OfficeProofs | EnrolledOnceHolds, ReversalRestoresHolds | What a request read still holds when it writes (`FlowInv`), unless requests overlapped; each batch's before and after differ only in the old row and the new one it opened (`Turned`), its tag is on rows of its pupils alone (`TagInv`); so giving back rows as they were left gives the rows of before, which had one live enrolment and no certificate. |
| OfficeProofs | SchoolHouseAgreesHolds | What a handler read covers the rows there are (`Fits`), unless it is `behind`; each copy taken and not yet decremented, or returned and not yet incremented, is in one handler's hands. |
| OfficeProofs | EngineTellsTruthHolds | Each mirror is a count over the board, and adding or taking a lesson changes both alike; what the mirrors let in is what the rules allow (`FreeAt`), so the stack's board is lawful, and full when nothing is open. For "infeasible": a legal board that agrees with the stack is still ahead of the search, in an hour not tried yet or one tried now, until a slice is given up (`HopeInv`); the arithmetic refuses only what no legal board can have, by counting lessons per section, teacher and day. |
| DispatcherProofs | DispatcherInvariant, SentOnceAloneHolds, StatusTellsFateHolds | What each replica read, and the credits held, sent and given back. |
| DispatcherProofs | NoticesAreToldHolds | What a scan has still to queue is not in the log unless another of its kind overlapped it, and what it has left out is covered by a row of the log, which no scan removes (`NoticesInv`). |
| DispatcherProofs | RecordsAgreeHolds | What a rebuild nothing disturbed has counted are the records of the pupils it is through with (`LoneTally`), and a rebuild that something disturbs is no longer counted as one; a line of the trail and the status it ends at are written together or the record is marked again. |
| DispatcherProofs | SeesTheRoomHolds | What a tab is owed is on its screen, or among the envelopes Redis has yet to hand to its instance and of its room (`TabTells`), unless a load wiped it; so an empty pipe leaves nothing out. |
| SessionProofs | SessionInvariant, RevokedStaysRevokedHolds, UsedOnceHolds, ClaimsAreLiveHolds, StaysSignedInHolds | A token that works has a record, a record a family, and a family revoked since lives only in a refresh that was under way; a support grant is claimed by one request at a time; a browser all of whose answers arrived holds the newest token of its session. |
| SessionProofs | ImportIsTrueHolds | The counts of an upload are those of the rows it is through with, and so are the pupils it has made (`CountedTo`, `SettledTo`); a row is created only where there is none, so no two uploads make one number. |
| SessionProofs | GateAgreesHolds | The role and the tables of an address are those of the school that holds it (`PlaneInv`); a record a process keeps is of a school that has an address, and expires within the time to live of when that school was last open, unless a look-up dawdled (`CacheTells`); so is what each request was told, at every stage (`RequestTells`). |
| SchoolProofs | SocketsAreSafeHolds, SaveIsKeptHolds, MarksAreReviewedHolds, PublishedIsFrozenHolds | Hub: a channel is closed by whoever takes the client out of the map, under the lock. Outbox: a record's id is in the store, or on the wire with the pass that posts it. Exams: the stage a request read is at most the one there is, unless it is `late`. |
| SchoolProofs | StaffAgreesHolds | One request at most is at work on an account nothing crossed, and what it has still to write is known from the statement it is at (`Midway`); a photo is one row's, or in the hands of the request that saved it (`PhotoInv`); what a request is about to tell is the first decision. |
| SchoolProofs | PupilsAgreeHolds | Whoever mints holds the row of the sequence from its number to its commit, and so has the next number and, in a class of one-digit rolls, a roll nobody has (`AdmissionInv`); the last in the order of text is then the greatest (`RollIsNew`), and the first free login exists by a count (`LoginIsNew`). What one request has still to write about a consent or an erasure is known from the statement it is at (`ConsentOf`, `ErasureOf`). |
| BillingProofs | SalesAddUpHolds, TrailExplainsHolds | The holder of the advisory lock alone holds the next number; an unflagged low envelope has a dispatcher at it; and any two events of a trail with no override between are ordered, not only neighbours. |
| BillingProofs | RegistryIsTrueHolds | An operator's undo list names what that operator made (`SlugInv`), unless two built at once; a database that no fault and no rival touched has the recorded migrations and only its own school's rows (`Tidy`). |
| BillingProofs | SetupAgreesHolds | Unless set-ups cross, one request at a time is between the check and the School row (`FoundedInv`); a logo is in one set-up's hands until it is a school's (`LogosInv`); a new account is in its maker's hands until it has a staff row (`MakerInv`); and an account points where its user is an admin but for what its one request has still to do (`AccountTells`). |

What attempts to prove changed in the model. `TrailExplains` used to say that
no stage stands twice in a row in a trail. It passed its run and is false: three
conversions and seven days, more than the bounds, break it, because a conversion
wipes the stages. It now says what holds. Academics' `behind` counted library handlers, which
read no timetable row, as overtaken. Billing's invariant about the numbers
handed out has to name the lock's holder. `EnrolmentAssumption` and its like now
say what proofs need and the code gives: finitely many rows, sentinels that are no values.

Every invariant and action property of the passing runs is a theorem. Only
model-checked:

- PaidIsCredited, OverdueIsFined, QueuedIsSettled, HubServes: liveness under
  fairness needs ENABLED, which the prover does not handle.

## Where the code and its texts disagree

One disagreement is a run of its own, `outbox`: the offline outbox promises
"LAST WRITE WINS per student" (`offline-attendance.ts:13-15`), but a save made
while an older one of the same sheet is being posted is deleted with it.

The following were met while modelling. Those with a module can be reproduced as
described; the others were read in code that the models leave out.

**Fees.** HEAD_PRIORITY "is a caller-supplied invoice order via invoiceIds"
(`fees.ts:193-194`) and `PaymentAllocationMode` has MANUAL beside it
(`schema.prisma:1329-1333`), but no code reads the mode: the ids only filter, and
allocation is by due date whatever was asked (`fees.ts:182-204`). OldestDueFirst states what the
code does. `fees.ts:271` writes `paidAmount` as an absolute value read earlier: two
concurrent payments of a student lose one update, and the tie-out of
`fees.ts:324-325` fails (add INVARIANT TieOut to MCFeeRace.cfg). Two concurrent
bounces, gateway refunds or desk refunds act twice. The cash limit
(`fees.ts:175`) does not see payments in flight. A payment with no open
invoice posts nothing to the ledger (`fees.ts:205-218`). A bounce leaves
PARTIALLY_PAID on an invoice nothing is paid of (`payment-methods.ts:207`).
`receiveCheque` posts its payment with the outer client, outside its transaction
(`payment-methods.ts:114`).

**Gateway.** "A captured-at-the-gateway but never-webhooked payment gets credited here"
(`gateway.routes.ts:291-293`): not if 100 older orders of the branch were abandoned.
They stay INITIATED, are the first of every batch (`304-309`) and nothing closes them, so the
rows behind are never looked at (`Crowded` in PaidIsCredited). The reconciliation also skips an intent whose first attempt FAILED, so one
captured on a later attempt is credited only if its event arrives
(`gateway.routes.ts:291-293`, `309-313`).

**Late fees.** Two passes at once fine twice (`sweeps.ts:5-7` says re-runs are
safe; give MCLateFees.cfg two workers). A run marked FAILED may hold fines
(`late-fees.ts:411`). A pass can reopen an invoice that was paid meanwhile
(`late-fees.ts:160`).

**Dispatcher.** Overlapping drains read before they claim and send twice
(`dispatcher.ts:8-9` and `158-159` against `195-198`; add INVARIANT SentOnce to
MCDispatcher.cfg). A *queued* receipt puts a sent message back.

**Fee desk.** "re-running the same generation finds the existing invoice by invoiceNo
instead of double-billing" (`index.ts:444-446`): the number has the last six characters of the
structure's and of the pupil's id (`526`), so of two pupils with one ending the second
is skipped as if billed already, for every period and without an error (`527-528`); raced by another run, the insert
throws and is only counted. BilledOnce says that such a pupil is among the skipped. A FLAT concession without a head comes off every line, though the
schema says "NULL = applies to the whole invoice". The number of a bill contains
`periodStart` as the client spelled it: two spellings bill twice
(`index.ts:444-446`). Carry-forward repeats, and the old year keeps its
balance. A slip may receive a cheque after it was credited; a deposit racing a bounce
overwrites BOUNCED. The payment history route applies no student filter for a
parent without children.

**Chat.** A load read before a push and shown after it wipes the pushed message.
After a drop the mobile tab neither polls nor reconnects, though `sockets.dart:135`
says so. The socket keeps its ticket's room after a transfer.

**Sessions.** A login may be routed to a school's own database (`auth.routes.ts:230-238`), but
`/auth/refresh` reloads the user from the process's default one (`490`, `504`). There it
finds nobody, which rotation answers by revoking all sessions of the user
(`tokens.ts:317-320`): whoever was routed is signed out by the first refresh.
StaysSignedIn and ClaimsAreLive say so by `row.here`. "roles, tenant,
branch, and active status all come from the live row" (`tokens.ts:258-260`) does not hold of the
tenant: `loadUser` writes tenantId '' and schoolId null (`auth.routes.ts:130-138`), so a refresh, and a login
completed by a second factor, name no tenant. A revoked support grant does not stop refreshes, though
`support.routes.ts:20-21` says so. Nothing revokes sessions on a role change
(`tokens.ts:373`). Gateway and identity each own a MemoryTokenStore, so the
denylist is not shared. A login in flight during a reset survives it. Two
completions of one invitation, or of one reset, both succeed.

**Tenant gate.** The gateway deletes `x-tenant-slug` before it reads it, so the
mobile header of the comment "explicit X-Tenant-Slug (mobile) > subdomain" never
counts. Nothing calls `invalidate` or `deindexTenant`. Each routed login opens a
client and leaves it open. A directory entry whose tenant has no datastore sends
the login to the process's own database.

**Web.** 4xx batches are retried though a comment says they are not
(`offline-attendance.ts:118-119`). A new save inherits the attempts of a poisoned
batch. Two tabs that refresh at once, or a lost answer, burn the session. Logout
never calls the server.

**Notices.** An alert to a shared guardian suppresses the sibling's on that channel.
PUSH rows carry the user, not the pupil, so a second scan repeats them. Overlapping scans tell twice
(`absence-alerts.ts:15-18`).

**Provisioning, billing.** "tenant state changes flow through HERE, so the status machine
and the audit trail can never drift apart" (`billing.ts:11-12`), but `suspendTenant`
(`lifecycle.ts:18-26`, called by `cli.ts:146`) writes SUSPENDED and no DunningEvent: the model tells it
apart as SUSPENDED_BY_HAND, and TrailExplains speaks of the passes' suspensions alone. "The low-balance flag
trips once" (`credits.ts:12`): a dispatcher that dies, or whose next statement fails, behind its decrement
(`credits.ts:55-85`, `credit-gate.ts:36-58`, where the error is swallowed) leaves it unset; the next send makes up for it,
but at balance 0 there is none. Two provisions of one slug: the loser's undo drops the
winner's database. A failed undo leaves a datastore row without a database. Resume, convert
and override reactivate a tenant from DELETING (`lifecycle.ts:35`). Hard deletion
cascades to invoices, the count shrinks and numbers collide, though
`billing.ts:164-165` says "Safe now". A conversion wipes REMINDER and GRACE, so
a suspended tenant that converted gets no new warnings. CHURN_ALERT cannot be reached in
the normal course. A pass suspends on a stale read.

**Attendance, enrolment, academics.** "a teacher cannot be in two places at once" (`academic-service/src/index.ts:485`), but
only startTime is compared (`507-509`): 08:00-08:45 and 08:20-09:05 are both accepted, and a
request's own `periodTimes` or a kept hand-made row may overlap the generated ones. TeacherInOnePlace claims it
for rows that start together and for the periods of one grid. Interleaved rebuilds leave a stale summary; two
daily sessions may exist; office check-out races SET_ABSENT; locks exist
in the domain library but no route takes them. A promoted section gets one
roll number. The preview is read outside the transaction and overwrites a certificate.
Reversing the first batch after the second leaves rows of the next year
(`promotion.ts:254`). Two certificates, or two admissions of one applicant, may be
issued.

**Exams.** `/teacher/marks` and `/exam-results` write at any stage without audit,
though exam-service `app.ts:208` says marks cannot change after PUBLISHED. An entry
begun before publication commits after it. `marks.go` freezes VERIFIED results, the
exam-service does not. "every change (insert OR update) writes a MarkEntryAudit row"
(`marks.go:16-17`): the import's inserts write none (`marks.go:251-261`); TrailEndsAtMark
excuses them (`unlogged`). A stale status write takes PUBLISHED back to VERIFIED.

**Staff, imports, pupils, set-up.** PUT /staff/:id writes a client's `isActive` to the staff row
and leaves the login as it was (`staff-service/src/index.ts:199-203`; `alone` in LoginFollowsPost). Minted numbers are
called "race-safe" (`student.routes.ts:777-778`) by a row lock (`sequences.ts:4`), but the first number of a
branch has no row to lock: of two first admissions both create it and one fails on
the unique key (`sequences.ts:136-143`). The Node importer matches admission numbers as they
are spelled, the bulk importer by `upper()`, so a file with other capitals creates what
the other one updates; the model has one spelling of a number. A role once held cannot be taken up again, after all roles were
ended. A failed hire burns its address. HR decisions overwrite each other
though "the first decision always stands". A payroll re-run changes PAID rows,
though a comment says it "corrects nothing" (`hr.routes.ts:313-323`). An import's
`ok` count precedes its commit. The bulk importer writes guardians' phones
unencrypted. Roll numbers are a maximum of text: after 10 comes 10. A number
entered by hand that equals the next minted one blocks admissions. Overlapping
COMPLETE and REJECT of one erasure leave REJECTED with erased data. The set-up
wizard's "real lock" is a read.

**Notification engine.** "we also tear down non-user channels on ANY failed subscribe: fail-closed"
(`session.go:195-196`, `main.go:11`): an assertion of another user or tenant is rejected too,
but leaves the scope as it was (`session.go:205-208`). ScopeIsLastGrant allows that
and nothing else. The server takes sockets after `hub.close` until `Shutdown` (`main.go:243-246`), which
nothing closes; the model's sockets all come before. The envelope sent through Redis loses its channel and target
(`main.go:187`), so other instances reach nobody by them, and the own echo
reaches every subscriber of the tenant. A socket dropped before its greeting panics.
The reader may wait for ever on a full buffer whose writer is gone.

**Timetable.** The cover is said to be "only staff qualified for the subject", ranked "qualified first, then fewest total load,
then fewest same-day load" (`substitutions.go:7-12`). The code offers the unqualified behind the others and
knows no total load: the day's decides. A lock need not have a teacher (`model.go:84`), but two such in
one hour are reported as a clash of teacher "". The static test counts a demand's whole load against its teacher even when
locks of another teacher cover it (`solver.go:144`). Locks beyond demand show
only in the final check (`solver.go:133`). search lists 64 hours of a lesson at most
("MRV needs ordering, not the full list", `solver.go:453`) but then tries only those
listed, and may answer "infeasible" for a problem with a solution (`gaveUp`). Slots of other branches that share staff
are neither locked nor deleted. Library issue and return count in separate
statements.

## Not modelled

Analytics and AI services, tenant backup, usage metering and document layout
have no protocol: they read and render. Passwords, signatures and ciphers are
taken to do what their names say. Configuration, HTTP plumbing and the schema
are the ground the models stand on. The front ends are modelled where they keep
state that races with the server (tokens, outbox, chat tab). Percent concessions,
several concessions per pupil, PDFs, exports and guardian rows are left out
of the modules that mention their neighbours. The components and the reasons are listed
one by one in PROJECT.json.

## Plan

1. The part of the front ends that keeps state between calls.
