------------------------------- MODULE FeeDesk -------------------------------
(***************************************************************************)
(* The accountant's desk around the ledger: concessions, the invoices of a *)
(* class for a period, dues carried into the next year, and the cheques on *)
(* their way to the bank. FeeLedger has the postings; here an invoice is   *)
(* its total and a cheque the fate of its payment.                         *)
(*                                                                         *)
(* Most requests read, check and then write what they read by its id; a    *)
(* read and a transaction are a step each.                                 *)
(***************************************************************************)
EXTENDS Naturals, FiniteSets, FiniteSetsExt, Functions

CONSTANTS
    Pupil, Head,
    Tail,         \* the end of a pupil's id, which two pupils may share
    Price,        \* of each fee head in the structure
    Off,          \* values of flat concessions
    Period,       \* the period as requests spell it; part of the number of an invoice
    Cheque, Slip,
    Clerk,        \* requests under way
    MaxDesk       \* bound: requests started

ASSUME DeskAssumption ==
    IsFiniteSet(Head) /\ Price \in [Head -> Nat] /\ Off \subseteq Nat /\ MaxDesk \in Nat

VARIABLES
    enrolled,    \* pupils enrolled in the classes of the structure
    concession,  \* of each pupil
    invoice,     \* the total of the invoice of a pupil for a period, by its number
    demanded,    \* how often the ledger demands it
    owing,       \* pupils with dues left in the old year
    carried,     \* demands into the new year
    account,     \* pupils with a virtual account
    cheque,      \* each cheque and its payment
    slip,        \* each deposit slip
    desk,        \* each request
    begun,
    crossed      \* history: cheques two requests were at once at work on

deskVars == <<enrolled, concession, invoice, demanded, owing, carried, account, cheque,
              slip, desk, begun, crossed>>
billing == <<enrolled, concession, invoice, demanded, owing, carried, account>>
banking == <<cheque, slip, crossed>>

NotBilled == 0
NoConcession == [status |-> "none"]
NoCheque == [status |-> "none", payment |-> "none", slip |-> "none", penalties |-> 0]
NoSlip == [status |-> "none", counted |-> {}]
NoDesk == [pc |-> "idle"]

DeskInit ==
    /\ enrolled \in SUBSET Pupil
    /\ concession = [p \in Pupil |-> NoConcession]
    /\ invoice = [p \in Pupil |-> [t \in Period |-> NotBilled]]
    /\ demanded = [p \in Pupil |-> [t \in Period |-> 0]]
    /\ owing \in SUBSET Pupil
    /\ carried = [p \in Pupil |-> 0]
    /\ account = {}
    /\ cheque = [c \in Cheque |-> NoCheque]
    /\ slip = [d \in Slip |-> NoSlip]
    /\ desk = [w \in Clerk |-> NoDesk]
    /\ begun = 0 /\ crossed = {}

At(w, pc) == desk[w].pc = pc
DeskBecomes(w, d) == desk' = [desk EXCEPT ![w] = d]
Begins(w, d) == At(w, "idle") /\ begun < MaxDesk /\ begun' = begun + 1 /\ DeskBecomes(w, d)
Done(w) == DeskBecomes(w, NoDesk) /\ UNCHANGED begun

-----------------------------------------------------------------------------
(* Concessions and the invoices of a class *)

AskConcession(p, head, off) ==
    /\ concession[p] = NoConcession /\ begun < MaxDesk /\ begun' = begun + 1
    /\ concession' = [concession EXCEPT ![p] = [status |-> "PENDING", head |-> head, off |-> off]]
    /\ UNCHANGED <<enrolled, invoice, demanded, owing, carried, account, banking, desk>>

ApproveConcession(p) ==
    /\ concession[p].status = "PENDING"
    /\ concession' = [concession EXCEPT ![p].status = "APPROVED"]
    /\ UNCHANGED <<enrolled, invoice, demanded, owing, carried, account, banking, desk, begun>>

EnrolPupil(p) ==
    /\ enrolled' = IF p \in enrolled THEN enrolled \ {p} ELSE enrolled \cup {p}
    /\ begun < MaxDesk /\ begun' = begun + 1
    /\ UNCHANGED <<concession, invoice, demanded, owing, carried, account, banking, desk>>

\* A flat concession for all heads comes off every line, never below nothing.
LineTotal(c, head) ==
    IF c.status = "APPROVED" /\ c.head \in {"all", head}
    THEN Price[head] - Min({c.off, Price[head]}) ELSE Price[head]
TotalFor(c) == SumFunction([head \in Head |-> LineTotal(c, head)])

\* generate-invoices: the enrolments, then the concessions of those it found.
StartGeneration(w, t) ==
    /\ Begins(w, [pc |-> "concessions", job |-> "generate", todo |-> enrolled,
                  pupils |-> enrolled, period |-> t, skipped |-> {}, failed |-> {}])
    /\ UNCHANGED <<billing, banking>>

ReadConcessions(w) ==
    /\ At(w, "concessions")
    /\ DeskBecomes(w, [pc |-> "bill", job |-> "generate", todo |-> desk[w].todo,
                   pupils |-> desk[w].pupils, period |-> desk[w].period,
                   granted |-> concession, skipped |-> {}, failed |-> {}])
    /\ UNCHANGED <<billing, banking, begun>>

\* The number of an invoice, unique in the branch, is made of the structure, the
\* end of the pupil's id and the period: pupils of one tail compete for it.
NumberFree(p, t) == \A q \in Pupil : Tail[q] = Tail[p] => invoice[q][t] = NotBilled

\* postDemand, for who has anything to pay. It throws when the number exists, and
\* may throw for another reason; the loop then notes the pupil as skipped and goes
\* on. `failed` is who was skipped for another reason.
BillPupil(w, p) ==
    LET t == desk[w].period
        total == TotalFor(desk[w].granted[p])
        Goes(sk, fl) == DeskBecomes(w, [desk[w] EXCEPT !.todo = @ \ {p},
                                        !.skipped = @ \cup sk, !.failed = @ \cup fl])
    IN  /\ At(w, "bill") /\ desk[w].job = "generate" /\ p \in desk[w].todo
        /\ \/ /\ total > 0 /\ NumberFree(p, t)
              /\ invoice' = [invoice EXCEPT ![p][t] = total]
              /\ demanded' = [demanded EXCEPT ![p][t] = @ + 1]
              /\ Goes({}, {})
           \/ /\ total = 0 \/ ~NumberFree(p, t)
              /\ Goes({p}, {})
              /\ UNCHANGED <<invoice, demanded>>
           \/ /\ total > 0
              /\ Goes({p}, {p})
              /\ UNCHANGED <<invoice, demanded>>
        /\ UNCHANGED <<enrolled, concession, owing, carried, account, banking, begun>>

\* carry-forward: each pupil's closing balance is demanded in the new year; the old
\* year keeps it too.
StartCarrying(w) ==
    /\ Begins(w, [pc |-> "bill", job |-> "carry", todo |-> Pupil])
    /\ UNCHANGED <<billing, banking>>

CarryDues(w, p) ==
    /\ At(w, "bill") /\ desk[w].job = "carry" /\ p \in desk[w].todo
    /\ carried' = [carried EXCEPT ![p] = IF p \in owing THEN @ + 1 ELSE @]
    /\ DeskBecomes(w, [desk[w] EXCEPT !.todo = @ \ {p}])
    /\ UNCHANGED <<enrolled, concession, invoice, demanded, owing, account, banking, begun>>

EnsureVirtualAccount(p) ==
    /\ p \notin account /\ begun < MaxDesk /\ begun' = begun + 1
    /\ account' = account \cup {p}
    /\ UNCHANGED <<enrolled, concession, invoice, demanded, owing, carried, banking, desk>>

-----------------------------------------------------------------------------
(* Cheques *)

\* The cheques a request has read and will write.
Touches(d) == IF d.pc = "write" THEN d.cheques ELSE {}
Crossing(w, cs) == crossed \cup (cs \cap UNION {Touches(desk[v]) : v \in Clerk \ {w}})

\* The payment is posted by a connection of its own: should the cheque's row fail,
\* it stays.
ReceiveCheque(c) ==
    /\ cheque[c] = NoCheque /\ begun < MaxDesk /\ begun' = begun + 1
    /\ \E status \in {"RECEIVED", "none"} :
         cheque' = [cheque EXCEPT ![c].status = status, ![c].payment = "SUCCESS"]
    /\ UNCHANGED <<billing, slip, desk, crossed>>

\* What each request refuses, by what it reads.
Accepts(job, c) ==
    CASE job = "deposit" -> cheque[c].status = "RECEIVED"
      [] job = "credit" -> cheque[c].status = "DEPOSITED"
      [] job = "bounce" -> /\ cheque[c].status \in {"RECEIVED", "DEPOSITED", "CREDITED"}
                           /\ cheque[c].payment = "SUCCESS"

ReadOneCheque(w, job, c) ==
    /\ Accepts(job, c)
    /\ Begins(w, [pc |-> "write", job |-> job, cheques |-> {c}])
    /\ crossed' = Crossing(w, {c})
    /\ UNCHANGED <<billing, cheque, slip>>

\* A deposit may name a slip, whatever became of that; a bounce also disputes the
\* payment and books a penalty.
Written(job, c) ==
    CASE job = "deposit" -> {[cheque[c] EXCEPT !.status = "DEPOSITED", !.slip = d] :
                                d \in {"none"} \cup {d \in Slip : slip[d] # NoSlip}}
      [] job = "credit" -> {[cheque[c] EXCEPT !.status = "CREDITED"]}
      [] job = "bounce" -> {[cheque[c] EXCEPT !.status = "BOUNCED", !.payment = "DISPUTED",
                                              !.penalties = @ + 1]}

WriteCheque(w) ==
    /\ At(w, "write") /\ desk[w].job \in {"deposit", "credit", "bounce"}
    /\ \E c \in desk[w].cheques : \E row \in Written(desk[w].job, c) :
         cheque' = [cheque EXCEPT ![c] = row]
    /\ Done(w)
    /\ UNCHANGED <<billing, slip, crossed>>

\* Mutation of ForDeposit: the slip takes every cheque asked for.
ForDepositAll(asked) == {c \in asked : cheque[c].status # "none"}

ForDeposit(asked) == {c \in asked : cheque[c].status = "RECEIVED"}

\* A slip: the cheques asked for that are still RECEIVED are bundled and DEPOSITED.
ReadForSlip(w, d, asked) ==
    /\ slip[d] = NoSlip
    /\ \A v \in Clerk : At(v, "write") /\ desk[v].job = "slip" => desk[v].slip # d
    /\ Begins(w, [pc |-> "write", job |-> "slip", slip |-> d, cheques |-> ForDeposit(asked)])
    /\ crossed' = Crossing(w, ForDeposit(asked))
    /\ UNCHANGED <<billing, cheque, slip>>

WriteSlip(w) ==
    /\ At(w, "write") /\ desk[w].job = "slip"
    /\ slip' = [slip EXCEPT ![desk[w].slip] = [status |-> "PREPARED",
                                               counted |-> desk[w].cheques]]
    /\ cheque' = [c \in Cheque |->
         IF c \in desk[w].cheques
         THEN [cheque[c] EXCEPT !.status = "DEPOSITED", !.slip = desk[w].slip] ELSE cheque[c]]
    /\ Done(w)
    /\ UNCHANGED <<billing, crossed>>

\* The bank confirms a slip: those of its cheques read as DEPOSITED are CREDITED.
ReadSlip(w, d) ==
    /\ slip[d].status = "PREPARED"
    /\ LET cs == {c \in Cheque : cheque[c].slip = d /\ cheque[c].status = "DEPOSITED"}
       IN  /\ Begins(w, [pc |-> "write", job |-> "confirm", slip |-> d, cheques |-> cs])
           /\ crossed' = Crossing(w, cs)
    /\ UNCHANGED <<billing, cheque, slip>>

ConfirmSlip(w) ==
    /\ At(w, "write") /\ desk[w].job = "confirm"
    /\ slip' = [slip EXCEPT ![desk[w].slip].status = "CREDITED"]
    /\ cheque' = [c \in Cheque |-> IF c \in desk[w].cheques
                                   THEN [cheque[c] EXCEPT !.status = "CREDITED"] ELSE cheque[c]]
    /\ Done(w)
    /\ UNCHANGED <<billing, crossed>>

\* The process dies or a statement throws between the read and the write, or
\* between two pupils.
DropRequest(w) ==
    /\ ~At(w, "idle") /\ Done(w)
    /\ UNCHANGED <<billing, banking>>

FinishJob(w) ==
    /\ At(w, "bill") /\ desk[w].todo = {} /\ Done(w)
    /\ UNCHANGED <<billing, banking>>

ClassBilling(w) ==
    \/ \E t \in Period : StartGeneration(w, t)
    \/ ReadConcessions(w) \/ StartCarrying(w) \/ FinishJob(w)
    \/ \E p \in Pupil : BillPupil(w, p) \/ CarryDues(w, p)
ChequeDesk(w) ==
    \/ \E c \in Cheque, job \in {"deposit", "credit", "bounce"} : ReadOneCheque(w, job, c)
    \/ \E d \in Slip : ReadSlip(w, d) \/ \E asked \in SUBSET Cheque : ReadForSlip(w, d, asked)
    \/ WriteCheque(w) \/ WriteSlip(w) \/ ConfirmSlip(w)

\* Bills and cheques share no table.
BillDesk ==
    \/ \E w \in Clerk : ClassBilling(w)
    \/ \E p \in Pupil : \/ ApproveConcession(p) \/ EnrolPupil(p) \/ EnsureVirtualAccount(p)
                        \/ \E head \in Head \cup {"all"}, off \in Off : AskConcession(p, head, off)
BankDesk == (\E w \in Clerk : ChequeDesk(w)) \/ \E c \in Cheque : ReceiveCheque(c)

DeskNext == BillDesk \/ BankDesk \/ \E w \in Clerk : DropRequest(w)

DeskSpec == DeskInit /\ [][DeskNext]_deskVars

-----------------------------------------------------------------------------
(* Properties *)

\* However runs for a period overlap, die, fail and are repeated, a pupil is billed
\* for it once, of the pupils who share a number one at most is, and a run that has
\* got past a pupil either left a bill or reports the pupil as skipped: because
\* nothing was to pay, because the number is taken, or for an error (index.ts:444-
\* 446, 515-532).
BilledOnce ==
    /\ \A p \in Pupil, t \in Period : demanded[p][t] = IF invoice[p][t] = NotBilled THEN 0 ELSE 1
    /\ \A p, q \in Pupil, t \in Period :
         /\ p # q /\ Tail[p] = Tail[q] /\ invoice[p][t] # NotBilled
         => invoice[q][t] = NotBilled
    /\ \A w \in Clerk : At(w, "bill") /\ desk[w].job = "generate" =>
         \A p \in desk[w].pupils \ desk[w].todo :
            /\ p \notin desk[w].skipped => invoice[p][desk[w].period] # NotBilled
            /\ p \in desk[w].skipped \ desk[w].failed =>
                  TotalFor(desk[w].granted[p]) = 0 \/ ~NumberFree(p, desk[w].period)

\* A cheque's payment is disputed exactly when it was penalised, and a bounced
\* cheque's is, whoever else was at work on it. Where no two requests were, the
\* cheque has bounced exactly then, is penalised once, and is counted on one slip
\* (payment-methods.ts:155-181, 269-345).
ChequesAgree ==
    /\ \A c \in Cheque :
        /\ cheque[c].payment = "DISPUTED" <=> cheque[c].penalties > 0
        /\ cheque[c].status = "BOUNCED" => cheque[c].payment = "DISPUTED"
    /\ \A c \in Cheque \ crossed :
        /\ cheque[c].payment = "DISPUTED" => cheque[c].status = "BOUNCED"
        /\ cheque[c].penalties <= 1
        /\ \A d, e \in Slip : c \in slip[d].counted \cap slip[e].counted => d = e

DeskAgrees == BilledOnce /\ ChequesAgree
=============================================================================
