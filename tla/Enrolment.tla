------------------------------ MODULE Enrolment ------------------------------
(***************************************************************************)
(* The life of the pupils of one cohort: applications, admission, the      *)
(* yearly promotion with its reversal, transfer certificates, deletion.    *)
(*                                                                         *)
(* A request reads, checks, and then writes in one transaction; the two    *)
(* parts are two steps, the transaction does not read again, and the       *)
(* process may die before it. A pupil is named by the admission number,    *)
(* which is unique in the branch. There is one section, and year y of the  *)
(* cohort has the class of order y; admissions go to the current year, 1.  *)
(* Enquiries, guardians and accounts are created with the rows they belong *)
(* to and are not kept. An application neither APPROVED nor ADMITTED is    *)
(* OPEN: the code treats the submitted, the discussed and the REJECTED     *)
(* ones alike.                                                             *)
(***************************************************************************)
EXTENDS Naturals, FiniteSets, Sequences, FiniteSetsExt

CONSTANTS
    Clerk,       \* requests in flight
    Applicant,   \* applications
    Pupil,       \* admission numbers
    LastYear,    \* bound: academic years
    MaxBatches   \* bound: promotion batches

ASSUME EnrolmentAssumption ==
    /\ LastYear \in Nat \ {0} /\ MaxBatches \in Nat
    /\ IsFiniteSet(Pupil) /\ "direct" \notin Applicant

Year == 1 .. LastYear
BatchId == 1 .. MaxBatches
NoBatch == 0
NoRow == [status |-> "NONE", open |-> FALSE, roll |-> 0, batch |-> NoBatch]
NoPupil == [there |-> FALSE, active |-> FALSE, from |-> "direct"]
NoRequest == [pc |-> "idle"]

VARIABLES
    application,  \* status of each AdmissionApplication
    pupil,        \* Student rows: there at all, isActive, where from
    row,          \* StudentEnrollment of a pupil in a year
    tcs,          \* TransferCertificates of each pupil
    batches,      \* PromotionBatch rows, with the rows before and after each
    clerk,        \* what each request is doing
    raced,        \* two requests that write enrolments overlapped
    redecided,    \* two requests on one application overlapped
    tangled       \* a batch was reversed whose rows had changed since

enrolmentVars == <<application, pupil, row, tcs, batches, clerk, raced, redecided, tangled>>
ghosts == <<raced, redecided, tangled>>

EnrolmentInit ==
    /\ application = [a \in Applicant |-> "NONE"]
    /\ pupil = [s \in Pupil |-> NoPupil]
    /\ row = [s \in Pupil |-> [y \in Year |-> NoRow]]
    /\ tcs = [s \in Pupil |-> 0]
    /\ batches = <<>>
    /\ clerk = [c \in Clerk |-> NoRequest]
    /\ raced = FALSE /\ redecided = FALSE /\ tangled = FALSE

At(c, pc) == clerk[c].pc = pc
Becomes(c, s) == clerk' = [clerk EXCEPT ![c] = s]
Enrolling == {c \in Clerk : clerk[c].pc \in {"promote", "certify"}}
Deciding == {c \in Clerk : clerk[c].pc \in {"decide", "admit"}}

-----------------------------------------------------------------------------
(* Applications and admission: admission.routes.ts, POST /students.         *)

Apply(a) ==
    /\ application[a] = "NONE"
    /\ application' = [application EXCEPT ![a] = "OPEN"]
    /\ UNCHANGED <<pupil, row, tcs, batches, clerk, ghosts>>

StartDecision(c, a, decision) ==
    /\ clerk[c] = NoRequest
    /\ application[a] \notin {"NONE", "ADMITTED"}
    /\ Becomes(c, [pc |-> "decide", of |-> a, as |-> decision])
    /\ redecided' = (redecided \/ Deciding # {})
    /\ UNCHANGED <<application, pupil, row, tcs, batches, raced, tangled>>

Decide(c) ==
    /\ At(c, "decide")
    /\ application' = [application EXCEPT ![clerk[c].of] = clerk[c].as]
    /\ Becomes(c, NoRequest)
    /\ UNCHANGED <<pupil, row, tcs, batches, ghosts>>

\* Mutant: an application is admitted whatever was decided about it.
AdmissibleAlways(a) == application[a] # "NONE"

\* APPROVED, and without an admittedStudentId.
Admissible(a) ==
    /\ application[a] = "APPROVED"
    /\ ~\E s \in Pupil : pupil[s].there /\ pupil[s].from = a

StartAdmit(c, a) ==
    /\ clerk[c] = NoRequest /\ Admissible(a)
    /\ Becomes(c, [pc |-> "admit", of |-> a])
    /\ redecided' = (redecided \/ Deciding # {})
    /\ UNCHANGED <<application, pupil, row, tcs, batches, raced, tangled>>

Rolls(y) == {row[s][y].roll : s \in Pupil}

Enrolled(s, from) ==
    /\ pupil' = [pupil EXCEPT ![s] = [there |-> TRUE, active |-> TRUE, from |-> from]]
    /\ row' = [row EXCEPT ![s][1] = [status |-> "ENROLLED", open |-> TRUE,
                                     roll |-> Max(Rolls(1)) + 1, batch |-> NoBatch]]

\* The unique index refuses an admission number the branch has already; the
\* application is not looked at again.
Admit(c, s) ==
    LET a == clerk[c].of
    IN  /\ At(c, "admit")
        /\ Becomes(c, NoRequest)
        /\ IF pupil[s].there
           THEN UNCHANGED <<application, pupil, row>>
           ELSE Enrolled(s, a) /\ application' = [application EXCEPT ![a] = "ADMITTED"]
        /\ UNCHANGED <<tcs, batches, ghosts>>

CreateStudent(s) ==
    /\ ~pupil[s].there
    /\ Enrolled(s, "direct")
    /\ UNCHANGED <<application, tcs, batches, clerk, ghosts>>

\* A soft delete: the enrolment stays as it is.
DeleteStudent(s) ==
    /\ pupil[s].there
    /\ pupil' = [pupil EXCEPT ![s].active = FALSE]
    /\ UNCHANGED <<application, row, tcs, batches, clerk, ghosts>>

-----------------------------------------------------------------------------
(* Promotion: previewPromotion, executePromotion, reversePromotion.         *)

Promotable(y) == {s \in Pupil : row[s][y].status = "ENROLLED" /\ pupil[s].active}

\* The preview numbers every pupil from the rows that are there already. There
\* may be no next class: the pupils then only leave their old one.
Preview(c, y, detained, hasNext) ==
    /\ clerk[c] = NoRequest /\ y < LastYear
    /\ Len(batches) + Cardinality({d \in Clerk : At(d, "promote")}) < MaxBatches
    /\ detained \subseteq Promotable(y)
    /\ Becomes(c, [pc |-> "promote", year |-> y, detained |-> detained,
                   opened |-> IF hasNext THEN Promotable(y) \ detained ELSE {},
                   items |-> Promotable(y), roll |-> Max(Rolls(y + 1)) + 1])
    /\ raced' = (raced \/ Enrolling # {})
    /\ UNCHANGED <<application, pupil, row, tcs, batches, redecided, tangled>>

\* An enrolment closed by the batch, and the one it opens for the next year.
Closed(e, b, detained) ==
    [e EXCEPT !.status = IF detained THEN "DETAINED" ELSE "PROMOTED",
              !.open = FALSE, !.batch = b]
Opened(b, roll) == [status |-> "ENROLLED", open |-> TRUE, roll |-> roll, batch |-> b]

\* All or nothing: an old row that has gone, or a pupil who has a row in the
\* next year, makes the transaction fail.
Execute(c) ==
    LET p == clerk[c]
        b == Len(batches) + 1
        fails == \/ \E s \in p.items : row[s][p.year] = NoRow
                 \/ \E s \in p.opened : row[s][p.year + 1] # NoRow
        promoted == [s \in Pupil |-> [y \in Year |->
                        IF s \in p.items /\ y = p.year
                        THEN Closed(row[s][y], b, s \in p.detained)
                        ELSE IF s \in p.opened /\ y = p.year + 1
                             THEN Opened(b, p.roll) ELSE row[s][y]]]
    IN  /\ At(c, "promote")
        /\ Becomes(c, NoRequest)
        /\ IF fails
           THEN UNCHANGED <<row, batches>>
           ELSE /\ row' = promoted
                /\ batches' = Append(batches, [from |-> p.year, status |-> "EXECUTED",
                      items |-> p.items, before |-> row, after |-> promoted])
        /\ UNCHANGED <<application, pupil, tcs, ghosts>>

\* Mutant: the new rows are found by their tag alone, which the old rows share.
RemovedByTag(b, s, y) == row[s][y].batch = b

Removed(b, s, y) == row[s][y].batch = b /\ y = batches[b].from + 1

Restored(e) == [e EXCEPT !.status = "ENROLLED", !.open = TRUE]

\* The rows of the batch's pupils are those it left.
Untouched(b) == \A s \in batches[b].items : row[s] = batches[b].after[s]

ReversePromotion(b) ==
    /\ batches[b].status = "EXECUTED"
    /\ row' = [s \in Pupil |-> [y \in Year |->
          IF Removed(b, s, y) THEN NoRow
          ELSE IF row[s][y].batch = b /\ y = batches[b].from
               THEN Restored(row[s][y]) ELSE row[s][y]]]
    /\ batches' = [batches EXCEPT ![b].status = "REVERSED"]
    /\ tangled' = (tangled \/ ~Untouched(b))
    /\ raced' = (raced \/ Enrolling # {})
    /\ UNCHANGED <<application, pupil, tcs, clerk, redecided>>

-----------------------------------------------------------------------------
(* Transfer certificates: POST /tcs/:studentId.                             *)

StartTc(c, s, y) ==
    /\ clerk[c] = NoRequest /\ row[s][y].open
    /\ Becomes(c, [pc |-> "certify", of |-> s, year |-> y])
    /\ raced' = (raced \/ Enrolling # {})
    /\ UNCHANGED <<application, pupil, row, tcs, batches, redecided, tangled>>

Transferred(e) == [e EXCEPT !.status = "TC_ISSUED", !.open = FALSE]

IssueTc(c) ==
    LET s == clerk[c].of
        y == clerk[c].year
    IN  /\ At(c, "certify")
        /\ Becomes(c, NoRequest)
        /\ IF row[s][y] = NoRow
           THEN UNCHANGED <<pupil, row, tcs>>
           ELSE /\ tcs' = [tcs EXCEPT ![s] = @ + 1]
                /\ row' = [row EXCEPT ![s][y] = Transferred(@)]
                /\ pupil' = [pupil EXCEPT ![s].active = FALSE]
        /\ UNCHANGED <<application, batches, ghosts>>

\* A request dies before its transaction.
Crash(c) ==
    /\ clerk[c] # NoRequest
    /\ Becomes(c, NoRequest)
    /\ UNCHANGED <<application, pupil, row, tcs, batches, ghosts>>

Admissions(c) ==
    \/ \E a \in Applicant : \/ StartAdmit(c, a)
                            \/ \E d \in {"OPEN", "APPROVED"} : StartDecision(c, a, d)
    \/ Decide(c)
    \/ \E s \in Pupil : Admit(c, s)
Promotion(c) ==
    \/ \E y \in Year, detained \in SUBSET Pupil, hasNext \in BOOLEAN :
          Preview(c, y, detained, hasNext)
    \/ Execute(c)
Certificates(c) == (\E s \in Pupil, y \in Year : StartTc(c, s, y)) \/ IssueTc(c)

EnrolmentNext ==
    \/ \E c \in Clerk : Admissions(c) \/ Promotion(c) \/ Certificates(c) \/ Crash(c)
    \/ \E a \in Applicant : Apply(a)
    \/ \E s \in Pupil : CreateStudent(s) \/ DeleteStudent(s)
    \/ \E b \in 1 .. Len(batches) : ReversePromotion(b)

EnrolmentSpec == EnrolmentInit /\ [][EnrolmentNext]_enrolmentVars

-----------------------------------------------------------------------------
(* Properties.                                                              *)

\* Unless two requests on it overlapped, an application has one pupil when it
\* is ADMITTED and none otherwise, whatever died (admission.routes.ts:230-309).
\* A row has no toDate exactly while it is ENROLLED; and a pupil has at most one
\* live enrolment over all the years, and none after a transfer certificate,
\* unless two writers of enrolments overlapped or a batch was reversed after its
\* rows had moved on (enrollments.ts:4-7).
EnrolledOnce ==
    /\ ~redecided => \A a \in Applicant :
          Cardinality({s \in Pupil : pupil[s].there /\ pupil[s].from = a})
              = IF application[a] = "ADMITTED" THEN 1 ELSE 0
    /\ \A s \in Pupil, y \in Year : row[s][y].open = (row[s][y].status = "ENROLLED")
    /\ ~raced /\ ~tangled => \A s \in Pupil :
          Cardinality({y \in Year : row[s][y].status = "ENROLLED"})
              <= IF tcs[s] > 0 THEN 0 ELSE 1

\* What a reader of the row sees: everything but the tag of the batch.
Seen(rows) == [y \in Year |-> [rows[y] EXCEPT !.batch = NoBatch]]

Reverses(b) == batches[b].status # batches'[b].status
Restores(b) == \A s \in batches[b].items : Seen(row'[s]) = Seen(batches[b].before[s])

\* Reversing a batch whose rows nobody has touched since puts every pupil's
\* rows back as they were before the promotion, detained pupils included. (Two
\* promotions at once may each take the other's rows for the old ones.)
ReversalRestores ==
    [][\A b \in 1 .. Len(batches) :
          Reverses(b) /\ ~raced /\ Untouched(b) => Restores(b)]_enrolmentVars
=============================================================================
