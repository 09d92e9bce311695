------------------------------ MODULE Imports ------------------------------
(***************************************************************************)
(* The two importers of pupils: the one of the student-service ("node"),   *)
(* which writes statement by statement, and its streaming twin in the      *)
(* bulk-processor ("bulk"), a transaction for each row, which also pushes  *)
(* its progress to whoever uploaded the file. Files are uploaded again,    *)
(* beside each other, and after a process has died half way.               *)
(*                                                                         *)
(* A number has one spelling here. The node importer compares it as it is  *)
(* spelled, the other one in capitals, so in the code a file that spells   *)
(* it otherwise is known to the second and new to the first.               *)
(***************************************************************************)
EXTENDS Naturals, Sequences, FiniteSets

CONSTANTS
    Number,      \* admission numbers
    Job,         \* uploads
    MaxTouched   \* bound: pupils admitted or removed by hand

ASSUME ImportsAssumption == MaxTouched \in Nat

VARIABLES
    pupil,       \* of each number: row, enrolment in the current year
    stray,       \* logins of each number without a pupil
    job,         \* each upload
    told,        \* the last progress message about each upload
    made,        \* history: the numbers each upload has created
    touched      \* history: pupils changed by hand

importVars == <<pupil, stray, job, told, made, touched>>

Absent == [row |-> "none", enrolled |-> FALSE]
Live == [row |-> "live", enrolled |-> TRUE]
LastYears == [row |-> "live", enrolled |-> FALSE]
NoMessage == [done |-> 0, failed |-> 0, verdict |-> "none"]

ImportInit ==
    /\ pupil \in [Number -> {Absent, LastYears}]
    /\ stray = [no \in Number |-> 0]
    /\ job = [j \in Job |-> [at |-> "none"]]
    /\ told = [j \in Job |-> NoMessage]
    /\ made = [j \in Job |-> {}]
    /\ touched = {}

----------------------------------------------------------------------------
(* The file: a number and whether the row is well formed and its section exists *)

File == {<<[no |-> a, good |-> x], [no |-> b, good |-> TRUE]>> : a, b \in Number, x \in BOOLEAN}

\* validateStudentRows, validateRows: of the good rows with one number the first counts.
Valid(rows) ==
    {i \in DOMAIN rows :
        rows[i].good /\ \A k \in 1 .. i - 1 : rows[k].good => rows[k].no # rows[i].no}

Upload(j, kind, rows) ==
    /\ job[j].at = "none"
    /\ job' = [job EXCEPT ![j] =
                  [at |-> "row", kind |-> kind, rows |-> rows, i |-> 1, valid |-> Valid(rows),
                   failed |-> {}, created |-> 0, updated |-> 0, skipped |-> 0,
                   seen |-> Absent, hungUp |-> FALSE]]
    /\ UNCHANGED <<pupil, stray, told, made, touched>>

Current(j) == job[j].rows[job[j].i].no
JobAt(j, pc) == job[j].at = pc

Running(j) == job[j].at \in {"row", "write", "student"}

\* The client goes away: no transaction of the bulk importer commits any more.
HangUp(j) ==
    /\ Running(j)
    /\ job[j].kind = "bulk" /\ ~job[j].hungUp
    /\ job' = [job EXCEPT ![j].hungUp = TRUE]
    /\ UNCHANGED <<pupil, stray, told, made, touched>>

\* The process dies; what it has written stays.
Stop(j) ==
    /\ Running(j)
    /\ job' = [job EXCEPT ![j] = [at |-> "dead", kind |-> job[j].kind]]
    /\ stray' = IF JobAt(j, "student") THEN [stray EXCEPT ![Current(j)] = @ + 1] ELSE stray
    /\ UNCHANGED <<pupil, told, made, touched>>

----------------------------------------------------------------------------
(* Rows *)

\* sendEnvelope: throttled except for the last message, and the engine may be
\* away; `r` is the job with the row accounted for.
Message(r) ==
    LET failed == Len(r.rows) - Cardinality(r.valid) + Cardinality(r.failed)
        total == Len(r.rows)
    IN  [done |-> r.i, failed |-> failed,
         verdict |-> IF r.i < total THEN "running"
                     ELSE IF failed = total THEN "FAILED" ELSE "COMPLETED"]

Reported(j, r) ==
    \/ UNCHANGED told
    \/ r.kind = "bulk" /\ told' = [told EXCEPT ![j] = Message(r)]

\* The row is done: on to the next one, or the answer.
Advance(j, r) ==
    /\ Reported(j, r)
    /\ job' = [job EXCEPT ![j] =
                  IF r.i = Len(r.rows) THEN [r EXCEPT !.at = "answered", !.seen = Absent]
                  ELSE [r EXCEPT !.at = "row", !.i = @ + 1, !.seen = Absent]]

Fails(j) == Advance(j, [job[j] EXCEPT !.failed = @ \cup {job[j].i}])

SkipRow(j) ==
    /\ JobAt(j, "row")
    /\ job[j].i \notin job[j].valid
    /\ Advance(j, [job[j] EXCEPT !.skipped = @ + 1])
    /\ UNCHANGED <<pupil, stray, made, touched>>

\* Is there such a pupil? The bulk importer does not see a removed one.
ReadRow(j) ==
    LET there == pupil[Current(j)]
    IN  /\ JobAt(j, "row")
        /\ job[j].i \in job[j].valid
        /\ job' = [job EXCEPT ![j].at = "write",
                       ![j].seen = IF job[j].kind = "bulk" /\ there.row = "gone"
                                   THEN Absent ELSE there]
        /\ UNCHANGED <<pupil, stray, told, made, touched>>

Known(j) == job[j].seen.row # "none"

\* Mutation of EnrolKnown: the enrolment of a known pupil is not looked at.
EnrolKnownNever(no) == UNCHANGED pupil

\* "Enrollment repair for the current year."
EnrolKnown(no) == pupil' = [pupil EXCEPT ![no].enrolled = TRUE]

UpdateKnown(j) ==
    LET no == Current(j)
        \* Somebody enrolled the pupil since: the insert breaks the unique index.
        late == job[j].kind = "node" /\ ~job[j].seen.enrolled /\ pupil[no].enrolled
    IN  /\ JobAt(j, "write") /\ Known(j)
        /\ IF job[j].hungUp \/ late
           THEN Fails(j) /\ UNCHANGED pupil
           ELSE Advance(j, [job[j] EXCEPT !.updated = @ + 1]) /\ EnrolKnown(no)
        /\ UNCHANGED <<stray, made, touched>>

Create(j) ==
    LET no == Current(j)
    IN  IF job[j].hungUp \/ pupil[no].row # "none"
        THEN Fails(j) /\ UNCHANGED <<pupil, made>>
        ELSE /\ Advance(j, [job[j] EXCEPT !.created = @ + 1])
             /\ pupil' = [pupil EXCEPT ![no] = Live]
             /\ made' = [made EXCEPT ![j] = @ \cup {no}]

\* commitStudentRow: user, pupil, guardian and enrolment, or nothing.
CreateAll(j) ==
    /\ JobAt(j, "write") /\ ~Known(j) /\ job[j].kind = "bulk"
    /\ Create(j)
    /\ UNCHANGED <<stray, touched>>

\* The student-service creates the login in a statement of its own...
CreateLogin(j) ==
    /\ JobAt(j, "write") /\ ~Known(j) /\ job[j].kind = "node"
    /\ job' = [job EXCEPT ![j].at = "student"]
    /\ UNCHANGED <<pupil, stray, told, made, touched>>

\* ...and then the pupil; where that fails the login stays.
CreatePupil(j) ==
    /\ JobAt(j, "student")
    /\ Create(j)
    /\ stray' = IF pupil[Current(j)].row = "none" THEN stray
                ELSE [stray EXCEPT ![Current(j)] = @ + 1]
    /\ UNCHANGED touched

----------------------------------------------------------------------------
(* By hand: admission, removal, an enrolment taken back *)

ByHand(no) ==
    /\ Cardinality(touched) < MaxTouched                         \* bound
    /\ touched' = touched \cup {no}
    /\ \/ pupil[no].row = "none" /\ pupil' = [pupil EXCEPT ![no] = Live]
       \/ pupil[no].row = "live" /\ pupil' = [pupil EXCEPT ![no].row = "gone"]
       \/ pupil[no].row = "live" /\ pupil' = [pupil EXCEPT ![no].enrolled = FALSE]
    /\ UNCHANGED <<stray, job, told, made>>

ImportStep(j) ==
    \/ \E kind \in {"node", "bulk"}, rows \in File : Upload(j, kind, rows)
    \/ HangUp(j) \/ Stop(j)
    \/ SkipRow(j) \/ ReadRow(j)
    \/ UpdateKnown(j) \/ CreateAll(j) \/ CreateLogin(j) \/ CreatePupil(j)

ImportNext == (\E j \in Job : ImportStep(j)) \/ (\E no \in Number : ByHand(no))

ImportSpec == ImportInit /\ [][ImportNext]_importVars

----------------------------------------------------------------------------
Answered(j) == JobAt(j, "answered")

\* The counts of an answer are those of the rows, and of what was created.
CountsAddUp ==
    \A j \in Job : Answered(j) =>
        LET r == job[j]
        IN  /\ r.created + r.updated + r.skipped + Cardinality(r.failed) = Len(r.rows)
            /\ r.created = Cardinality(made[j])

\* A row that an answer does not report is a pupil, and enrolled unless
\* somebody has changed that pupil by hand.
ReportedOrEnrolled ==
    \A j \in Job : Answered(j) =>
        \A i \in job[j].valid \ job[j].failed :
            LET no == job[j].rows[i].no
            IN  pupil[no].row # "none" /\ (pupil[no].enrolled \/ no \in touched)

\* "re-running an import ... does not duplicate the others": no number is
\* created twice, and the bulk importer leaves no login without its pupil.
NoTwins ==
    \A no \in Number :
        /\ Cardinality({j \in Job : no \in made[j]}) <= 1
        /\ stray[no] > 0 => \E j \in Job : ~JobAt(j, "none") /\ job[j].kind = "node"

\* The last word about an upload, where it arrives, has the failures of the answer.
LastWord ==
    \A j \in Job : Answered(j) /\ told[j].verdict \in {"COMPLETED", "FAILED"} =>
        told[j].failed = Len(job[j].rows) - Cardinality(job[j].valid \ job[j].failed)

ImportIsTrue == CountsAddUp /\ ReportedOrEnrolled /\ NoTwins /\ LastWord
=============================================================================
