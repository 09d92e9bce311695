------------------------------- MODULE Pupils -------------------------------
(***************************************************************************)
(* The files of pupils in the student-service: admission at the desk, in   *)
(* one READ COMMITTED transaction, edits, photos, and what data protection *)
(* asks for: consent and erasure, whose statements and audit lines are     *)
(* each on their own.                                                      *)
(*                                                                         *)
(* All pupils share a name and a class, so that numbers, roll numbers and  *)
(* login addresses may meet. The guardian and the fields of a file are     *)
(* left out; its contact, photo and papers stand for what an erasure takes *)
(* away.                                                                   *)
(***************************************************************************)
EXTENDS Naturals, FiniteSets, FiniteSetsExt

CONSTANTS
    Child,       \* pupils to be admitted
    Desk,        \* requests under way
    Seated,      \* how many the class may have to begin with
    MaxAsked     \* bound: requests started

VARIABLES
    file,        \* the row of each pupil: number, roll, login, what can be erased
    counter,     \* the ADMISSION sequence as committed, 0 while it has no row
    holder,      \* the request that has its row locked, or has inserted it
    seats,       \* roll numbers given to the class before
    consent,     \* ConsentRecord.status of each pupil and the newest audit line
    erasure,     \* ErasureRequest.status of each pupil
    desk,        \* each request
    asked,
    blurred,     \* history: records that requests crossed on or left half way
    refused      \* history: minted numbers a unique index refused

pupilVars == <<file, counter, holder, seats, consent, erasure, desk, asked, blurred, refused>>
records == <<consent, erasure>>
sequence == <<counter, holder, seats, refused>>

Nobody == "nobody"
Resting == [at |-> "idle", kind |-> "none", p |-> Nobody, own |-> 0, no |-> 0, roll |-> 0,
            login |-> 0, line |-> "none", action |-> "none"]
NoFile == [row |-> "none", no |-> 0, minted |-> FALSE, roll |-> 0, login |-> 0,
           contact |-> "none", photo |-> "none", papers |-> "none"]

ASSUME PupilsAssumption ==
    IsFiniteSet(Child) /\ Seated \subseteq Nat /\ MaxAsked \in Nat /\ Nobody \notin Desk

PupilInit ==
    /\ file = [p \in Child |-> NoFile]
    /\ counter = 0
    /\ holder = Nobody
    /\ seats \in {1 .. n : n \in Seated}
    /\ consent = [p \in Child |-> [status |-> "none", line |-> "none"]]
    /\ erasure = [p \in Child |-> "none"]
    /\ desk = [d \in Desk |-> Resting]
    /\ asked = 0
    /\ blurred = {}
    /\ refused = {}

Admitted == {p \in Child : file[p].row # "none"}
Stage(d, pc) == desk[d].at = pc
Subject(d) == desk[d].p
Engaged(kind, p) == \E d \in Desk : ~Stage(d, "idle") /\ desk[d].kind = kind /\ desk[d].p = p

Errand(pc, kind, p) == [Resting EXCEPT !.at = pc, !.kind = kind, !.p = p]

\* A request on a record of a pupil; another one at work there has crossed it.
Asks(d, errand) ==
    /\ Stage(d, "idle")
    /\ asked < MaxAsked                                          \* bound
    /\ asked' = asked + 1
    /\ desk' = [desk EXCEPT ![d] = errand]
    /\ blurred' = IF Engaged(errand.kind, errand.p)
                  THEN blurred \cup {<<errand.kind, errand.p>>} ELSE blurred

Turns(d, pc) == desk' = [desk EXCEPT ![d].at = pc] /\ UNCHANGED <<asked, blurred>>
Rests(d) == desk' = [desk EXCEPT ![d] = Resting] /\ UNCHANGED <<asked, blurred>>

----------------------------------------------------------------------------
(* Admission at the desk *)

Numbers == {file[p].no : p \in Admitted}
Logins == {file[p].login : p \in Admitted}
Rolls == seats \cup {file[p].roll : p \in Admitted}

\* rollNo is text: 9 comes after 10. (Up to 99.)
First(n) == IF n < 10 THEN n ELSE n \div 10
Second(n) == IF n < 10 THEN 0 ELSE 1 + (n % 10)
LastInText(S) ==
    CHOOSE n \in S : \A m \in S \ {n} :
        \/ First(m) < First(n)
        \/ First(m) = First(n) /\ Second(m) < Second(n)
RollAfter(S) == IF S = {} THEN 1 ELSE LastInText(S) + 1

\* POST /students: `own` is the number the client brings, 0 to have one minted.
StartAdmission(d, p, own) ==
    /\ Asks(d, [Errand("number", "admission", p) EXCEPT !.own = own])
    /\ file[p].row = "none" /\ ~Engaged("admission", p)
    /\ UNCHANGED <<file, sequence, records>>

\* Mutation of MintNumber: the roll number is worked out before the lock is had.
MintNumberLate(d) ==
    \/ /\ Stage(d, "number")
       /\ desk' = [desk EXCEPT ![d].at = "late number", ![d].roll = RollAfter(Rolls)]
       /\ UNCHANGED <<file, sequence, records, asked, blurred>>
    \/ /\ Stage(d, "late number")
       /\ holder = Nobody
       /\ holder' = d
       /\ desk' = [desk EXCEPT ![d].at = "login", ![d].no = counter + 1]
       /\ UNCHANGED <<file, counter, seats, refused, records, asked, blurred>>

HoldsNumber(d) ==
    /\ holder = Nobody /\ holder' = d
    /\ desk' = [desk EXCEPT ![d].at = "roll", ![d].no = counter + 1]
    /\ UNCHANGED <<file, counter, seats, refused, records, asked, blurred>>

\* nextSequenceValueIn: the row of the sequence stays locked until the commit.
MintNumber(d) ==
    /\ Stage(d, "number") /\ desk[d].own = 0
    /\ counter > 0
    /\ HoldsNumber(d)

\* There is no row to lock before the first number of a branch...
NoSequence(d) ==
    /\ Stage(d, "number") /\ desk[d].own = 0
    /\ counter = 0
    /\ desk' = [desk EXCEPT ![d].at = "create"]
    /\ UNCHANGED <<file, sequence, records, asked, blurred>>

\* ...so everybody who found none inserts it. The unique index has them wait for
\* the first one's commit, and then the transaction fails.
CreateSequence(d) ==
    /\ Stage(d, "create")
    /\ \/ counter = 0 /\ HoldsNumber(d)
       \/ counter > 0 /\ Rests(d) /\ UNCHANGED <<file, sequence, records>>

BringNumber(d) ==
    /\ Stage(d, "number") /\ desk[d].own > 0
    /\ desk' = [desk EXCEPT ![d].at = "roll", ![d].no = desk[d].own]
    /\ UNCHANGED <<file, sequence, records, asked, blurred>>

NextRoll(d) ==
    /\ Stage(d, "roll")
    /\ desk' = [desk EXCEPT ![d].at = "login", ![d].roll = RollAfter(Rolls)]
    /\ UNCHANGED <<file, sequence, records, asked, blurred>>

\* mintStudentEmail: the first suffix nobody has.
MintLogin(d) ==
    /\ Stage(d, "login")
    /\ desk' = [desk EXCEPT ![d].at = "commit",
                             ![d].login = Min((1 .. Cardinality(Logins) + 1) \ Logins)]
    /\ UNCHANGED <<file, sequence, records, asked, blurred>>

Unlocked(d) == IF holder = d THEN Nobody ELSE holder

\* The unique indexes speak last; a refused transaction gives its number back.
CommitAdmission(d) ==
    LET r == desk[d]
        free == r.no \notin Numbers /\ r.login \notin Logins
    IN  /\ Stage(d, "commit")
        /\ IF free
           THEN /\ file' = [file EXCEPT ![r.p] =
                       [row |-> "live", no |-> r.no, minted |-> holder = d, roll |-> r.roll,
                        login |-> r.login, contact |-> "given", photo |-> "given",
                        papers |-> "given"]]
                /\ counter' = IF holder = d THEN r.no ELSE counter
                /\ UNCHANGED refused
           ELSE /\ refused' = IF holder = d THEN refused \cup {r.no} ELSE refused
                /\ UNCHANGED <<file, counter>>
        /\ holder' = Unlocked(d)
        /\ Rests(d)
        /\ UNCHANGED <<seats, records>>

----------------------------------------------------------------------------
(* Edits, photos, removal *)

Written(field) == IF field = "erased" THEN "again" ELSE field

\* PUT /students/:id, PUT /profile, PATCH /:id/govt-ids: one statement.
EditPupil(p) ==
    /\ asked < MaxAsked /\ asked' = asked + 1                    \* bound
    /\ file[p].row # "none"
    /\ file' = [file EXCEPT ![p].contact = Written(@)]
    /\ UNCHANGED <<sequence, records, desk, blurred>>

RemovePupil(p) ==
    /\ file[p].row = "live"
    /\ file' = [file EXCEPT ![p].row = "gone"]
    /\ UNCHANGED <<sequence, records, desk, asked, blurred>>

\* POST /teacher/students/:id/photo: the row is read, the file written...
StartPhoto(d, p) ==
    /\ Asks(d, Errand("photo", "photo", p))
    /\ file[p].row = "live"
    /\ UNCHANGED <<file, sequence, records>>

\* ...and the row moved to it.
MovePhoto(d) ==
    /\ Stage(d, "photo")
    /\ file' = [file EXCEPT ![Subject(d)].photo = Written(@)]
    /\ Rests(d)
    /\ UNCHANGED <<sequence, records>>

----------------------------------------------------------------------------
(* Consent *)

\* One upsert; the audit line follows.
GrantConsent(d, p) ==
    /\ Asks(d, [Errand("audit", "consent", p) EXCEPT !.line = "GRANTED"])
    /\ file[p].row # "none"
    /\ consent' = [consent EXCEPT ![p].status = "GRANTED"]
    /\ UNCHANGED <<file, sequence, erasure>>

CheckConsent(d, p) ==
    /\ Asks(d, [Errand("withdraw", "consent", p) EXCEPT !.line = "WITHDRAWN"])
    /\ consent[p].status = "GRANTED"
    /\ UNCHANGED <<file, sequence, records>>

WithdrawConsent(d) ==
    /\ Stage(d, "withdraw")
    /\ consent' = [consent EXCEPT ![Subject(d)].status = "WITHDRAWN"]
    /\ Turns(d, "audit")
    /\ UNCHANGED <<file, sequence, erasure>>

Audit(d) ==
    /\ Stage(d, "audit")
    /\ consent' = [consent EXCEPT ![Subject(d)].line = desk[d].line]
    /\ Rests(d)
    /\ UNCHANGED <<file, sequence, erasure>>

----------------------------------------------------------------------------
(* Erasure *)

FileErasure(p) ==
    /\ asked < MaxAsked /\ asked' = asked + 1                    \* bound
    /\ file[p].row # "none" /\ erasure[p] = "none"               \* bound: one request
    /\ erasure' = [erasure EXCEPT ![p] = "PENDING"]
    /\ UNCHANGED <<file, sequence, consent, desk, blurred>>

\* POST /erasure-requests/:id/process
CheckErasure(d, p, action) ==
    /\ Asks(d, [Errand(IF action = "COMPLETED" THEN "contact" ELSE "mark", "erasure", p)
                   EXCEPT !.action = action])
    /\ erasure[p] = "PENDING"
    /\ UNCHANGED <<file, sequence, records>>

EraseContact(d) ==
    /\ Stage(d, "contact")
    /\ file' = [file EXCEPT ![Subject(d)].contact = "erased", ![Subject(d)].photo = "erased"]
    /\ Turns(d, "papers")
    /\ UNCHANGED <<sequence, records>>

ErasePapers(d) ==
    /\ Stage(d, "papers")
    /\ file' = [file EXCEPT ![Subject(d)].papers = "erased"]
    /\ Turns(d, "mark")
    /\ UNCHANGED <<sequence, records>>

MarkErasure(d) ==
    /\ Stage(d, "mark")
    /\ erasure' = [erasure EXCEPT ![Subject(d)] = desk[d].action]
    /\ Rests(d)
    /\ UNCHANGED <<file, sequence, consent>>

----------------------------------------------------------------------------
\* The process stops, or a statement fails: a transaction leaves nothing
\* behind, and an audit line that cannot be written is let go.
GiveUp(d) ==
    /\ ~Stage(d, "idle")
    /\ holder' = Unlocked(d)
    /\ desk' = [desk EXCEPT ![d] = Resting]
    /\ blurred' = blurred \cup {<<desk[d].kind, desk[d].p>>}
    /\ UNCHANGED <<file, counter, seats, refused, records, asked>>

Admission(d) ==
    \/ \E p \in Child, own \in 0 .. 1 : StartAdmission(d, p, own)
    \/ MintNumber(d) \/ NoSequence(d) \/ CreateSequence(d) \/ BringNumber(d)
    \/ NextRoll(d) \/ MintLogin(d) \/ CommitAdmission(d)

Rights(d) ==
    \/ \E p \in Child : GrantConsent(d, p) \/ CheckConsent(d, p)
    \/ WithdrawConsent(d) \/ Audit(d)
    \/ \E p \in Child, action \in {"COMPLETED", "REJECTED"} : CheckErasure(d, p, action)
    \/ EraseContact(d) \/ ErasePapers(d) \/ MarkErasure(d)

PupilNext ==
    \/ \E d \in Desk : Admission(d) \/ Rights(d) \/ MovePhoto(d) \/ GiveUp(d)
    \/ \E d \in Desk, p \in Child : StartPhoto(d, p)
    \/ \E p \in Child : EditPupil(p) \/ RemovePupil(p) \/ FileErasure(p)

PupilSpec == PupilInit /\ [][PupilNext]_pupilVars

----------------------------------------------------------------------------
\* No request is at work on a record, none was cut short there, none crossed.
Clear(kind, p) == <<kind, p>> \notin blurred /\ ~Engaged(kind, p)

\* Pupils whose number was minted queue for the sequence, and so they never
\* share a roll number, as long as the class has no number of two digits; and
\* no minted number is refused unless somebody brought a number of their own.
\* (Of the requests for a branch's first number all but one fail before they
\* have one, although student.routes.ts:777-778 calls the minting race-safe.)
RollsDistinct ==
    /\ \A p, q \in {s \in Admitted : file[s].minted} :
           p # q /\ Max({0} \cup Rolls) < 10 => file[p].roll # file[q].roll
    /\ refused # {} => \E p \in Admitted : ~file[p].minted

\* "The trail is the proof": the newest line about a consent is its status.
TrailTellsConsent == \A p \in Child : Clear("consent", p) => consent[p].line = consent[p].status

\* What a completed request took away stays away, however far the handler
\* came, and a rejected one took nothing.
ErasureHolds ==
    \A p \in Child :
        /\ erasure[p] = "COMPLETED" =>
               "given" \notin {file[p].contact, file[p].photo, file[p].papers}
        /\ erasure[p] = "REJECTED" /\ <<"erasure", p>> \notin blurred =>
               "given" = file[p].contact /\ "given" = file[p].papers

PupilsAgree == RollsDistinct /\ TrailTellsConsent /\ ErasureHolds
=============================================================================
