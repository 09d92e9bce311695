-------------------------------- MODULE Exams --------------------------------
(***************************************************************************)
(* The marks of one paper and the publication of its examination.          *)
(*                                                                         *)
(* Five services know the same rows. The exam-service enters marks for a   *)
(* list of pupils in one transaction, and moves the examination from ENTRY *)
(* over SUBMITTED and VERIFIED to PUBLISHED; the bulk-processor imports a  *)
(* sheet, one transaction per pupil; the staff-service has a marks route   *)
(* of its own, and the academic-service one for missing results, which ask *)
(* nothing and log nothing; and the communication-service tells the        *)
(* guardians once the results are out.                                     *)
(*                                                                         *)
(* Nobody locks: the status is read before the transaction that relies on  *)
(* it, and the row before the write that replaces it. Marks are small      *)
(* numbers; grades, exemptions, remarks and who entered what are left out, *)
(* and so is all but the newest line of a row's audit trail.               *)
(***************************************************************************)
EXTENDS FiniteSets, Integers, Functions, TLC

CONSTANTS
    Clerk,     \* request handlers, of whichever service
    Pupil,
    Score      \* the marks a pupil can be given, at most maxMarks

ASSUME ExamsAssumption == Score \subseteq Nat

VARIABLES
    status,    \* Examination.status
    result,    \* the ExamResult row of each pupil
    trail,     \* afterMarks of the newest MarkEntryAudit row, NoMark without one
    notices,   \* times the guardians' notices were queued (counted up to 2)
    req,       \* what each handler is doing
    past,      \* statuses the examination has had
    unlogged,  \* pupils whose last change went past the trail
    late,      \* handlers that were writing marks when the results came out
    twoScans   \* have two scans for notices ever overlapped?

rows   == <<status, result, trail, notices>>
ghosts == <<past, unlogged, late, twoScans>>
vars   == <<rows, req, ghosts>>

Stages == <<"ENTRY", "SUBMITTED", "VERIFIED", "PUBLISHED">>
NextStage == [n \in 1 .. 3 |-> Stages[n + 1]]
After(stage) == {Stages[n + 1] : n \in {m \in 1 .. 3 : Stages[m] = stage}}

NoMark   == -1
NoResult == [marks |-> NoMark, absent |-> FALSE]
Present(v) == [marks |-> v, absent |-> FALSE]
Absent(v)  == [marks |-> v, absent |-> TRUE]

\* What a clerk types for a pupil: a mark, or that the pupil was absent.
Given == {Present(v) : v \in Score} \cup {Absent(NoMark)}

\* A cell of a sheet: a mark, or AB, which is stored as an absent pupil's 0. A
\* pupil with a blank cell is not on the sheet.
Cell == {Present(v) : v \in Score} \cup {Absent(0)}
Lists(S) == UNION {[P -> S] : P \in (SUBSET Pupil) \ {{}}}

Idle == [pc |-> "idle"]

Init ==
    /\ status = "ENTRY"
    /\ result = [s \in Pupil |-> NoResult]
    /\ trail = [s \in Pupil |-> NoMark]
    /\ notices = 0
    /\ req = [c \in Clerk |-> Idle]
    /\ past = {"ENTRY"}
    /\ unlogged = {} /\ late = {} /\ twoScans = FALSE

At(c, pc) == req[c].pc = pc
Becomes(c, r) == req' = [req EXCEPT ![c] = r]
Writing(c) == req[c].pc \in {"enter", "sheet", "row"}
Entered == {s \in Pupil : result[s] # NoResult}

-----------------------------------------------------------------------------
(* POST /marks of the exam-service.                                         *)

\* Mutant: nothing is frozen.
StartEntryAlways(c, given) ==
    /\ req[c] = Idle
    /\ Becomes(c, [pc |-> "enter", given |-> given, old |-> <<>>])
    /\ UNCHANGED <<rows, ghosts>>

\* The status is looked at before the transaction opens.
StartEntry(c, given) ==
    /\ req[c] = Idle
    /\ status # "PUBLISHED"
    /\ Becomes(c, [pc |-> "enter", given |-> given, old |-> <<>>])
    /\ UNCHANGED <<rows, ghosts>>

ReadResult(c, s) ==
    /\ At(c, "enter")
    /\ s \in DOMAIN req[c].given \ DOMAIN req[c].old
    /\ Becomes(c, [req[c] EXCEPT !.old = @ @@ (s :> result[s])])
    /\ UNCHANGED <<rows, ghosts>>

\* A mark left out keeps the mark that was read, and still counts as a change.
Changed(old, m) == old.marks # m.marks \/ old.absent # m.absent
Kept(old, m) == IF m.marks # NoMark THEN m.marks
                ELSE IF old.marks # NoMark THEN old.marks ELSE 0
Merged(old, m) == [m EXCEPT !.marks = Kept(old, m)]

\* Mutant: a change of a row that was there is not written to the trail.
CommitEntryUnlogged(c) ==
    LET r == req[c]
        new == {s \in DOMAIN r.given : r.old[s] = NoResult}
        changed == new \cup {s \in DOMAIN r.given : Changed(r.old[s], r.given[s])}
    IN  /\ At(c, "enter") /\ DOMAIN r.old = DOMAIN r.given
        /\ \A s \in new : result[s] = NoResult
        /\ result' = [s \in Pupil |->
               IF s \in changed THEN Merged(r.old[s], r.given[s]) ELSE result[s]]
        /\ trail' = [s \in Pupil |->
               IF s \in new THEN Kept(r.old[s], r.given[s]) ELSE trail[s]]
        /\ unlogged' = unlogged \ changed
        /\ Becomes(c, Idle) /\ late' = late \ {c}
        /\ UNCHANGED <<status, notices, past, twoScans>>

\* All pupils of the list, or none: a row that another request inserted
\* meanwhile violates the unique index, and the transaction fails (see Die).
CommitEntry(c) ==
    LET r == req[c]
        new == {s \in DOMAIN r.given : r.old[s] = NoResult}
        changed == new \cup {s \in DOMAIN r.given : Changed(r.old[s], r.given[s])}
    IN  /\ At(c, "enter") /\ DOMAIN r.old = DOMAIN r.given
        /\ \A s \in new : result[s] = NoResult
        /\ result' = [s \in Pupil |->
               IF s \in changed THEN Merged(r.old[s], r.given[s]) ELSE result[s]]
        /\ trail' = [s \in Pupil |->
               IF s \in changed THEN Kept(r.old[s], r.given[s]) ELSE trail[s]]
        /\ unlogged' = unlogged \ changed
        /\ Becomes(c, Idle) /\ late' = late \ {c}
        /\ UNCHANGED <<status, notices, past, twoScans>>

-----------------------------------------------------------------------------
(* POST /examinations/:id/status of the exam-service.                       *)

\* The stage is checked against the row that was read, and for PUBLISHED the
\* results are counted; the update that follows is unconditional.
StartAdvance(c, to) ==
    /\ req[c] = Idle
    /\ to \in After(status)
    /\ Becomes(c, [pc |-> IF to = "PUBLISHED" THEN "count" ELSE "advance", to |-> to])
    /\ UNCHANGED <<rows, ghosts>>

\* Mutant: the count is not looked at.
CountResultsOnly(c) ==
    /\ At(c, "count")
    /\ Becomes(c, [req[c] EXCEPT !.pc = "advance"])
    /\ UNCHANGED <<rows, ghosts>>

CountResults(c) ==
    /\ At(c, "count")
    /\ Becomes(c, IF Entered = {} THEN Idle ELSE [req[c] EXCEPT !.pc = "advance"])
    /\ UNCHANGED <<rows, ghosts>>

SaveStatus(c) ==
    /\ At(c, "advance")
    /\ status' = req[c].to
    /\ past' = past \cup {req[c].to}
    /\ late' = IF req[c].to = "PUBLISHED" /\ status # "PUBLISHED"
               THEN {d \in Clerk : Writing(d)} ELSE late
    /\ Becomes(c, Idle)
    /\ UNCHANGED <<result, trail, notices, unlogged, twoScans>>

-----------------------------------------------------------------------------
(* POST /marks/import of the bulk-processor.                                *)

\* VERIFIED is frozen here, though not in the exam-service.
StartImport(c, sheet) ==
    /\ req[c] = Idle
    /\ status \in {"ENTRY", "SUBMITTED"}
    /\ Becomes(c, [pc |-> "sheet", sheet |-> sheet])
    /\ UNCHANGED <<rows, ghosts>>

\* Each row of the sheet is a transaction of its own.
ReadRow(c, s) ==
    /\ At(c, "sheet") /\ s \in DOMAIN req[c].sheet
    /\ Becomes(c, [pc |-> "row", sheet |-> req[c].sheet, on |-> s, old |-> result[s]])
    /\ UNCHANGED <<rows, ghosts>>

\* A mark equal to the one that is stored is no change, even for an absentee.
Same(old, cell) == old.marks = cell.marks /\ (cell.absent => old.absent)

\* The rest of the sheet, without the row in hand.
NextRow(c) ==
    LET rest == Restrict(req[c].sheet, DOMAIN req[c].sheet \ {req[c].on})
        done == rest = <<>>
    IN  /\ Becomes(c, IF done THEN Idle ELSE [pc |-> "sheet", sheet |-> rest])
        /\ late' = IF done THEN late \ {c} ELSE late

\* The first mark of a pupil is inserted without a line in the trail.
InsertRow(c) ==
    LET s == req[c].on
        cell == req[c].sheet[s]
    IN  /\ At(c, "row") /\ req[c].old = NoResult /\ result[s] = NoResult
        /\ result' = [result EXCEPT ![s] = cell]
        /\ unlogged' = unlogged \cup {s}
        /\ NextRow(c)
        /\ UNCHANGED <<status, trail, notices, past, twoScans>>

UpdateRow(c) ==
    LET s == req[c].on
        cell == req[c].sheet[s]
    IN  /\ At(c, "row") /\ req[c].old # NoResult /\ ~Same(req[c].old, cell)
        /\ result' = [result EXCEPT ![s].marks = cell.marks, ![s].absent = cell.absent]
        /\ trail' = [trail EXCEPT ![s] = cell.marks]
        /\ unlogged' = unlogged \ {s}
        /\ NextRow(c)
        /\ UNCHANGED <<status, notices, past, twoScans>>

\* Nothing to change, or an error: the row is skipped and the import goes on.
SkipRow(c) ==
    /\ At(c, "row")
    /\ NextRow(c)
    /\ UNCHANGED <<rows, past, unlogged, twoScans>>

-----------------------------------------------------------------------------
(* The other services.                                                      *)

\* POST /teacher/marks: an upsert per pupil, at any stage of the examination.
TeacherMark(s, v) ==
    /\ result' = [result EXCEPT ![s].marks = v]
    /\ unlogged' = unlogged \cup {s}
    /\ UNCHANGED <<status, trail, notices, req, past, late, twoScans>>

\* POST /exam-results of the academic-service: rows that are missing, as blindly.
MissingMark(s, v) ==
    /\ result[s] = NoResult
    /\ result' = [result EXCEPT ![s] = Present(v)]
    /\ unlogged' = unlogged \cup {s}
    /\ UNCHANGED <<status, trail, notices, req, past, late, twoScans>>

Scanning(c) == req[c].pc \in {"look", "queue"}

\* notifyResultsPublished: status, then the tag of earlier notices, then rows.
StartNotify(c) ==
    /\ req[c] = Idle
    /\ status = "PUBLISHED"
    /\ Becomes(c, [pc |-> "look"])
    /\ twoScans' = (twoScans \/ \E d \in Clerk : Scanning(d))
    /\ UNCHANGED <<rows, past, unlogged, late>>

LookForNotices(c) ==
    /\ At(c, "look")
    /\ Becomes(c, IF notices = 0 THEN [pc |-> "queue"] ELSE Idle)
    /\ UNCHANGED <<rows, ghosts>>

QueueNotices(c) ==
    /\ At(c, "queue")
    /\ notices' = IF notices < 2 THEN notices + 1 ELSE notices
    /\ Becomes(c, Idle)
    /\ UNCHANGED <<status, result, trail, ghosts>>

\* A handler dies, or its transaction is rolled back.
Die(c) ==
    /\ req[c] # Idle
    /\ Becomes(c, Idle) /\ late' = late \ {c}
    /\ UNCHANGED <<rows, past, unlogged, twoScans>>

-----------------------------------------------------------------------------
EnterMarks(c) == \/ \E given \in Lists(Given) : StartEntry(c, given)
                 \/ \E s \in Pupil : ReadResult(c, s)
                 \/ CommitEntry(c)

Advance(c) == \/ \E n \in DOMAIN NextStage : StartAdvance(c, NextStage[n])
              \/ CountResults(c) \/ SaveStatus(c)

ImportMarks(c) == \/ \E sheet \in Lists(Cell) : StartImport(c, sheet)
                  \/ \E s \in Pupil : ReadRow(c, s)
                  \/ InsertRow(c) \/ UpdateRow(c) \/ SkipRow(c)

Notify(c) == StartNotify(c) \/ LookForNotices(c) \/ QueueNotices(c)

Next == \/ \E c \in Clerk : \/ EnterMarks(c) \/ Advance(c) \/ ImportMarks(c)
                           \/ Notify(c) \/ Die(c)
        \/ \E s \in Pupil, v \in Score : TeacherMark(s, v) \/ MissingMark(s, v)

Spec == Init /\ [][Next]_vars

-----------------------------------------------------------------------------
(* Properties.                                                              *)

\* "The classic scandal": results that parents see, or were told of, are never
\* an empty list and went through a submission and a verification, however the
\* decisions raced; and guardians are told once unless two scans overlapped.
PublishedAfterReview ==
    /\ status = "PUBLISHED" \/ notices > 0 =>
          Entered # {} /\ {"SUBMITTED", "VERIFIED"} \subseteq past
    /\ twoScans \/ notices <= 1

\* The audit trail ends at the mark on the row, whatever entries and imports
\* race or die, unless the last change was the staff-service's, the academic-
\* service's or the first mark of an import, none of which is logged. The
\* importer promises a row in the trail for every insert too (marks.go:16-17)
\* and writes one for its updates only (marks.go:251-261): the trail is held to
\* what the importer does, not to what it promises.
TrailEndsAtMark ==
    \A s \in Entered \ unlogged : trail[s] = result[s].marks

\* What parents see was reviewed, and what was marked is on the trail.
MarksAreReviewed == PublishedAfterReview /\ TrailEndsAtMark

\* Published marks are frozen: while the results are out a mark changes only
\* by a request that was already writing when they came out, or through the
\* routes of the staff- and the academic-service.
PublishedIsFrozen ==
    [][\A s \in Pupil :
          status = "PUBLISHED" /\ result'[s] # result[s]
              => (\E c \in late : req'[c] # req[c]) \/ req' = req]_vars
=============================================================================
