------------------------------ MODULE Attendance -----------------------------
(***************************************************************************)
(* The attendance service on one section and one day: daily and period     *)
(* marking, audited amendments, student leaves, the monthly summary that   *)
(* every marking rebuilds, and the attendance row of one staff member      *)
(* between the GPS self-mark, the office desk and the bulk mark.           *)
(*                                                                         *)
(* Every request reads first and writes later; each statement, or each     *)
(* transaction, is a step, and the process may die between two of them.    *)
(* A status only says in which column of the summary a record is counted,  *)
(* and ON_LEAVE which records a leave is linked to; times are only kept    *)
(* as set or not set. The working days, which scale the percentage, and    *)
(* the geofence, which refuses a self-mark before it reads, are left out.  *)
(***************************************************************************)
EXTENDS Naturals, FiniteSets, Sequences, SequencesExt

CONSTANTS
    Caller,       \* requests in flight
    Pupil,        \* ENROLLED students of the section
    AttendanceStatus,
    Slot,         \* "day" for daily marking, the others are periods
    MaxSessions,  \* bound: sessions
    MaxRequests   \* bound: requests

ASSUME AttendanceAssumption ==
    /\ Pupil # {} /\ "day" \in Slot /\ "NONE" \notin AttendanceStatus
    /\ MaxSessions \in Nat /\ MaxRequests \in Nat

Decision == {"APPROVED", "REJECTED", "CANCELLED"}
StaffAct == {"SELF_MARK", "CHECK_IN", "CHECK_OUT", "SET_PRESENT", "SET_ABSENT", "CLEAR"}
SessionId == 1 .. MaxSessions

VARIABLES
    sessions,   \* AttendanceSession rows in order of creation: their slots
    record,     \* AttendanceRecord of a session and a pupil
    trail,      \* AttendanceAmendment rows of each record
    summary,    \* AttendanceMonthlySummary of each pupil
    leave,      \* status of each pupil's StudentLeave
    staff,      \* the StaffAttendance row
    caller,     \* what each request is doing
    requests,   \* requests started
    exact,      \* the last summary was stored by a rebuild nobody disturbed
    lone,       \* requests nobody has disturbed since their rebuild began
    remarked    \* records marked again since their last amendment

attendanceVars ==
    <<sessions, record, trail, summary, leave, staff, caller, requests, exact, lone, remarked>>
tables == <<sessions, record, trail, summary, leave, staff>>
attendanceGhosts == <<exact, lone, remarked>>

NoRequest == [pc |-> "idle"]
NoRecord == [status |-> "NONE", linked |-> FALSE]
NoRow == [id |-> 0, status |-> "NONE", in |-> FALSE, out |-> FALSE]
NoCounts == [st \in AttendanceStatus |-> 0]

AttendanceInit ==
    /\ sessions = <<>>
    /\ record = [k \in SessionId \X Pupil |-> NoRecord]
    /\ trail = [k \in SessionId \X Pupil |-> <<>>]
    /\ summary = [p \in Pupil |-> NoCounts]
    /\ leave = [p \in Pupil |-> "NONE"]
    /\ staff = NoRow
    /\ caller = [c \in Caller |-> NoRequest]
    /\ requests = 0 /\ exact = TRUE /\ lone = {} /\ remarked = {}

At(c, pc) == caller[c].pc = pc
Becomes(c, s) == caller' = [caller EXCEPT ![c] = s]

\* A request enters.
Begins(c, s) ==
    /\ caller[c] = NoRequest /\ requests < MaxRequests
    /\ requests' = requests + 1
    /\ Becomes(c, s)
    /\ UNCHANGED attendanceGhosts

-----------------------------------------------------------------------------
(* Marking: /attendance/mark and /attendance/mark-period.                   *)

SessionsOf(slot) == {n \in 1 .. Len(sessions) : sessions[n] = slot}

\* The daily session is looked up first and created later: the unique index
\* takes NULL subjects and periods for distinct.
StartMark(c, marks) ==
    /\ \/ SessionsOf("day") = {} /\ Begins(c, [pc |-> "create", marks |-> marks])
       \/ \E n \in SessionsOf("day") : Begins(c, [pc |-> "records", marks |-> marks, session |-> n])
    /\ UNCHANGED tables

CreateSession(c) ==
    /\ At(c, "create") /\ Len(sessions) < MaxSessions
    /\ sessions' = Append(sessions, "day")
    /\ Becomes(c, [pc |-> "records", marks |-> caller[c].marks,
                   session |-> Len(sessions) + 1])
    /\ UNCHANGED <<record, trail, summary, leave, staff, requests, attendanceGhosts>>

\* A period has an index to upsert on: one statement.
StartMarkPeriod(c, slot, marks) ==
    LET new == SessionsOf(slot) = {}
        n == IF new THEN Len(sessions) + 1 ELSE CHOOSE m \in SessionsOf(slot) : TRUE
    IN  /\ slot # "day" /\ n <= MaxSessions
        /\ sessions' = IF new THEN Append(sessions, slot) ELSE sessions
        /\ Begins(c, [pc |-> "records", marks |-> marks, session |-> n])
        /\ UNCHANGED <<record, trail, summary, leave, staff>>

Rebuild(c) == [pc |-> "read", todo |-> Pupil, tally |-> summary]

\* The writer's rebuild begins; every other one in flight is disturbed.
Disturbs(c) == exact' = FALSE /\ lone' = {c}

\* One transaction of upserts; a record marked again keeps its leave.
SaveRecords(c) ==
    LET n == caller[c].session
    IN  /\ At(c, "records")
        /\ record' = [k \in DOMAIN record |->
              IF k[1] = n THEN [record[k] EXCEPT !.status = caller[c].marks[k[2]]]
                          ELSE record[k]]
        /\ remarked' = remarked \cup ({n} \X Pupil)
        /\ Becomes(c, Rebuild(c)) /\ Disturbs(c)
        /\ UNCHANGED <<sessions, trail, summary, leave, staff, requests>>

-----------------------------------------------------------------------------
(* Amendments: /attendance/amend.                                           *)

Marked == {k \in DOMAIN record : record[k].status # "NONE"}

Changes(k, status) == record[k].status # status

StartAmend(c, k, status) ==
    /\ k \in Marked /\ Changes(k, status)
    /\ Begins(c, [pc |-> "amend", key |-> k,
                  before |-> record[k].status, after |-> status])
    /\ UNCHANGED tables

\* The new status and its line in the trail commit together; the status
\* before is the one read before the transaction.
SaveAmendment(c) ==
    LET k == caller[c].key
    IN  /\ At(c, "amend")
        /\ record' = [record EXCEPT ![k].status = caller[c].after]
        /\ trail' = [trail EXCEPT ![k] =
              Append(@, [before |-> caller[c].before, after |-> caller[c].after])]
        /\ remarked' = remarked \ {k}
        /\ Becomes(c, Rebuild(c)) /\ Disturbs(c)
        /\ UNCHANGED <<sessions, summary, leave, staff, requests>>

-----------------------------------------------------------------------------
(* rebuildMonthlySummary: pupil by pupil from the rows, then the upserts.   *)

Counts(p) ==
    [st \in AttendanceStatus |-> Cardinality({n \in SessionId : record[<<n, p>>].status = st})]

\* Mutant: only daily sessions are counted.
TallyDaily(p) ==
    [st \in AttendanceStatus |->
        Cardinality({n \in SessionsOf("day") : record[<<n, p>>].status = st})]

Tally(p) == Counts(p)

ReadPupil(c, p) ==
    LET left == caller[c].todo \ {p}
        tally == [caller[c].tally EXCEPT ![p] = Tally(p)]
    IN  /\ At(c, "read") /\ p \in caller[c].todo
        /\ Becomes(c, IF left # {} THEN [pc |-> "read", todo |-> left, tally |-> tally]
                                   ELSE [pc |-> "store", todo |-> Pupil, tally |-> tally])
        /\ UNCHANGED <<tables, requests, attendanceGhosts>>

\* The upserts run side by side, each a statement of its own. One of them
\* disturbs every other rebuild.
StorePupil(c, p) ==
    LET left == caller[c].todo \ {p}
    IN  /\ At(c, "store") /\ p \in caller[c].todo
        /\ summary' = [summary EXCEPT ![p] = caller[c].tally[p]]
        /\ IF left # {}
           THEN /\ Becomes(c, [pc |-> "store", todo |-> left, tally |-> caller[c].tally])
                /\ exact' = FALSE /\ lone' = lone \cap {c}
           ELSE /\ Becomes(c, NoRequest)
                /\ exact' = (c \in lone) /\ lone' = {}
        /\ UNCHANGED <<sessions, record, trail, leave, staff, requests, remarked>>

-----------------------------------------------------------------------------
(* Student leaves: /leaves and /leaves/:id/decision.                        *)

FileLeave(p) ==
    /\ leave[p] = "NONE"
    /\ leave' = [leave EXCEPT ![p] = "PENDING"]
    /\ UNCHANGED <<sessions, record, trail, summary, staff, caller, requests, attendanceGhosts>>

Decidable(p) == leave[p] = "PENDING"

StartDecision(c, p, decision) ==
    /\ Decidable(p)
    /\ Begins(c, [pc |-> "decide", of |-> p, as |-> decision])
    /\ UNCHANGED tables

Decide(c) ==
    LET p == caller[c].of
    IN  /\ At(c, "decide")
        /\ leave' = [leave EXCEPT ![p] = caller[c].as]
        /\ Becomes(c, IF caller[c].as = "APPROVED" THEN [caller[c] EXCEPT !.pc = "link"]
                                                  ELSE NoRequest)
        /\ UNCHANGED <<sessions, record, trail, summary, staff, requests, attendanceGhosts>>

\* The pupil's ON_LEAVE records of the window, those there are by now.
LinkLeave(c) ==
    /\ At(c, "link")
    /\ record' = [k \in DOMAIN record |->
          IF k[2] = caller[c].of /\ record[k].status = "ON_LEAVE"
          THEN [record[k] EXCEPT !.linked = TRUE] ELSE record[k]]
    /\ Becomes(c, NoRequest)
    /\ UNCHANGED <<sessions, trail, summary, leave, staff, requests, attendanceGhosts>>

-----------------------------------------------------------------------------
(* The staff row: self-mark, office desk, bulk mark.                        *)

\* What each request refuses after reading the row.
Refused(act) ==
    \/ act \in {"SELF_MARK", "CHECK_IN"} /\ staff.out
    \/ act = "CHECK_OUT" /\ (~staff.in \/ staff.out)
    \/ act = "CLEAR" /\ staff = NoRow

\* A self-mark is a check-out when the row read has a check-in.
Written(act) ==
    CASE act = "SELF_MARK" -> IF staff.in THEN "CHECK_OUT" ELSE "CHECK_IN"
      [] OTHER -> act

StartStaff(c, act) ==
    /\ ~Refused(act)
    /\ Begins(c, [pc |-> "staff", act |-> Written(act), id |-> staff.id])
    /\ UNCHANGED tables

Upserted(row) == IF row = NoRow THEN [row EXCEPT !.id = requests] ELSE row

SetAbsent(row) == [row EXCEPT !.status = "ABSENT", !.in = FALSE, !.out = FALSE]

\* CHECK_OUT and CLEAR name the row they read and fail when it is gone; the
\* other writes are upserts on (staff, date).
SaveStaff(c) ==
    LET act == caller[c].act
    IN  /\ At(c, "staff")
        /\ staff' =
              CASE act = "CHECK_IN" ->
                       [Upserted(staff) EXCEPT !.status = "PRESENT", !.in = TRUE]
                [] act = "SET_PRESENT" -> [Upserted(staff) EXCEPT !.status = "PRESENT"]
                [] act = "SET_ABSENT" -> SetAbsent(Upserted(staff))
                [] staff.id # caller[c].id -> staff
                [] act = "CHECK_OUT" -> [staff EXCEPT !.out = TRUE]
                [] act = "CLEAR" -> NoRow
        /\ Becomes(c, NoRequest)
        /\ UNCHANGED <<sessions, record, trail, summary, leave, requests, attendanceGhosts>>

\* /attendance/staff/mark: one upsert of the status, whatever the times say.
BulkMarkStaff(status) ==
    /\ requests < MaxRequests
    /\ requests' = requests + 1
    /\ staff' = [Upserted(staff) EXCEPT !.status = status]
    /\ UNCHANGED <<sessions, record, trail, summary, leave, caller, attendanceGhosts>>

\* The process dies, or a statement throws, with the request half done.
RequestDies(c) ==
    /\ caller[c] # NoRequest
    /\ Becomes(c, NoRequest)
    /\ lone' = lone \ {c}
    /\ UNCHANGED <<tables, requests, exact, remarked>>

Mark(c) ==
    \/ \E marks \in [Pupil -> AttendanceStatus] :
          StartMark(c, marks) \/ \E slot \in Slot : StartMarkPeriod(c, slot, marks)
    \/ CreateSession(c) \/ SaveRecords(c)
Amend(c) ==
    \/ \E k \in SessionId \X Pupil, status \in AttendanceStatus : StartAmend(c, k, status)
    \/ SaveAmendment(c)
RebuildMonthlySummary(c) == \E p \in Pupil : ReadPupil(c, p) \/ StorePupil(c, p)
DecideLeave(c) ==
    \/ \E p \in Pupil, decision \in Decision : StartDecision(c, p, decision)
    \/ Decide(c) \/ LinkLeave(c)
MarkStaff(c) == (\E act \in StaffAct : StartStaff(c, act)) \/ SaveStaff(c)

AttendanceNext ==
    \/ \E c \in Caller : \/ Mark(c) \/ Amend(c) \/ RebuildMonthlySummary(c)
                         \/ DecideLeave(c) \/ MarkStaff(c) \/ RequestDies(c)
    \/ \E p \in Pupil : FileLeave(p)
    \/ \E status \in AttendanceStatus : BulkMarkStaff(status)

AttendanceSpec == AttendanceInit /\ [][AttendanceNext]_attendanceVars

-----------------------------------------------------------------------------
(* Properties.                                                              *)

\* A rebuild that nobody's writes disturbed leaves the summary equal to the
\* records, whatever crashed or was overwritten before it: a stale summary
\* lasts no longer than the next undisturbed rebuild.
FreshSummary == exact => \A p \in Pupil : summary[p] = Counts(p)

\* The trail ends at the status on the record unless the record was marked
\* again since, whatever amendments race or die (index.ts:898-921).
TrailEndsAtStatus ==
    \A k \in DOMAIN trail :
        trail[k] # <<>> /\ k \notin remarked => Last(trail[k]).after = record[k].status

\* What is derived from the records agrees with them: the summary, the trail.
RecordsAgree == FreshSummary /\ TrailEndsAtStatus
=============================================================================
