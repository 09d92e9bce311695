----------------------------- MODULE MCSchoolDay -----------------------------
(* A day of a school for TLC: attendance, the teachers' offline outbox, the *)
(* notices and the class-room chat. The models share no table, so their     *)
(* steps commute: each behaviour follows one of them, the part its initial  *)
(* state names.                                                             *)
EXTENDS Attendance, AttendanceOutbox, Notices, ClassChat, TLC

VARIABLE part

Siblings == [a |-> {"g"}, b |-> {"g", "h"}]
\* The parts have their workers in common, and Sheet is also Server.
Symmetric == Permutations(Caller) \cup Permutations(Sheet) \cup Permutations(Pupil)

\* Attendance is two parts: three requests that mark, amend and rebuild; and two
\* requests of any kind, those of the leaves and of the staff row among them.
MarkingNext == \E c \in Caller : Mark(c) \/ Amend(c) \/ RebuildMonthlySummary(c) \/ RequestDies(c)
LeavesNext == AttendanceNext /\ requests' < MaxRequests

DayInit ==
    /\ AttendanceInit /\ OutboxInit /\ NoticesInit /\ ChatInit
    /\ part \in {"marking", "leaves", "outbox", "notices", "chat"}
    /\ part = "notices" \/ comms = {}
    /\ part = "chat" \/ enrolled = [u \in Member |-> CHOOSE room \in Room : TRUE]

DayNext ==
    \/ /\ \/ part = "marking" /\ MarkingNext
          \/ part = "leaves" /\ LeavesNext
       /\ UNCHANGED <<part, outboxVars, noticesVars, chatVars>>
    \/ /\ part = "outbox" /\ OutboxNext
       /\ UNCHANGED <<part, attendanceVars, noticesVars, chatVars>>
    \/ /\ part = "notices" /\ NoticesNext
       /\ UNCHANGED <<part, attendanceVars, outboxVars, chatVars>>
    \/ /\ part = "chat" /\ ChatNext
       /\ UNCHANGED <<part, attendanceVars, outboxVars, noticesVars>>

DaySpec == DayInit /\ [][DayNext]_<<part, attendanceVars, outboxVars, noticesVars, chatVars>>
=============================================================================
