------------------------------- MODULE Notices -------------------------------
(***************************************************************************)
(* What the communication-service queues in NotificationLog for the        *)
(* dispatcher: absence alerts, fee reminders, examination schedules, each  *)
(* found by a scan that the attendance-service, a timer or the office      *)
(* starts, and circulars. The log is also what the scans go by to tell     *)
(* nobody twice. One school day of one branch.                             *)
(*                                                                         *)
(* A read or a createMany is a step; scans run beside each other and beside*)
(* the marking and paying they report on, and may die.                     *)
(***************************************************************************)
EXTENDS Naturals, FiniteSets

CONSTANTS
    Child, Guardian,
    Parents,      \* the guardians of each child, some with several children
    Exam,
    Scanner,      \* scans and circulars under way
    MaxScans,     \* bound: scans and circulars started
    MaxChanges    \* bound: marks, payments and days that change what is due

ASSUME NoticesAssumption ==
    /\ Parents \in [Child -> SUBSET Guardian]
    /\ MaxScans \in Nat /\ MaxChanges \in Nat

Kind == {"absence", "fees", "exams"}
Channel == {"WHATSAPP", "PUSH"}

\* What a row's template and text say it is about.
About == [absence |-> {"ABSENT"} \X Child, fees |-> {"DUE_SOON", "OVERDUE"} \X Child,
          exams |-> {"SCHEDULE"} \X Exam, circular |-> {<<"CIRCULAR", "all">>}]

VARIABLES
    mark,       \* the daily record of each child
    bill,       \* where the invoice of each child is on its way
    exam,       \* examinations inside the schedule window
    comms,      \* guardians who receive messages and can be reached
    log,        \* how many rows of each notice
    feed,       \* announcements of circulars
    scan,       \* what each scan has read, and where it is
    scans,      \* scans and circulars started
    changes,    \* marks, payments and days so far
    together    \* kinds of which two scans were under way at once

noticesVars == <<mark, bill, exam, comms, log, feed, scan, scans, changes, together>>
sources == <<mark, bill, exam, comms>>

NoScan == [pc |-> "idle"]
Notice == UNION {{<<kind, of, to, via>> : of \in About[kind], to \in Guardian,
                     via \in Channel} : kind \in DOMAIN About}

NoticesInit ==
    /\ mark = [c \in Child |-> "none"]
    /\ bill = [c \in Child |-> "later"]
    /\ exam = {}
    /\ comms \in SUBSET Guardian
    /\ log = [n \in Notice |-> 0]
    /\ feed = 0
    /\ scan = [w \in Scanner |-> NoScan]
    /\ scans = 0 /\ changes = 0 /\ together = {}

ScanAt(w, pc) == scan[w].pc = pc
ScanBecomes(w, s) == scan' = [scan EXCEPT ![w] = s]
Rows == {n \in Notice : log[n] > 0}

-----------------------------------------------------------------------------
(* The scans *)

\* What the records say somebody should be told of.
Due(kind) ==
    CASE kind = "absence" -> {of \in About.absence : mark[of[2]] = of[1]}
      [] kind = "fees" -> {of \in About.fees : bill[of[2]] = of[1]}
      [] kind = "exams" -> {of \in About.exams : of[2] \in exam}

\* Mutation of AlreadyTold: alerts are looked up by the child they are about.
AlreadyToldById(kind, via) ==
    IF kind = "absence" THEN {}
    ELSE {of \in About[kind] : \E n \in Rows : n[1] = kind /\ n[2] = of}

\* An alert of the day, on the same channel, to a guardian counts for every child
\* of that guardian; one that was pushed carries the guardian's user id, which is
\* no guardian's. Reminders and schedules are tagged with what they are about.
AlreadyTold(kind, via) ==
    IF kind = "absence"
    THEN {of \in About.absence : via # "PUSH" /\ \E n \in Rows :
             n[1] = kind /\ n[4] = via /\ n[3] \in Parents[of[2]]}
    ELSE {of \in About[kind] : \E n \in Rows : n[1] = kind /\ n[2] = of}

\* The guardians to be told: a child's, or those of the whole branch.
Reach(kind, of) ==
    comms \cap CASE kind \in {"absence", "fees"} -> Parents[of[2]]
                 [] OTHER -> UNION {Parents[c] : c \in Child}

StartScan(w, kind, via) ==
    /\ ScanAt(w, "idle") /\ scans < MaxScans
    /\ scans' = scans + 1
    /\ Due(kind) # {}
    /\ ScanBecomes(w, [pc |-> "read", kind |-> kind, via |-> via, due |-> Due(kind)])
    /\ together' = IF \E v \in Scanner : ~ScanAt(v, "idle") /\ scan[v].kind = kind
                   THEN together \cup {kind} ELSE together
    /\ UNCHANGED <<sources, log, feed, changes>>

ReadLog(w) ==
    /\ ScanAt(w, "read")
    /\ LET s == scan[w]
       IN  ScanBecomes(w, [pc |-> "queue", kind |-> s.kind, via |-> s.via, due |-> s.due,
                       todo |-> s.due \ AlreadyTold(s.kind, s.via)])
    /\ UNCHANGED <<sources, log, feed, scans, changes, together>>

Queued(kind, of, via) ==
    log' = [n \in Notice |->
        IF n[1] = kind /\ n[2] = of /\ n[4] = via /\ n[3] \in Reach(kind, of)
        THEN log[n] + 1 ELSE log[n]]

\* Mutation of GoOn: a scan stops at the first child nobody can be told about.
GoOnUntilNobody(w, of) ==
    ScanBecomes(w, [scan[w] EXCEPT !.todo =
        IF Reach(scan[w].kind, of) = {} THEN {} ELSE @ \ {of}])

GoOn(w, of) == ScanBecomes(w, [scan[w] EXCEPT !.todo = @ \ {of}])

\* One createMany for each subject; without guardians there is nothing to insert.
QueueNotices(w) ==
    /\ ScanAt(w, "queue")
    /\ \E of \in scan[w].todo : Queued(scan[w].kind, of, scan[w].via) /\ GoOn(w, of)
    /\ UNCHANGED <<sources, feed, scans, changes, together>>

FinishScan(w) ==
    /\ ScanAt(w, "queue") /\ scan[w].todo = {}
    /\ ScanBecomes(w, NoScan)
    /\ UNCHANGED <<sources, log, feed, scans, changes, together>>

\* The process dies, or a statement throws, in the middle.
Die(w) ==
    /\ ~ScanAt(w, "idle")
    /\ ScanBecomes(w, NoScan)
    /\ UNCHANGED <<sources, log, feed, scans, changes, together>>

-----------------------------------------------------------------------------
(* Circulars: rows for the audience, then the announcement. *)

\* /dispatch reads its audience: guardians, or only staff.
StartDispatch(w, staffOnly) ==
    /\ ScanAt(w, "idle") /\ scans < MaxScans
    /\ scans' = scans + 1
    /\ ScanBecomes(w, [pc |-> "rows", kind |-> "circular", staffOnly |-> staffOnly])
    /\ UNCHANGED <<sources, log, feed, changes, together>>

CreateLogs(w) ==
    /\ ScanAt(w, "rows")
    /\ IF scan[w].staffOnly THEN UNCHANGED log
       ELSE \E via \in Channel : Queued("circular", <<"CIRCULAR", "all">>, via)
    /\ ScanBecomes(w, [pc |-> "announce", kind |-> "circular"])
    /\ UNCHANGED <<sources, feed, scans, changes, together>>

Announce(w) ==
    /\ ScanAt(w, "announce")
    /\ feed' = feed + 1
    /\ ScanBecomes(w, NoScan)
    /\ UNCHANGED <<sources, log, scans, changes, together>>

-----------------------------------------------------------------------------
(* The school around the scans *)

Changing ==
    /\ changes < MaxChanges
    /\ changes' = changes + 1
    /\ UNCHANGED <<comms, log, feed, scan, scans, together>>

MarkChild(c, status) ==
    /\ Changing /\ mark' = [mark EXCEPT ![c] = status] /\ UNCHANGED <<bill, exam>>

\* An invoice comes into its window, falls due, is settled.
After(state) ==
    CASE state = "later" -> {"DUE_SOON", "settled"}
      [] state = "DUE_SOON" -> {"OVERDUE", "settled"}
      [] state = "OVERDUE" -> {"settled"}
      [] OTHER -> {}
AgeBill(c) ==
    /\ Changing
    /\ \E next \in After(bill[c]) : bill' = [bill EXCEPT ![c] = next]
    /\ UNCHANGED <<mark, exam>>

MoveExam(e) ==
    /\ Changing
    /\ exam' \in {exam \cup {e}, exam \ {e}}
    /\ UNCHANGED <<mark, bill>>

Scan(w) ==
    \/ \E kind \in Kind, via \in Channel : StartScan(w, kind, via)
    \/ ReadLog(w) \/ QueueNotices(w) \/ FinishScan(w) \/ Die(w)
Dispatch(w) == (\E staffOnly \in BOOLEAN : StartDispatch(w, staffOnly))
               \/ CreateLogs(w) \/ Announce(w)

NoticesNext ==
    \/ \E w \in Scanner : Scan(w) \/ Dispatch(w)
    \/ \E c \in Child, status \in {"PRESENT", "ABSENT"} : MarkChild(c, status)
    \/ \E c \in Child : AgeBill(c)
    \/ \E e \in Exam : MoveExam(e)

NoticesSpec == NoticesInit /\ [][NoticesNext]_noticesVars

-----------------------------------------------------------------------------
(* Properties *)

\* Unless two scans of a kind overlapped, a guardian is told a thing once however
\* often it is scanned, marks are corrected and scans die: an absence once on each
\* channel but PUSH, a reminder or a schedule once on all of them
\* (absence-alerts.ts:13-18, fee-reminders.ts:10-14, exam-triggers.ts:13-15).
ToldOnce ==
    \A n \in Rows : n[1] \in Kind \ together =>
        IF n[1] = "absence" THEN n[4] = "PUSH" \/ log[n] = 1
        ELSE log[n] = 1 /\ \A via \in Channel \ {n[4]} : log[<<n[1], n[2], n[3], via>>] = 0

\* Somebody has been told of it, or of a brother's or sister's absence, or there
\* is nobody to tell.
Covered(kind, of, via) ==
    \/ Reach(kind, of) = {}
    \/ \E n \in Rows : n[1] = kind /\ n[2] = of
    \/ kind = "absence" /\ \E n \in Rows : n[1] = kind /\ n[4] = via /\ n[3] \in Parents[of[2]]

\* A scan, whatever runs beside it, leaves nothing it has found without a notice,
\* save a child whose guardian already has one about another (absence-alerts.ts:93-125).
ScanCovers ==
    \A w \in Scanner : ScanAt(w, "queue") =>
        \A of \in scan[w].due \ scan[w].todo : Covered(scan[w].kind, of, scan[w].via)

\* Scans tell everybody, and nobody twice.
NoticesAreTold == ToldOnce /\ ScanCovers
=============================================================================
