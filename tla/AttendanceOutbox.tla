--------------------------- MODULE AttendanceOutbox --------------------------
(***************************************************************************)
(* The offline outbox of the web client's attendance page: saves made      *)
(* offline are batches in IndexedDB, which syncAttendance posts and then   *)
(* deletes. Other tabs share the store; and the timer, the online event    *)
(* and the visibility event call a flushOutbox captured at the first       *)
(* render, whose `syncing` is always false: passes overlap.                *)
(*                                                                         *)
(* An IndexedDB transaction is a step. A post may be refused, get lost,    *)
(* lose its answer, or land after its sender has given up or been closed.  *)
(* The server's whole handling of a batch is one step: its session of the  *)
(* sheet then holds that save. Saves of a sheet are numbered as the        *)
(* teacher makes them.                                                     *)
(***************************************************************************)
EXTENDS Naturals, FiniteSets, FiniteSetsExt

CONSTANTS
    Sheet,        \* date, class and section
    Pass,         \* runs of syncAttendance in the open tabs
    GiveUpAt,     \* attempts after which a batch is no longer posted
    Buttons,      \* ways of saving: "offline", "online"
    MaxSaves,     \* bound: saves the teacher makes
    MaxBatches    \* bound: batches queued

Gone == 0                  \* the sender of a post nobody waits for

ASSUME OutboxAssumption ==
    /\ GiveUpAt \in Nat \ {0} /\ MaxSaves \in Nat /\ MaxBatches \in Nat
    /\ Gone \notin Pass

NoPass == [pc |-> "idle"]

VARIABLES
    queued,     \* the batches in the store, by id
    pass,       \* what each pass has read, and where it is
    wire,       \* posts that may still reach the server, with their senders
    session,    \* the save the server's session of each sheet holds
    newest,     \* the last save the teacher made
    lastId,     \* ids given to batches so far
    outrun      \* sheets saved while an older save could still be posted

outboxVars == <<queued, pass, wire, session, newest, lastId, outrun>>
stores == <<queued, lastId>>
saves == <<newest, outrun>>

OutboxInit ==
    /\ queued = {} /\ wire = {} /\ lastId = 0 /\ outrun = {}
    /\ pass = [p \in Pass |-> NoPass]
    /\ session = [s \in Sheet |-> 0]
    /\ newest = [s \in Sheet |-> 0]

Of(s, batches) == {b \in batches : b.sheet = s}
Pending(p) == IF pass[p] = NoPass THEN {} ELSE pass[p].todo \cup {pass[p].batch}

\* Batches some pass has read, and posts under way.
CopiesOf(s) == Of(s, wire) \cup UNION {Of(s, Pending(p)) : p \in Pass}

NewSave(s) ==
    /\ MapThenSumSet(LAMBDA t : newest[t], Sheet) < MaxSaves       \* bound
    /\ newest' = [newest EXCEPT ![s] = @ + 1]
Outruns(s, older) == outrun' = IF older = {} THEN outrun ELSE outrun \cup {s}

\* queueAttendance: an unsynced batch of the sheet takes the new marks and keeps
\* its id and its attempts.
QueueAttendance(s) ==
    /\ "offline" \in Buttons
    /\ NewSave(s)
    /\ \/ /\ Of(s, queued) = {} /\ lastId < MaxBatches             \* bound
          /\ lastId' = lastId + 1
          /\ queued' = queued \cup
                {[id |-> lastId + 1, sheet |-> s, save |-> newest'[s], attempts |-> 0]}
       \/ \E b \in Of(s, queued) :
             /\ queued' = (queued \ {b}) \cup {[b EXCEPT !.save = newest'[s]]}
             /\ UNCHANGED lastId
    /\ Outruns(s, CopiesOf(s))
    /\ UNCHANGED <<pass, wire, session>>

\* saveAttendance, the button shown online, posts past the outbox.
SaveAttendance(s) ==
    /\ "online" \in Buttons
    /\ NewSave(s)
    /\ session' = [session EXCEPT ![s] = newest'[s]]
    /\ Outruns(s, CopiesOf(s) \cup Of(s, queued))
    /\ UNCHANGED <<stores, pass, wire>>

\* The batches left of a pass; the one in its hands is taken out.
GoesOn(p, todo) ==
    IF todo = {} THEN pass' = [pass EXCEPT ![p] = NoPass]
    ELSE \E b \in todo :
            pass' = [pass EXCEPT ![p] = [pc |-> "post", todo |-> todo \ {b}, batch |-> b]]

\* syncAttendance reads every batch and passes over the poisoned ones.
StartSync(p) ==
    /\ pass[p] = NoPass /\ queued # {}
    /\ GoesOn(p, {b \in queued : b.attempts < GiveUpAt})
    /\ UNCHANGED <<stores, wire, session, saves>>

PassAt(p, pc) == pass[p].pc = pc
Moves(p, pc) == pass' = [pass EXCEPT ![p].pc = pc]

Post(p) ==
    /\ PassAt(p, "post")
    /\ wire' = wire \cup {[by |-> p, sheet |-> pass[p].batch.sheet,
                           save |-> pass[p].batch.save]}
    /\ Moves(p, "wait")
    /\ UNCHANGED <<stores, session, saves>>

\* A post lands, even if its sender has gone; the sender may miss the answer.
Land(r) ==
    /\ session' = [session EXCEPT ![r.sheet] = r.save]
    /\ wire' = wire \ {r}
    /\ IF r.by = Gone THEN UNCHANGED pass
       ELSE Moves(r.by, "posted") \/ Moves(r.by, "failed")
    /\ UNCHANGED <<stores, saves>>

\* The post is refused or lost, or its sender stops waiting for it.
Fail(p) ==
    /\ PassAt(p, "wait")
    /\ LET r == CHOOSE q \in wire : q.by = p
       IN  wire' \in {wire \ {r}, (wire \ {r}) \cup {[r EXCEPT !.by = Gone]}}
    /\ Moves(p, "failed")
    /\ UNCHANGED <<stores, session, saves>>

Others(b) == {c \in queued : c.id # b.id}

DeletePosted(p) ==
    /\ PassAt(p, "posted")
    /\ queued' = Others(pass[p].batch)
    /\ GoesOn(p, pass[p].todo)
    /\ UNCHANGED <<wire, session, lastId, saves>>

\* Mutation of Retained: a batch that has used up its attempts is dropped.
RetainedToTheLimit(b) ==
    IF b.attempts + 1 < GiveUpAt THEN {[b EXCEPT !.attempts = @ + 1]} ELSE {}

\* A failed batch goes back as the pass has read it, with one more attempt; one
\* the server refused for good is put back just the same.
Retained(b) == {[b EXCEPT !.attempts = @ + 1]}

PutBack(p) ==
    /\ PassAt(p, "failed")
    /\ queued' = Others(pass[p].batch) \cup Retained(pass[p].batch)
    /\ GoesOn(p, pass[p].todo)
    /\ UNCHANGED <<wire, session, lastId, saves>>

\* The tab is closed or reloaded; a post it has sent may land all the same.
CloseTab(p) ==
    /\ pass[p] # NoPass
    /\ pass' = [pass EXCEPT ![p] = NoPass]
    /\ wire' = {IF r.by = p THEN [r EXCEPT !.by = Gone] ELSE r : r \in wire}
    /\ UNCHANGED <<stores, session, saves>>

SyncAttendance(p) ==
    StartSync(p) \/ Post(p) \/ Fail(p) \/ DeletePosted(p) \/ PutBack(p) \/ CloseTab(p)

OutboxNext ==
    \/ \E s \in Sheet : QueueAttendance(s) \/ SaveAttendance(s)
    \/ \E p \in Pass : SyncAttendance(p)
    \/ \E r \in wire : Land(r)

OutboxSpec == OutboxInit /\ [][OutboxNext]_outboxVars

-----------------------------------------------------------------------------
(* Properties *)

\* No save disappears: whatever passes overlap, posts fail or land late, answers
\* get lost and tabs are closed, the teacher's last save of a sheet is on the
\* server or in the store, unless it was made while an older one was being posted
\* or, on the server's side, before an older one was (offline-attendance.ts:7-19).
SaveIsKept ==
    \A s \in Sheet \ outrun :
        session[s] = newest[s] \/ \E b \in Of(s, queued) : b.save = newest[s]

Quiet == queued = {} /\ wire = {} /\ \A p \in Pass : pass[p] = NoPass

\* "Conflict policy: LAST WRITE WINS ... the newest tap is what the teacher
\* intended": with the outbox flushed, the server holds the last save
\* (offline-attendance.ts:13-16).
LastWriteWins == Quiet => session = newest
=============================================================================
