----------------------------- MODULE Dispatcher -----------------------------
(***************************************************************************)
(* The notification dispatcher of the communication-service: NotificationLog *)
(* rows are queued by the API and delivered by drain passes, which run      *)
(* from the drain route, from the trigger routes and from a 5-minute timer. *)
(*                                                                         *)
(* A pass is not a transaction: it re-queues failed rows whose backoff is  *)
(* over, finds the oldest QUEUED rows, claims them with a conditional      *)
(* update, reads back those that are SENDING, and then handles one row     *)
(* after the other. Every later update of a row is by id alone.            *)
(*                                                                         *)
(* A walk down a row's fallback chain is one step: some provider accepts,  *)
(* or all of them fail. Opt-out and rate limit are off, as in index.ts.    *)
(***************************************************************************)
EXTENDS Integers, FiniteSets

CONSTANTS
    M,             \* bound: the messages are 1 .. M, by age
    Drainer,       \* who runs drain passes
    Gated,         \* drainers with a credit gate; the timer has none
    MaxAttempts,   \* MAX_ATTEMPTS
    Batch,         \* batchSize
    Units,         \* the tenant's credit envelope
    Receipts,      \* the delivery receipts providers send
    MaxCrashes     \* bound: passes that die

Msg == 1 .. M

ASSUME DispatcherAssumption ==
    /\ M \in Nat /\ Batch \in Nat \ {0} /\ MaxAttempts \in Nat \ {0}
    /\ Units \in Nat /\ MaxCrashes \in Nat
    /\ Gated \subseteq Drainer
    /\ Receipts \subseteq {"QUEUED", "SENT", "DELIVERED", "READ", "FAILED"}

VARIABLES
    status,     \* NotificationLog.status
    attempts,   \* NotificationLog.attempts (counted up to MaxAttempts + 1)
    retry,      \* does the error carry TRANSIENT_MARKER, is its backoff over?
    stamped,    \* is there a providerMessageId?
    units,      \* balance of the credit envelope
    quiet,      \* is it quiet hours?
    pass,       \* what each drainer is doing
    accepted,   \* sends a provider accepted, per message (counted up to 2)
    overlap,    \* have two passes ever been under way at once?
    crashes

rows   == <<status, attempts, retry, stamped>>
ghosts == <<accepted, overlap, crashes>>
vars   == <<rows, units, quiet, pass, ghosts>>

Status == {"NONE", "QUEUED", "SENDING", "SENT", "DELIVERED", "READ", "FAILED",
           "DEAD_LETTERED"}
Out == {"SENT", "DELIVERED", "READ"}

Idle == [pc |-> "idle", ids |-> {}, todo |-> {}, wait |-> FALSE]

Init ==
    /\ status = [m \in Msg |-> "NONE"]
    /\ attempts = [m \in Msg |-> 0]
    /\ retry = [m \in Msg |-> "no"]
    /\ stamped = [m \in Msg |-> FALSE]
    /\ units = Units
    /\ quiet = FALSE
    /\ pass = [d \in Drainer |-> Idle]
    /\ accepted = [m \in Msg |-> 0]
    /\ overlap = FALSE
    /\ crashes = 0

\* A batch of rows by age, and a batch the database picks.
Oldest(set) == {m \in set : Cardinality({n \in set : n < m}) < Batch}
Batches(set) == {ids \in SUBSET set :
                    Cardinality(ids) = Cardinality(Oldest(set))}

-----------------------------------------------------------------------------
(* The API, the clock, and the providers' receipts *)

Queue(m) ==
    /\ status[m] = "NONE"
    /\ \A n \in Msg : n < m => status[n] # "NONE"
    /\ status' = [status EXCEPT ![m] = "QUEUED"]
    /\ UNCHANGED <<attempts, retry, stamped, units, quiet, pass, ghosts>>

\* Quiet hours begin and end.
Clock ==
    /\ quiet' = ~quiet
    /\ UNCHANGED <<rows, units, pass, ghosts>>

BackoffOver(m) ==
    /\ retry[m] = "wait"
    /\ retry' = [retry EXCEPT ![m] = "due"]
    /\ UNCHANGED <<status, attempts, stamped, units, quiet, pass, ghosts>>

\* A receipt writes its status on the row with that providerMessageId.
Receipt(m, s) ==
    /\ stamped[m]
    /\ status' = [status EXCEPT ![m] = s]
    /\ retry' = [retry EXCEPT ![m] = IF s = "FAILED" THEN "no" ELSE @]
    /\ UNCHANGED <<attempts, stamped, units, quiet, pass, ghosts>>

-----------------------------------------------------------------------------
(* drain: from QUEUED to the rows of the pass *)

Moved(d, p) == pass' = [pass EXCEPT ![d] = p]

Retryable ==
    {m \in Msg : status[m] = "FAILED" /\ attempts[m] < MaxAttempts /\ retry[m] = "due"}

\* now, and with it the quiet hours, is read once, at the start of the pass.
StartDrain(d, urgent) ==
    /\ pass[d] = Idle
    /\ \E ids \in Batches(Retryable) :
          Moved(d, [Idle EXCEPT !.pc = "requeue", !.ids = ids, !.wait = quiet /\ ~urgent])
    /\ overlap' = (overlap \/ \E e \in Drainer \ {d} : pass[e] # Idle)
    /\ UNCHANGED <<rows, units, quiet, accepted, crashes>>

\* The retryable rows go back to QUEUED, whatever their status is by now.
Requeue(d) ==
    /\ pass[d].pc = "requeue"
    /\ status' = [m \in Msg |-> IF m \in pass[d].ids THEN "QUEUED" ELSE status[m]]
    /\ Moved(d, [pass[d] EXCEPT !.pc = "find", !.ids = {}])
    /\ UNCHANGED <<attempts, retry, stamped, units, quiet, ghosts>>

FindQueued(d) ==
    LET queued == {m \in Msg : status[m] = "QUEUED"}
    IN  /\ pass[d].pc = "find"
        /\ Moved(d, IF queued = {} THEN Idle
                    ELSE [pass[d] EXCEPT !.pc = "claim", !.ids = Oldest(queued)])
        /\ UNCHANGED <<rows, units, quiet, ghosts>>

Claim(d) ==
    /\ pass[d].pc = "claim"
    /\ status' = [m \in Msg |-> IF m \in pass[d].ids /\ status[m] = "QUEUED"
                                THEN "SENDING" ELSE status[m]]
    /\ Moved(d, [pass[d] EXCEPT !.pc = "read"])
    /\ UNCHANGED <<attempts, retry, stamped, units, quiet, ghosts>>

\* Back to the next row, or out.
Rest(d, todo) == IF todo = {} THEN Idle ELSE [pass[d] EXCEPT !.pc = "row", !.todo = todo]

\* The rows found before that are SENDING now, with their attempts.
ReadClaimed(d) ==
    /\ pass[d].pc = "read"
    /\ Moved(d, Rest(d, {<<m, attempts[m]>> :
                            m \in {n \in pass[d].ids : status[n] = "SENDING"}}))
    /\ UNCHANGED <<rows, units, quiet, ghosts>>

-----------------------------------------------------------------------------
(* drain: one row *)

InHand(d, x) == x \in pass[d].todo /\ \A y \in pass[d].todo : x[1] <= y[1]

\* Mutation of Defer: the row stays SENDING.
DeferForgotten(d, x) ==
    /\ pass[d].pc = "row" /\ InHand(d, x) /\ pass[d].wait
    /\ Moved(d, Rest(d, pass[d].todo \ {x}))
    /\ UNCHANGED <<rows, units, quiet, ghosts>>

Defer(d, x) ==
    /\ pass[d].pc = "row" /\ InHand(d, x) /\ pass[d].wait
    /\ status' = [status EXCEPT ![x[1]] = "QUEUED"]
    /\ retry' = [retry EXCEPT ![x[1]] = "no"]
    /\ Moved(d, Rest(d, pass[d].todo \ {x}))
    /\ UNCHANGED <<attempts, stamped, units, quiet, ghosts>>

\* One unit per row before the wire call; with none left the row is FAILED. An
\* unreachable control plane lets the row pass for free.
Gate(d, x) ==
    /\ pass[d].pc = "row" /\ InHand(d, x) /\ ~pass[d].wait
    /\ \/ /\ d \in Gated /\ units = 0
          /\ status' = [status EXCEPT ![x[1]] = "FAILED"]
          /\ retry' = [retry EXCEPT ![x[1]] = "no"]
          /\ Moved(d, Rest(d, pass[d].todo \ {x}))
          /\ UNCHANGED units
       \/ /\ \/ d \in Gated /\ units > 0 /\ units' = units - 1
             \/ UNCHANGED units
          /\ Moved(d, [pass[d] EXCEPT !.pc = "wire"])
          /\ UNCHANGED <<status, retry>>
    /\ UNCHANGED <<attempts, stamped, quiet, ghosts>>

\* A provider of the chain took the message.
Accept(d, x) ==
    /\ pass[d].pc = "wire" /\ InHand(d, x)
    /\ accepted' = [accepted EXCEPT ![x[1]] = IF @ = 2 THEN 2 ELSE @ + 1]
    /\ Moved(d, [pass[d] EXCEPT !.pc = "stamp"])
    /\ UNCHANGED <<rows, units, quiet, overlap, crashes>>

\* Mutation of Stamp: the attempt is stamped as a transient failure.
StampFailed(d, x) ==
    /\ pass[d].pc = "stamp" /\ InHand(d, x)
    /\ status' = [status EXCEPT ![x[1]] = "FAILED"]
    /\ stamped' = [stamped EXCEPT ![x[1]] = TRUE]
    /\ retry' = [retry EXCEPT ![x[1]] = "wait"]
    /\ Moved(d, Rest(d, pass[d].todo \ {x}))
    /\ UNCHANGED <<attempts, units, quiet, ghosts>>

Stamp(d, x) ==
    /\ pass[d].pc = "stamp" /\ InHand(d, x)
    /\ status' = [status EXCEPT ![x[1]] = "SENT"]
    /\ stamped' = [stamped EXCEPT ![x[1]] = TRUE]
    /\ retry' = [retry EXCEPT ![x[1]] = "no"]
    /\ Moved(d, Rest(d, pass[d].todo \ {x}))
    /\ UNCHANGED <<attempts, units, quiet, ghosts>>

\* Mutation of Exhaust: a chain without a configured provider counts as sent.
ExhaustSent(d, x) ==
    /\ pass[d].pc = "wire" /\ InHand(d, x)
    /\ status' = [status EXCEPT ![x[1]] = "SENT"]
    /\ Moved(d, Rest(d, pass[d].todo \ {x}))
    /\ UNCHANGED <<attempts, retry, stamped, units, quiet, ghosts>>

\* Every channel of the chain failed or is not configured.
Exhaust(d, x) ==
    LET tries == x[2] + 1
        again == tries < MaxAttempts
    IN  /\ pass[d].pc = "wire" /\ InHand(d, x)
        /\ attempts' = [attempts EXCEPT
                           ![x[1]] = IF x[2] > MaxAttempts THEN x[2] ELSE tries]
        /\ status' = [status EXCEPT ![x[1]] = IF again THEN "FAILED" ELSE "DEAD_LETTERED"]
        /\ retry' = [retry EXCEPT ![x[1]] = IF again THEN "wait" ELSE "no"]
        /\ Moved(d, Rest(d, pass[d].todo \ {x}))
        /\ UNCHANGED <<stamped, units, quiet, ghosts>>

Crash(d) ==
    /\ pass[d] # Idle
    /\ crashes < MaxCrashes
    /\ crashes' = crashes + 1
    /\ Moved(d, Idle)
    /\ UNCHANGED <<rows, units, quiet, accepted, overlap>>
-----------------------------------------------------------------------------
Handle(d) == \E x \in pass[d].todo :
    Defer(d, x) \/ Gate(d, x) \/ Accept(d, x) \/ Stamp(d, x) \/ Exhaust(d, x)

Drain(d) == Requeue(d) \/ FindQueued(d) \/ Claim(d) \/ ReadClaimed(d) \/ Handle(d)

Around ==
    \/ \E m \in Msg : Queue(m) \/ BackoffOver(m)
    \/ \E m \in Msg, s \in Receipts : Receipt(m, s)
    \/ Clock

Next ==
    \/ Around
    \/ \E d \in Drainer : Drain(d) \/ Crash(d)
    \/ \E d \in Drainer, urgent \in BOOLEAN : StartDrain(d, urgent)

Spec == Init /\ [][Next]_vars

\* A started pass runs on, backoffs end, the timer fires every five minutes,
\* and a day is long: after some point no quiet hours fall into the story.
Fairness ==
    /\ \A d \in Drainer : WF_vars(Drain(d))
    /\ \A d \in Drainer \ Gated : WF_vars(StartDrain(d, FALSE))
    /\ \A m \in Msg : WF_vars(BackoffOver(m))
    /\ <>[]~quiet

FairSpec == Spec /\ Fairness
-----------------------------------------------------------------------------
(* Properties *)

\* "Two concurrent drainers can never double-send": no provider is handed the
\* same message twice.
SentOnce == \A m \in Msg : accepted[m] <= 1

\* The same for passes that never overlap, over crashes, retries and receipts.
SentOnceAlone == overlap \/ SentOnce

\* A row's status is the truth about its message, over overlaps, crashes and
\* late receipts: what shows SENT, DELIVERED or READ was taken by a provider;
\* what was given up went through all its attempts and, unless passes
\* overlapped, reached nobody; what is SENDING is in the hands of a pass,
\* unless a pass died.
StatusTellsFate ==
    \A m \in Msg :
        /\ status[m] \in Out => accepted[m] > 0
        /\ status[m] = "DEAD_LETTERED" =>
              attempts[m] >= MaxAttempts /\ (overlap \/ accepted[m] = 0)
        /\ status[m] = "SENDING" /\ crashes = 0 =>
              \E d \in Drainer : \/ pass[d].pc = "read" /\ m \in pass[d].ids
                                 \/ \E x \in pass[d].todo : x[1] = m

\* A queued message is sent, or given up for a stated reason, unless a pass dies.
Closed(m) == \/ status[m] \in Out \cup {"DEAD_LETTERED"}
             \/ status[m] = "FAILED" /\ retry[m] = "no"

QueuedIsSettled == \A m \in Msg : status[m] = "QUEUED" ~> Closed(m) \/ crashes > 0
=============================================================================
